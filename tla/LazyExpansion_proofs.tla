------------------------ MODULE LazyExpansion_proofs ------------------------
(***************************************************************************)
(* Two tasks of a batch never write the same row, and every rotation       *)
(* multiplies by the components its input needs, for any number of         *)
(* components and levels, any batchSize and tasksPerThread, and any number *)
(* of rotations with one key.                                              *)
(***************************************************************************)
EXTENDS LazyExpansion, TLAPS

(***************************************************************************)
(* The inductive invariant: the batches of a rotation are of components    *)
(* with rows of their own, since "wwl24", whose components share rows,     *)
(* never expands ahead.                                                    *)
(***************************************************************************)
Control ==
  /\ batching \in (Nat \ {0}) \X (Nat \ {0})
  /\ i \in Nat
  /\ pc = "expand" => ~Shared

IInv == Control /\ ChunksDisjoint

\* Chunks begin at multiples of tasksPerThread, so the later of two begins at or
\* after the end of the earlier.
LEMMA ChunksApart ==
  ASSUME NEW a \in Nat, NEW p \in Nat, NEW q \in Nat, NEW size \in Nat, p < q
  PROVE  a + p * size + size <= a + q * size
<1>1. PICK d \in Nat : q = p + 1 + d
  <2>1. q - p - 1 \in Nat /\ q = p + 1 + (q - p - 1)
    OBVIOUS
  <2> QED
    BY <2>1
<1>2. q * size = p * size + size + d * size
  BY <1>1
<1>3. d * size \in Nat /\ p * size \in Nat
  BY SMT
<1> QED
  BY <1>2, <1>3

LEMMA BatchDisjoint ==
  ASSUME IInv, Batch
  PROVE  ChunksDisjoint'
<1> DEFINE end == BatchEnd(i)
           size == batching[2]
<1>1. /\ i \in Nat /\ ~Shared /\ size \in Nat /\ batching[1] \in Nat
      /\ variant' = variant
  BY DEF IInv, Control, Batch, fixed
<1>2. tasks' = {[id |-> s, work |-> Work(s, ChunkEnd(s, end))] : s \in ChunkStarts(i, end)}
  BY DEF Batch
<1> HIDE DEF end
<1>3. ASSUME NEW t \in tasks'
      PROVE  \E k \in Nat :
               /\ t = [id |-> i + k * size, work |-> Work(i + k * size, ChunkEnd(i + k * size, end))]
               /\ i + k * size \in i..end - 1
  <2>1. PICK s \in ChunkStarts(i, end) : t = [id |-> s, work |-> Work(s, ChunkEnd(s, end))]
    BY <1>2, <1>3
  <2>2. s \in i..end - 1 /\ \E k \in 0..batching[1] - 1 : s = i + k * size
    BY DEF ChunkStarts
  <2>3. PICK k \in 0..batching[1] - 1 : s = i + k * size
    BY <2>2
  <2>4. k \in Nat
    BY <1>1
  <2> QED
    BY <2>1, <2>2, <2>3, <2>4
<1>4. ASSUME NEW s \in Nat, NEW w \in Work(s, ChunkEnd(s, end)), end \in Int
      PROVE  w[1] \in Int /\ s <= w[1] /\ w[1] < s + size
  <2>1. w[1] \in s..ChunkEnd(s, end) - 1
    BY DEF Work
  <2>2. ChunkEnd(s, end) \in Int /\ ChunkEnd(s, end) <= s + size
    BY <1>1, <1>4 DEF ChunkEnd, Smaller
  <2> QED
    BY <1>1, <2>1, <2>2
<1>5. end \in Int
  BY <1>1, ExpansionAssumption DEF end, BatchEnd, Smaller
<1> SUFFICES ASSUME NEW t \in tasks', NEW u \in tasks', t # u,
                    NEW r \in RowsOf(t)' \cap RowsOf(u)'
             PROVE  FALSE
  BY DEF ChunksDisjoint
<1>6. PICK k \in Nat :
        t = [id |-> i + k * size, work |-> Work(i + k * size, ChunkEnd(i + k * size, end))]
  BY <1>3
<1>7. PICK l \in Nat :
        u = [id |-> i + l * size, work |-> Work(i + l * size, ChunkEnd(i + l * size, end))]
  BY <1>3
<1>8. i + k * size \in Nat /\ i + l * size \in Nat
  BY <1>1
<1>9. PICK w \in Work(i + k * size, ChunkEnd(i + k * size, end)) : r[1] = w[1]
  BY <1>1, <1>6 DEF RowsOf, Row, Shared
<1>10. PICK v \in Work(i + l * size, ChunkEnd(i + l * size, end)) : r[1] = v[1]
  BY <1>1, <1>7 DEF RowsOf, Row, Shared
<1>11. /\ w[1] = v[1] /\ w[1] \in Int
       /\ i + k * size <= w[1] /\ w[1] < i + k * size + size
       /\ i + l * size <= w[1] /\ w[1] < i + l * size + size
  BY <1>4, <1>5, <1>8, <1>9, <1>10
<1>12. k # l
  BY <1>6, <1>7
<1>13. CASE k < l
  BY <1>1, <1>8, <1>11, <1>13, ChunksApart
<1>14. CASE l < k
  BY <1>1, <1>8, <1>11, <1>14, ChunksApart
<1> QED
  BY <1>12, <1>13, <1>14

\* The tasks of one component of "wwl24" have a level each.
LEMMA SwitchDisjoint ==
  ASSUME IInv, SwitchScheme
  PROVE  ChunksDisjoint'
<1>1. variant' = variant
  BY DEF SwitchScheme, fixed
<1>2. CASE Shared
  <2>1. tasks' = {[id |-> l, work |-> {<<i, l>>}] : l \in Levels}
    BY <1>2 DEF SwitchScheme
  <2> SUFFICES ASSUME NEW t \in tasks', NEW u \in tasks', t # u,
                      NEW r \in RowsOf(t)' \cap RowsOf(u)'
               PROVE  FALSE
    BY DEF ChunksDisjoint
  <2>2. PICK k \in Levels : t = [id |-> k, work |-> {<<i, k>>}]
    BY <2>1
  <2>3. PICK l \in Levels : u = [id |-> l, work |-> {<<i, l>>}]
    BY <2>1
  <2>4. r[2] = k
    BY <2>2 DEF RowsOf
  <2>5. r[2] = l
    BY <2>3 DEF RowsOf
  <2> QED
    BY <2>2, <2>3, <2>4, <2>5
<1>3. CASE ~Shared
  BY <1>1, <1>3 DEF SwitchScheme, ChunksDisjoint, RowsOf, Row, Shared, IInv
<1> QED
  BY <1>2, <1>3

\* A task that goes on has fewer rows to write.
LEMMA PrepareDisjoint ==
  ASSUME IInv, NEW t \in tasks, Prepare(t)
  PROVE  ChunksDisjoint'
<1>1. PICK w \in t.work : tasks' = (tasks \ {t}) \cup {[t EXCEPT !.work = @ \ {w}]}
  BY DEF Prepare
<1>2. variant' = variant
  BY DEF Prepare, fixed
<1> DEFINE rest == [t EXCEPT !.work = @ \ {w}]
<1>3. RowsOf(rest)' \subseteq RowsOf(t)
  BY <1>2 DEF RowsOf, Row, Shared
<1>4. \A u : RowsOf(u)' = RowsOf(u)
  BY <1>2 DEF RowsOf, Row, Shared
<1> HIDE DEF rest
<1> SUFFICES ASSUME NEW u \in tasks', NEW v \in tasks', u # v
             PROVE  RowsOf(u)' \cap RowsOf(v)' = {}
  BY DEF ChunksDisjoint
<1>5. \A x, y \in tasks : x # y => RowsOf(x) \cap RowsOf(y) = {}
  BY DEF IInv, ChunksDisjoint
<1>6. tasks' = (tasks \ {t}) \cup {rest}
  BY <1>1 DEF rest
<1>7. CASE u = rest
  BY <1>3, <1>4, <1>5, <1>6, <1>7
<1>8. CASE v = rest
  BY <1>3, <1>4, <1>5, <1>6, <1>8
<1>9. CASE u # rest /\ v # rest
  BY <1>4, <1>5, <1>6, <1>9
<1> QED
  BY <1>7, <1>8, <1>9

LEMMA InitInductive == Init => IInv
BY ExpansionAssumption DEF Init, IInv, Control, ChunksDisjoint

LEMMA NextInductive == IInv /\ [Next]_vars => IInv'
<1> SUFFICES ASSUME IInv, [Next]_vars PROVE IInv'
  OBVIOUS
<1>1. Control'
  <2>1. batching' = batching /\ variant' = variant
    BY DEF Next, Call, Batch, Expanded, Skip, SwitchScheme, Product, Return, Prepare, EndTask, vars, fixed
  <2>2. i' \in Nat
    <3>1. CASE Batch
      BY <3>1, ExpansionAssumption DEF Batch, BatchEnd, Smaller, IInv, Control
    <3>2. CASE ~Batch
      BY <3>2 DEF IInv, Control, Next, Call, Expanded, Skip, SwitchScheme, Product, Return, Advance,
        Prepare, EndTask, First, vars
    <3> QED
      BY <3>1, <3>2
  <2>3. pc' = "expand" => ~Shared
    BY DEF IInv, Control, Next, Call, Batch, Expanded, Skip, SwitchScheme, Product, Return, Advance, Prepare, EndTask, vars
  <2> QED
    BY <2>1, <2>2, <2>3 DEF IInv, Control, Shared
<1>2. ChunksDisjoint'
  <2>1. CASE Batch
    BY <2>1, BatchDisjoint
  <2>2. CASE SwitchScheme
    BY <2>2, SwitchDisjoint
  <2>3. CASE \E t \in tasks : Prepare(t)
    BY <2>3, PrepareDisjoint
  <2>4. ASSUME NEW t \in tasks, EndTask(t) PROVE ChunksDisjoint'
    BY <2>4 DEF EndTask, IInv, ChunksDisjoint, RowsOf, Row, Shared, fixed
  <2>5. CASE (\E z \in SUBSET Components : Call(z)) \/ Expanded \/ Skip \/ Product \/ Return
             \/ UNCHANGED vars
    BY <2>5 DEF Call, Expanded, Skip, Product, Return, vars, fixed, IInv, ChunksDisjoint, RowsOf, Row, Shared
  <2> QED
    BY <2>1, <2>2, <2>3, <2>4, <2>5 DEF Next
<1> QED
  BY <1>1, <1>2 DEF IInv

(***************************************************************************)
(* The second invariant: what a rotation has expanded, and what it has     *)
(* used.  A component is whole when its rows hold it once at every level;  *)
(* while the batches run, each component before i is whole but for the     *)
(* rows some task has still to write, and "lazyMT", which does not clear,  *)
(* finds those rows empty.  Between calls a lazy key stays whole for the   *)
(* components its first input needed.                                      *)
(***************************************************************************)
Whole(c) == \A l \in Levels : rows[c][l] = <<c>>
Pending(c, l) == \E t \in tasks : <<c, l>> \in t.work
Rotating == pc \in {"rotate", "product"}
Start == IF pc = "expand" THEN First ELSE i       \* the next component to be used

Typed ==
  /\ variant \in Variants
  /\ pc \in {"idle", "expand", "rotate", "product"}
  /\ calls \in Nat /\ i \in 0..N
  /\ zero \subseteq Components /\ firstZero \subseteq Components
  /\ rows \in [Components -> [Levels -> Seq(Components)]]
  /\ \A t \in tasks : t.work \subseteq Components \X Levels
  /\ acc \in Seq(Components \cup {Unset})

Fresh == calls = 0 => pc = "idle" /\ rows = NoRows /\ ~initialized

InTasks ==
  /\ tasks # {} => IF Shared THEN pc = "product" ELSE pc = "expand"
  /\ \A t \in tasks : \A w \in t.work : IF Shared THEN w[1] = i ELSE w[1] < i

Expanding ==
  pc = "expand" =>
    \A c \in Components : \A l \in Levels :
      /\ First <= c /\ c < i /\ Needed(c) => Pending(c, l) \/ rows[c][l] = <<c>>
      /\ variant = "lazyMT" /\ (i <= c \/ Pending(c, l)) => rows[c][l] = <<>>

Ready ==
  /\ Rotating /\ ~Shared => \A c \in Components \ zero : First <= c => Whole(c)
  /\ pc = "product" /\ Shared => \A l \in Levels : Pending(i, l) \/ rows[0][l] = <<i>>

LazyKey ==
  variant = "lazy" =>
    /\ firstZero \subseteq zero
    /\ initialized => pc # "expand" /\ \A c \in Components \ firstZero : 1 <= c => Whole(c)
    /\ calls > 0 /\ ~initialized => pc = "expand" /\ zero = firstZero

Progress ==
  /\ pc # "idle" => First <= i /\ UsedBefore(Len(acc) + 1) = {c \in Components \ zero : c < Start}
  /\ pc = "product" => i \in Components \ zero

PInv ==
  /\ Typed /\ Fresh /\ InTasks /\ Expanding /\ Ready /\ LazyKey /\ Progress
  /\ ComputesRotation

InOrder ==
  \A n \in DOMAIN acc :
    acc[n] \in Components \ zero /\ UsedBefore(n) = {c \in Components \ zero : c < acc[n]}

LEMMA OrderKept ==
  ASSUME InOrder, acc' = acc, zero' = zero
  PROVE  InOrder' /\ \A n : UsedBefore(n)' = UsedBefore(n)
BY DEF InOrder, UsedBefore

LEMMA InitProgress == Init => PInv
<1> SUFFICES ASSUME Init PROVE PInv
  OBVIOUS
<1>1. variant \in Variants /\ pc = "idle" /\ i = 0 /\ tasks = {} /\ rows = NoRows /\ ~initialized
      /\ calls = 0 /\ zero = Components /\ firstZero = Components /\ acc = <<>>
  BY DEF Init
<1>2. N \in Nat /\ acc \in Seq(Components \cup {Unset}) /\ Len(acc) = 0 /\ DOMAIN acc = {}
  BY <1>1, ExpansionAssumption
<1>3. rows \in [Components -> [Levels -> Seq(Components)]]
  BY <1>1 DEF NoRows
<1>4. Typed
  BY <1>1, <1>2, <1>3 DEF Typed
<1>5. ComputesRotation
  <2>1. UsedBefore(Len(acc) + 1) = {}
    BY <1>2 DEF UsedBefore
  <2> QED
    BY <1>1, <1>2, <2>1 DEF ComputesRotation
<1> QED
  BY <1>1, <1>4, <1>5 DEF PInv, Fresh, InTasks, Expanding, Ready, Rotating, LazyKey, Progress

(***************************************************************************)
(* A call.                                                                 *)
(***************************************************************************)
Limits ==
  /\ "lazyMT" \in Variants => "lazyMT" \in UsedOnce
  /\ "lazy" \in Variants => "lazy" \in UsedOnce \cup UsedCovered

LEMMA CallProgress ==
  ASSUME Limits, PInv, NEW z \in SUBSET Components, Call(z)
  PROVE  PInv'
<1>1. /\ pc = "idle" /\ tasks = {} /\ tasks' = {} /\ variant' = variant /\ variant \in Variants
      /\ calls \in Nat /\ calls' = calls + 1 /\ zero' = z /\ z \subseteq Components
      /\ firstZero' = IF calls = 0 THEN z ELSE firstZero
      /\ initialized' = initialized /\ i' = First /\ rows' = RowsAtCall
      /\ pc' = IF Shared \/ Prepared THEN "rotate" ELSE "expand"
      /\ firstZero \subseteq Components /\ N \in Nat \ {0}
  BY ExpansionAssumption DEF PInv, Typed, InTasks, Call, fixed
<1>2. First \in {0, 1} /\ First' = First /\ First \in 0..N /\ (Shared' <=> Shared)
      /\ \A c : Needed(c)' <=> variant \in {"preRot", "jp22"} \/ c \notin z
  BY <1>1 DEF First, Shared, Needed
<1>3. /\ acc' \in Seq(Components \cup {Unset}) /\ acc' = IF First = 1 /\ 0 \notin z THEN <<0>> ELSE <<>>
      /\ 0 \in Components
  <2>1. 0 \in Components
    BY <1>1 DEF Components
  <2>2. acc' = IF First = 1 /\ 0 \notin z THEN <<0>> ELSE <<>>
    BY DEF Call
  <2>3. <<0>> \in Seq(Components \cup {Unset}) /\ <<>> \in Seq(Components \cup {Unset})
    BY <2>1
  <2> QED
    BY <2>1, <2>2, <2>3
<1>4. NoRows \in [Components -> [Levels -> Seq(Components)]]
  BY DEF NoRows
<1>5. rows' \in [Components -> [Levels -> Seq(Components)]]
  BY <1>1, <1>4 DEF RowsAtCall, PInv, Typed
<1>6. Typed'
  BY <1>1, <1>2, <1>3, <1>5 DEF Typed
<1>7. UsedBefore(Len(acc) + 1)' = {c \in Components \ z : c < First} /\ InOrder'
  <2>1. CASE First = 1 /\ 0 \notin z
    <3>1. acc' = <<0>> /\ Len(acc') = 1 /\ acc'[1] = 0 /\ DOMAIN acc' = {1}
      BY <1>3, <2>1
    <3>2. UsedBefore(1)' = {}
      BY DEF UsedBefore
    <3>3. UsedBefore(Len(acc) + 1)' = {0}
      <4>1. 1..Len(acc') + 1 - 1 = {1}
        BY <3>1
      <4> QED
        BY <3>1, <4>1 DEF UsedBefore
    <3>4. {c \in Components \ z : c < 1} = {0} /\ {c \in Components \ z : c < 0} = {}
      BY <1>1, <2>1 DEF Components
    <3> QED
      BY <1>1, <1>3, <2>1, <3>1, <3>2, <3>3, <3>4 DEF InOrder
  <2>2. CASE ~(First = 1 /\ 0 \notin z)
    <3>1. acc' = <<>> /\ Len(acc') = 0 /\ DOMAIN acc' = {}
      BY <1>3, <2>2
    <3>2. UsedBefore(Len(acc) + 1)' = {}
      BY <3>1 DEF UsedBefore
    <3>3. {c \in Components \ z : c < First} = {}
      BY <1>1, <1>2, <2>2 DEF Components
    <3> QED
      BY <3>1, <3>2, <3>3 DEF InOrder
  <2> QED
    BY <2>1, <2>2
<1>8. ComputesRotation'
  BY <1>1, <1>7 DEF ComputesRotation, InOrder
<1>9. Progress'
  BY <1>1, <1>2, <1>7 DEF Progress, Start
<1>10. MayCall(z)
  BY DEF Call
<1>11. variant = "lazyMT" => rows' = NoRows
  BY <1>1, <1>10 DEF Limits, MayCall, RowsAtCall, PInv, Fresh
<1>12. Expanding'
  <2> SUFFICES ASSUME NEW c \in Components, NEW l \in Levels
               PROVE  /\ ~(First <= c /\ c < First)
                      /\ variant = "lazyMT" => rows'[c][l] = <<>>
    BY <1>1, <1>2 DEF Expanding
  <2>1. c \in Int
    BY DEF Components
  <2>2. NoRows[c][l] = <<>>
    BY DEF NoRows
  <2> QED
    BY <1>2, <1>11, <2>1, <2>2
<1>13. LazyKey'
  <2> SUFFICES ASSUME variant = "lazy"
               PROVE  /\ firstZero' \subseteq z
                      /\ initialized => pc' # "expand" /\ \A c \in Components \ firstZero' : 1 <= c => Whole(c)'
                      /\ ~initialized => pc' = "expand" /\ z = firstZero'
    BY <1>1 DEF LazyKey
  <2>1. rows' = rows /\ \A c : Whole(c)' <=> Whole(c)
    BY <1>1 DEF RowsAtCall, Whole
  <2>2. CASE calls = 0
    <3>1. ~initialized /\ firstZero' = z
      BY <1>1, <2>2 DEF PInv, Fresh
    <3> QED
      BY <1>1, <3>1 DEF Prepared, Shared
  <2>3. CASE calls # 0
    <3>1. calls > 0 /\ firstZero' = firstZero
      BY <1>1, <2>3
    <3>2. initialized /\ \A c \in Components \ firstZero : 1 <= c => Whole(c)
      BY <1>1, <3>1 DEF PInv, LazyKey
    <3>3. firstZero \subseteq z
      BY <1>1, <1>10, <3>1 DEF Limits, MayCall
    <3> QED
      BY <1>1, <2>1, <3>1, <3>2, <3>3 DEF Prepared
  <2> QED
    BY <2>2, <2>3
<1>14. Ready'
  <2>1. ASSUME Rotating', ~Shared', NEW c \in Components \ z, First <= c
        PROVE  Whole(c)'
    <3>1. variant = "lazy" /\ initialized
      BY <1>1, <1>2, <2>1 DEF Prepared, Rotating
    <3>2. First = 1
      BY <3>1 DEF First
    <3> QED
      BY <1>1, <1>13, <2>1, <3>1, <3>2 DEF LazyKey
  <2> QED
    BY <1>1, <1>2, <2>1 DEF Ready
<1>15. Fresh' /\ InTasks'
  BY <1>1 DEF Fresh, InTasks
<1> QED
  BY <1>6, <1>8, <1>9, <1>12, <1>13, <1>14, <1>15 DEF PInv

(***************************************************************************)
(* The batches.                                                            *)
(***************************************************************************)
LEMMA Quotient ==
  ASSUME NEW d \in Nat, NEW size \in Nat \ {0}, NEW count \in Nat, d < count * size
  PROVE  \E k \in 0..count - 1 : k * size <= d /\ d < k * size + size
<1> DEFINE k == d \div size
<1>1. k \in Nat /\ k * size <= d /\ d < k * size + size
  BY SMT
<1> HIDE DEF k
<1>2. k < count
  <2> SUFFICES ASSUME count <= k PROVE FALSE
    BY <1>1
  <2>1. PICK e \in Nat : k = count + e
    <3>1. k - count \in Nat /\ k = count + (k - count)
      BY <1>1
    <3> QED
      BY <3>1
  <2>2. k * size = count * size + e * size /\ e * size \in Nat /\ count * size \in Nat
    BY <2>1, SMT
  <2> QED
    BY <1>1, <2>2
<1> QED
  BY <1>1, <1>2

\* The chunks of a batch are its components, and no other.
LEMMA BatchCovers ==
  ASSUME Control, Batch
  PROVE  /\ \A c \in i..BatchEnd(i) - 1 : \A l \in Levels : Needed(c) => Pending(c, l)'
         /\ \A t \in tasks' : \A w \in t.work :
              w \in (i..BatchEnd(i) - 1) \X Levels
<1> DEFINE end == BatchEnd(i)
           size == batching[2]
           count == batching[1]
<1>1. i \in Nat /\ size \in Nat \ {0} /\ count \in Nat \ {0} /\ N \in Nat
  BY ExpansionAssumption DEF Control
<1>2. tasks' = {[id |-> s, work |-> Work(s, ChunkEnd(s, end))] : s \in ChunkStarts(i, end)}
  BY DEF Batch
<1>3. count * size \in Nat /\ end \in Int /\ end <= i + count * size
  <2>1. count * size \in Nat
    BY <1>1, SMT
  <2> QED
    BY <1>1, <2>1 DEF BatchEnd, Smaller
<1> HIDE DEF end
<1>4. ASSUME NEW c \in i..end - 1, NEW l \in Levels, Needed(c)
      PROVE  Pending(c, l)'
  <2>1. c - i \in Nat /\ c - i < count * size
    BY <1>1, <1>3
  <2>2. PICK k \in 0..count - 1 : k * size <= c - i /\ c - i < k * size + size
    BY <1>1, <2>1, Quotient
  <2> DEFINE s == i + k * size
  <2>3. k * size \in Nat
    BY <1>1, <2>2, SMT
  <2>4. s \in Nat /\ s <= c /\ c < s + size /\ s \in i..end - 1
    BY <1>1, <1>3, <2>2, <2>3
  <2>5. s \in ChunkStarts(i, end)
    BY <2>2, <2>4 DEF ChunkStarts
  <2> HIDE DEF s
  <2>6. c < ChunkEnd(s, end) /\ ChunkEnd(s, end) \in Int
    BY <1>1, <1>3, <2>4 DEF ChunkEnd, Smaller
  <2>7. c \in s..ChunkEnd(s, end) - 1
    BY <1>1, <2>4, <2>6
  <2>8. <<c, l>> \in Work(s, ChunkEnd(s, end))
    BY <1>4, <2>7 DEF Work
  <2>9. [id |-> s, work |-> Work(s, ChunkEnd(s, end))] \in tasks'
    BY <1>2, <2>5
  <2> QED
    BY <2>8, <2>9 DEF Pending
<1>5. ASSUME NEW t \in tasks', NEW w \in t.work
      PROVE  w \in (i..end - 1) \X Levels
  <2>1. PICK s \in ChunkStarts(i, end) : t = [id |-> s, work |-> Work(s, ChunkEnd(s, end))]
    BY <1>2, <1>5
  <2>2. s \in i..end - 1
    BY <2>1 DEF ChunkStarts
  <2>3. ChunkEnd(s, end) \in Int /\ ChunkEnd(s, end) <= end
    BY <1>1, <1>3, <2>2 DEF ChunkEnd, Smaller
  <2>4. s..ChunkEnd(s, end) - 1 \subseteq i..end - 1
    BY <1>1, <1>3, <2>2, <2>3
  <2> QED
    BY <1>5, <2>1, <2>4 DEF Work
<1> QED
  BY <1>4, <1>5 DEF end

LEMMA BatchProgress ==
  ASSUME IInv, PInv, Batch
  PROVE  PInv'
<1>1. /\ pc = "expand" /\ tasks = {} /\ pc' = pc /\ variant' = variant /\ acc' = acc
      /\ zero' = zero /\ firstZero' = firstZero /\ calls' = calls /\ rows' = rows
      /\ initialized' = initialized /\ i < N /\ i' = BatchEnd(i)
      /\ i \in Nat /\ N \in Nat /\ ~Shared /\ ~Shared'
  BY ExpansionAssumption DEF PInv, Typed, IInv, Control, Batch, fixed, input, Joined, Shared
<1>2. BatchEnd(i) \in i..N /\ i <= i'
  <2>1. batching[1] * batching[2] \in Nat
    BY SMT DEF IInv, Control
  <2> QED
    BY <1>1, <2>1 DEF BatchEnd, Smaller
<1>3. /\ \A c \in i..BatchEnd(i) - 1 : \A l \in Levels : Needed(c) => Pending(c, l)'
      /\ \A t \in tasks' : \A w \in t.work : w \in (i..BatchEnd(i) - 1) \X Levels
  BY BatchCovers DEF IInv
<1>4. i..BatchEnd(i) - 1 \subseteq Components /\ \A c \in i..BatchEnd(i) - 1 : c < BatchEnd(i)
  BY <1>1, <1>2 DEF Components
<1>5. Typed'
  <2>1. BatchEnd(i) \in 0..N
    BY <1>1, <1>2
  <2>2. \A t \in tasks' : t.work \subseteq Components \X Levels
    BY <1>3, <1>4
  <2> QED
    BY <1>1, <2>1, <2>2 DEF PInv, Typed
<1>6. InTasks'
  BY <1>1, <1>3, <1>4 DEF InTasks
<1>7. Expanding'
  <2> SUFFICES ASSUME NEW c \in Components, NEW l \in Levels
               PROVE  /\ First <= c /\ c < BatchEnd(i) /\ Needed(c) => Pending(c, l)' \/ rows[c][l] = <<c>>
                      /\ variant = "lazyMT" /\ (BatchEnd(i) <= c \/ Pending(c, l)') => rows[c][l] = <<>>
    BY <1>1 DEF Expanding, First, Needed
  <2>1. /\ First <= c /\ c < i /\ Needed(c) => rows[c][l] = <<c>>
        /\ variant = "lazyMT" /\ i <= c => rows[c][l] = <<>>
    BY <1>1 DEF PInv, Expanding, Pending
  <2>2. c \in Int /\ BatchEnd(i) \in Int /\ i <= BatchEnd(i)
    BY <1>1, <1>2 DEF Components
  <2>3. Pending(c, l)' => i <= c
    BY <1>1, <1>3, <2>2 DEF Pending
  <2>4. c < BatchEnd(i) => c < i \/ c \in i..BatchEnd(i) - 1
    BY <1>1, <2>2
  <2> QED
    BY <1>1, <1>3, <2>1, <2>2, <2>3, <2>4
<1>8. Ready'
  BY <1>1 DEF Ready, Rotating
<1>9. LazyKey'
  BY <1>1 DEF PInv, LazyKey
<1>10. Progress' /\ ComputesRotation'
  <2>1. First' = First /\ First <= i' /\ Start' = Start
    BY <1>1, <1>2 DEF PInv, Progress, First, Start
  <2>2. InOrder' /\ \A n : UsedBefore(n)' = UsedBefore(n)
    BY <1>1, OrderKept DEF PInv, ComputesRotation, InOrder
  <2>3. UsedBefore(Len(acc) + 1)' = UsedBefore(Len(acc) + 1)
    BY <1>1 DEF UsedBefore
  <2> QED
    BY <1>1, <2>1, <2>2, <2>3 DEF PInv, Progress, ComputesRotation, InOrder
<1>11. Fresh'
  BY <1>1 DEF PInv, Fresh
<1> QED
  BY <1>5, <1>6, <1>7, <1>8, <1>9, <1>10, <1>11 DEF PInv

LEMMA ExpandedProgress ==
  ASSUME PInv, Expanded
  PROVE  PInv'
<1>1. /\ pc = "expand" /\ tasks = {} /\ pc' = "rotate" /\ variant' = variant /\ acc' = acc
      /\ zero' = zero /\ firstZero' = firstZero /\ calls' = calls /\ rows' = rows /\ tasks' = tasks
      /\ (initialized' <=> initialized \/ variant = "lazy") /\ i = N /\ i' = First
      /\ N \in Nat \ {0}
  BY ExpansionAssumption DEF PInv, Typed, Expanded, fixed, input, Joined
<1>2. First \in {0, 1} /\ First \in 0..N /\ First' = First /\ (Shared' <=> Shared)
  BY <1>1 DEF First, Shared
<1>3. \A c \in Components : First <= c /\ Needed(c) => Whole(c)
  <2> SUFFICES ASSUME NEW c \in Components, First <= c, Needed(c), NEW l \in Levels
               PROVE  rows[c][l] = <<c>>
    BY DEF Whole
  <2>1. c < i
    BY <1>1 DEF Components
  <2> QED
    BY <1>1, <2>1 DEF PInv, Expanding, Pending
<1>4. \A c : Whole(c)' <=> Whole(c)
  BY <1>1 DEF Whole
<1>5. Ready'
  BY <1>1, <1>2, <1>3, <1>4 DEF Ready, Needed
<1>6. LazyKey'
  <2> SUFFICES ASSUME variant = "lazy"
               PROVE  firstZero \subseteq zero /\ \A c \in Components \ firstZero : 1 <= c => Whole(c)
    BY <1>1, <1>4 DEF LazyKey
  <2>1. First = 1 /\ calls > 0 /\ ~initialized /\ zero = firstZero
    <3>1. calls # 0 /\ ~initialized
      BY <1>1 DEF PInv, Fresh, LazyKey
    <3>2. calls > 0
      BY <3>1 DEF PInv, Typed
    <3> QED
      BY <3>1, <3>2 DEF PInv, LazyKey, First
  <2> QED
    BY <1>3, <2>1 DEF Needed
<1>7. Progress' /\ ComputesRotation'
  <2>1. InOrder' /\ \A n : UsedBefore(n)' = UsedBefore(n)
    BY <1>1, OrderKept DEF PInv, ComputesRotation, InOrder
  <2>2. UsedBefore(Len(acc) + 1)' = UsedBefore(Len(acc) + 1) /\ Start = First /\ Start' = First
    BY <1>1 DEF UsedBefore, Start
  <2> QED
    BY <1>1, <1>2, <2>1, <2>2 DEF PInv, Progress, ComputesRotation, InOrder
<1>8. Typed' /\ Fresh'
  BY <1>1, <1>2 DEF PInv, Typed, Fresh
<1>9. InTasks' /\ Expanding'
  BY <1>1 DEF InTasks, Expanding
<1> QED
  BY <1>5, <1>6, <1>7, <1>8, <1>9 DEF PInv

(***************************************************************************)
(* The components in turn.                                                 *)
(***************************************************************************)
LEMMA SkipProgress ==
  ASSUME PInv, Skip
  PROVE  PInv'
<1>1. /\ pc = "rotate" /\ pc' = "rotate" /\ tasks = {} /\ tasks' = tasks /\ variant' = variant
      /\ acc' = acc /\ zero' = zero /\ firstZero' = firstZero /\ calls' = calls /\ rows' = rows
      /\ initialized' = initialized /\ i < N /\ i' = i + 1 /\ i \in zero
      /\ i \in Nat /\ N \in Nat \ {0} /\ (Shared' <=> Shared) /\ First' = First /\ First \in {0, 1}
  BY ExpansionAssumption DEF PInv, Typed, InTasks, Skip, Advance, fixed, input, Shared, First
<1>2. Ready' /\ LazyKey'
  BY <1>1 DEF PInv, Ready, Rotating, LazyKey, Whole
<1>3. Progress' /\ ComputesRotation'
  <2>1. InOrder' /\ \A n : UsedBefore(n)' = UsedBefore(n)
    BY <1>1, OrderKept DEF PInv, ComputesRotation, InOrder
  <2>2. UsedBefore(Len(acc) + 1)' = UsedBefore(Len(acc) + 1) /\ Start = i /\ Start' = i + 1
    BY <1>1 DEF UsedBefore, Start
  <2>3. \A c \in Components \ zero : c < i <=> c < i + 1
    BY <1>1 DEF Components
  <2>4. First <= i /\ First <= i + 1
    BY <1>1 DEF PInv, Progress
  <2> QED
    BY <1>1, <2>1, <2>2, <2>3, <2>4 DEF PInv, Progress, ComputesRotation, InOrder
<1>4. Typed' /\ Fresh'
  BY <1>1 DEF PInv, Typed, Fresh
<1>5. InTasks' /\ Expanding'
  BY <1>1 DEF InTasks, Expanding
<1> QED
  BY <1>2, <1>3, <1>4, <1>5 DEF PInv

LEMMA SwitchProgress ==
  ASSUME PInv, SwitchScheme
  PROVE  PInv'
<1>1. /\ pc = "rotate" /\ pc' = "product" /\ tasks = {} /\ variant' = variant
      /\ acc' = acc /\ zero' = zero /\ firstZero' = firstZero /\ calls' = calls /\ rows' = rows
      /\ initialized' = initialized /\ i < N /\ i' = i /\ i \notin zero
      /\ tasks' = IF Shared THEN {[id |-> l, work |-> {<<i, l>>}] : l \in Levels} ELSE tasks
      /\ i \in Nat /\ N \in Nat \ {0} /\ (Shared' <=> Shared) /\ First' = First
  BY ExpansionAssumption DEF PInv, Typed, InTasks, SwitchScheme, fixed, input, Shared, First
<1>2. i \in Components \ zero
  BY <1>1 DEF Components
<1>3. \A t \in tasks' : \A w \in t.work : Shared /\ w[1] = i /\ w \in Components \X Levels
  <2> SUFFICES ASSUME NEW t \in tasks', NEW w \in t.work
               PROVE  Shared /\ w[1] = i /\ w \in Components \X Levels
    OBVIOUS
  <2>1. Shared
    BY <1>1
  <2>2. PICK l \in Levels : t = [id |-> l, work |-> {<<i, l>>}]
    BY <1>1, <2>1
  <2> QED
    BY <1>2, <2>1, <2>2
<1>4. ASSUME Shared, NEW l \in Levels PROVE Pending(i, l)'
  <2>1. [id |-> l, work |-> {<<i, l>>}] \in tasks'
    BY <1>1, <1>4
  <2> QED
    BY <1>1, <2>1 DEF Pending
<1>5. Ready'
  <2>1. ASSUME ~Shared PROVE \A c \in Components \ zero : First <= c => Whole(c)'
    BY <1>1, <2>1 DEF PInv, Ready, Rotating, Whole
  <2> QED
    BY <1>1, <1>4, <2>1 DEF Ready
<1>6. Progress' /\ ComputesRotation'
  <2>1. InOrder' /\ \A n : UsedBefore(n)' = UsedBefore(n)
    BY <1>1, OrderKept DEF PInv, ComputesRotation, InOrder
  <2>2. UsedBefore(Len(acc) + 1)' = UsedBefore(Len(acc) + 1) /\ Start = i /\ Start' = i
    BY <1>1 DEF UsedBefore, Start
  <2> QED
    BY <1>1, <1>2, <2>1, <2>2 DEF PInv, Progress, ComputesRotation, InOrder
<1>7. Typed'
  BY <1>1, <1>3 DEF PInv, Typed
<1>8. InTasks'
  BY <1>1, <1>3 DEF InTasks
<1>9. Fresh' /\ Expanding' /\ LazyKey'
  BY <1>1 DEF PInv, Fresh, Expanding, LazyKey, Whole
<1> QED
  BY <1>5, <1>6, <1>7, <1>8, <1>9 DEF PInv

\* The rows that the product uses are those of its component.
LEMMA ProductProgress ==
  ASSUME PInv, Product
  PROVE  PInv'
<1>1. /\ pc = "product" /\ pc' = "rotate" /\ tasks = {} /\ tasks' = tasks /\ variant' = variant
      /\ zero' = zero /\ firstZero' = firstZero /\ calls' = calls /\ rows' = rows
      /\ initialized' = initialized /\ i' = i + 1 /\ acc' = Append(acc, Used(i))
      /\ i \in Components \ zero /\ First <= i
      /\ N \in Nat \ {0} /\ (Shared' <=> Shared) /\ First' = First /\ First \in {0, 1}
      /\ acc \in Seq(Components \cup {Unset})
  BY ExpansionAssumption DEF PInv, Typed, Progress, Product, Joined, Advance, fixed, input, Shared, First
<1>2. i \in Nat /\ i < N /\ zero \subseteq Components
  BY <1>1 DEF PInv, Typed, Components
<1>3. Used(i) = i
  <2> SUFFICES ASSUME NEW l \in Levels PROVE rows[Row(i)][l] = <<i>>
    BY DEF Used
  <2>1. CASE Shared
    BY <1>1, <2>1 DEF PInv, Ready, Pending, Row
  <2>2. CASE ~Shared
    BY <1>1, <2>2 DEF PInv, Ready, Rotating, Whole, Row
  <2> QED
    BY <2>1, <2>2
<1>4. PICK n \in Nat : n = Len(acc)
  BY <1>1
<1>5. /\ acc' \in Seq(Components \cup {Unset}) /\ Len(acc') = n + 1 /\ DOMAIN acc' = 1..n + 1
      /\ DOMAIN acc = 1..n
      /\ acc'[n + 1] = i /\ \A m \in 1..n : acc'[m] = acc[m]
  BY <1>1, <1>3, <1>4
<1>6. \A m \in 1..n + 1 : UsedBefore(m)' = UsedBefore(m)
  <2> SUFFICES ASSUME NEW m \in 1..n + 1
               PROVE  UsedBefore(m)' = UsedBefore(m)
    OBVIOUS
  <2>1. \A h \in 1..m - 1 : acc'[h] = acc[h]
    BY <1>5
  <2> QED
    BY <2>1 DEF UsedBefore
<1>7. UsedBefore(n + 1) = {c \in Components \ zero : c < i}
  BY <1>1, <1>4 DEF PInv, Progress, Start
<1>8. UsedBefore(Len(acc) + 1)' = {c \in Components \ zero : c < i + 1}
  <2>1. \A e : e \in UsedBefore(Len(acc) + 1)' <=> \E h \in 1..n + 1 : e = acc'[h]
    <3>1. Len(acc') + 1 - 1 = n + 1
      BY <1>5
    <3> QED
      BY <3>1 DEF UsedBefore
  <2>2. \A e : e \in UsedBefore(n + 1) <=> \E h \in 1..n : e = acc[h]
    BY DEF UsedBefore
  <2>3. \A h \in 1..n + 1 : h \in 1..n \/ h = n + 1
    OBVIOUS
  <2>4. ASSUME NEW e \in UsedBefore(Len(acc) + 1)'
        PROVE  e \in UsedBefore(n + 1) \/ e = i
    BY <1>5, <2>1, <2>2, <2>3
  <2>5. ASSUME NEW e, e \in UsedBefore(n + 1) \/ e = i
        PROVE  e \in UsedBefore(Len(acc) + 1)'
    BY <1>5, <2>1, <2>2, <2>5
  <2>6. \A c \in Components : c < i + 1 <=> c < i \/ c = i
    BY <1>2 DEF Components
  <2> QED
    BY <1>1, <1>7, <2>4, <2>5, <2>6
<1>9. InOrder'
  <2> SUFFICES ASSUME NEW m \in 1..n + 1
               PROVE  /\ acc'[m] \in Components \ zero
                      /\ UsedBefore(m)' = {c \in Components \ zero : c < acc'[m]}
    BY <1>1, <1>5 DEF InOrder
  <2>1. CASE m = n + 1
    BY <1>1, <1>5, <1>6, <1>7, <2>1
  <2>2. CASE m # n + 1
    <3>1. m \in 1..n
      BY <2>2
    <3> QED
      BY <1>5, <1>6, <3>1 DEF PInv, ComputesRotation
  <2> QED
    BY <2>1, <2>2
<1>10. Progress' /\ ComputesRotation'
  <2>1. Start' = i + 1 /\ First <= i + 1
    BY <1>1, <1>2 DEF Start
  <2> QED
    BY <1>1, <1>8, <1>9, <2>1 DEF Progress, ComputesRotation, InOrder
<1>11. Ready' /\ LazyKey'
  BY <1>1 DEF PInv, Ready, Rotating, LazyKey, Whole
<1>12. Typed' /\ Fresh'
  BY <1>1, <1>2, <1>5 DEF PInv, Typed, Fresh
<1>13. InTasks' /\ Expanding'
  BY <1>1 DEF InTasks, Expanding
<1> QED
  BY <1>10, <1>11, <1>12, <1>13 DEF PInv

LEMMA ReturnProgress ==
  ASSUME PInv, Return
  PROVE  PInv'
<1>1. /\ pc = "rotate" /\ pc' = "idle" /\ tasks = {} /\ tasks' = tasks /\ variant' = variant
      /\ acc' = acc /\ zero' = zero /\ firstZero' = firstZero /\ calls' = calls /\ rows' = rows
      /\ initialized' = initialized /\ i = N /\ i' = i /\ N \in Nat \ {0}
  BY ExpansionAssumption DEF PInv, Typed, InTasks, Return, fixed, input
<1>2. InOrder' /\ \A n : UsedBefore(n)' = UsedBefore(n)
  BY <1>1, OrderKept DEF PInv, ComputesRotation, InOrder
<1>3. UsedBefore(Len(acc) + 1)' = UsedBefore(Len(acc) + 1) /\ Start = N
  BY <1>1 DEF UsedBefore, Start
<1>4. \A c \in Components : c < N
  BY <1>1 DEF Components
<1>5. ComputesRotation'
  BY <1>1, <1>2, <1>3, <1>4 DEF PInv, Progress, ComputesRotation, InOrder
<1>6. Typed' /\ Fresh' /\ LazyKey'
  BY <1>1 DEF PInv, Typed, Fresh, LazyKey, Whole
<1>7. InTasks' /\ Expanding' /\ Ready' /\ Progress'
  BY <1>1 DEF InTasks, Expanding, Ready, Rotating, Progress
<1> QED
  BY <1>5, <1>6, <1>7 DEF PInv

(***************************************************************************)
(* The tasks.                                                              *)
(***************************************************************************)
\* A component is written by one task only, so "lazyMT" adds it to an empty row.
LEMMA PrepareProgress ==
  ASSUME IInv, PInv, NEW t \in tasks, Prepare(t)
  PROVE  PInv'
<1>1. PICK w \in t.work :
        /\ rows' = [rows EXCEPT ![Row(w[1])][w[2]] = Append(IF Clears THEN <<>> ELSE @, w[1])]
        /\ tasks' = (tasks \ {t}) \cup {[t EXCEPT !.work = @ \ {w}]}
  BY DEF Prepare
<1> DEFINE r == Row(w[1])
           l == w[2]
           rest == [t EXCEPT !.work = @ \ {w}]
<1>2. /\ variant' = variant /\ acc' = acc /\ zero' = zero /\ firstZero' = firstZero
      /\ calls' = calls /\ initialized' = initialized /\ i' = i /\ pc' = pc
      /\ (Shared' <=> Shared) /\ First' = First /\ (Clears => variant # "lazyMT")
      /\ N \in Nat \ {0} /\ i \in Nat /\ pc # "idle"
      /\ pc = IF Shared THEN "product" ELSE "expand"
  BY ExpansionAssumption DEF PInv, Typed, InTasks, Prepare, fixed, input, Shared, First, Clears
<1>3. /\ w \in Components \X Levels /\ w[1] \in Components /\ l \in Levels /\ w = <<w[1], l>>
      /\ r \in Components /\ (Shared => r = 0 /\ w[1] = i) /\ (~Shared => r = w[1] /\ w[1] < i)
  <2>1. w \in Components \X Levels
    BY DEF PInv, Typed
  <2>2. IF Shared THEN w[1] = i ELSE w[1] < i
    BY DEF PInv, InTasks
  <2>3. 0 \in Components
    BY <1>2 DEF Components
  <2> QED
    BY <2>1, <2>2, <2>3 DEF Row
<1>4. rows[r] \in [Levels -> Seq(Components)] /\ rows[r][l] \in Seq(Components)
  BY <1>3 DEF PInv, Typed
<1>5. (IF Clears THEN <<>> ELSE rows[r][l]) = <<>>
  <2>1. CASE Clears
    BY <2>1
  <2>2. CASE ~Clears
    <3>1. variant = "lazyMT" /\ ~Shared
      BY <2>2 DEF Clears, Shared
    <3>2. Pending(w[1], l)
      BY <1>3 DEF Pending
    <3>3. rows[w[1]][l] = <<>>
      BY <1>2, <1>3, <3>1, <3>2 DEF PInv, Expanding
    <3> QED
      BY <1>3, <2>2, <3>1, <3>3
  <2> QED
    BY <2>1, <2>2
<1>6. /\ rows' \in [Components -> [Levels -> Seq(Components)]]
      /\ rows'[r][l] = <<w[1]>>
      /\ \A c \in Components : \A m \in Levels : c # r \/ m # l => rows'[c][m] = rows[c][m]
  <2>1. rows \in [Components -> [Levels -> Seq(Components)]]
    BY DEF PInv, Typed
  <2>2. rows' = [rows EXCEPT ![r][l] = Append(IF Clears THEN <<>> ELSE @, w[1])]
    BY <1>1
  <2>3. <<w[1]>> \in Seq(Components) /\ Append(<<>>, w[1]) = <<w[1]>>
    BY <1>3
  <2> HIDE DEF r, l
  <2>4. rows' = [rows EXCEPT ![r] = [rows[r] EXCEPT ![l] = <<w[1]>>]]
    BY <1>5, <2>2, <2>3
  <2> QED
    BY <1>3, <1>4, <2>1, <2>3, <2>4
<1>7. /\ rest.work = t.work \ {w} /\ tasks' = (tasks \ {t}) \cup {rest} /\ tasks # {}
  BY <1>1
<1>8. ASSUME NEW u \in tasks'
      PROVE  \E v \in tasks : u.work \subseteq v.work
  BY <1>7
<1>9. \A c, m : Pending(c, m)' => Pending(c, m)
  BY <1>8 DEF Pending
<1>10. \A c, m : <<c, m>> # w /\ Pending(c, m) => Pending(c, m)'
  <2> SUFFICES ASSUME NEW c, NEW m, <<c, m>> # w, NEW u \in tasks, <<c, m>> \in u.work
               PROVE  \E v \in tasks' : <<c, m>> \in v.work
    BY DEF Pending
  <2>1. CASE u = t
    BY <1>7, <2>1
  <2>2. CASE u # t
    BY <1>7, <2>2
  <2> QED
    BY <2>1, <2>2
<1>11. ~Pending(w[1], l)'
  <2> SUFFICES ASSUME NEW u \in tasks', <<w[1], l>> \in u.work
               PROVE  FALSE
    BY DEF Pending
  <2>1. u # rest
    BY <1>3, <1>7
  <2>2. u \in tasks /\ u # t
    BY <1>7, <2>1
  <2>3. RowsOf(u) \cap RowsOf(t) = {}
    BY <2>2 DEF IInv, ChunksDisjoint
  <2>4. w \in u.work
    BY <1>3
  <2>5. <<Row(w[1]), w[2]>> \in RowsOf(u) /\ <<Row(w[1]), w[2]>> \in RowsOf(t)
    BY <2>4 DEF RowsOf
  <2> QED
    BY <2>3, <2>5
<1> HIDE DEF rest, r, l
<1>12. Expanding'
  <2> SUFFICES ASSUME pc = "expand", NEW c \in Components, NEW m \in Levels
               PROVE  /\ First <= c /\ c < i /\ Needed(c) => Pending(c, m)' \/ rows'[c][m] = <<c>>
                      /\ variant = "lazyMT" /\ (i <= c \/ Pending(c, m)') => rows'[c][m] = <<>>
    BY <1>2 DEF Expanding, Needed
  <2>1. ~Shared /\ r = w[1]
    BY <1>2, <1>3
  <2>2. CASE c = r /\ m = l
    <3>1. ~(i <= c)
      BY <1>2, <1>3, <2>1, <2>2 DEF Components
    <3> QED
      BY <1>6, <1>11, <2>1, <2>2, <3>1
  <2>3. CASE c # r \/ m # l
    <3>1. rows'[c][m] = rows[c][m] /\ <<c, m>> # w
      BY <1>3, <1>6, <2>1, <2>3
    <3>2. /\ First <= c /\ c < i /\ Needed(c) => Pending(c, m) \/ rows[c][m] = <<c>>
          /\ variant = "lazyMT" /\ (i <= c \/ Pending(c, m)) => rows[c][m] = <<>>
      BY DEF PInv, Expanding
    <3> QED
      BY <1>9, <1>10, <3>1, <3>2
  <2> QED
    BY <2>2, <2>3
<1>13. Ready'
  <2> SUFFICES ASSUME Shared, pc = "product", NEW m \in Levels
               PROVE  Pending(i, m)' \/ rows'[0][m] = <<i>>
    BY <1>2 DEF Ready, Rotating
  <2>1. Pending(i, m) \/ rows[0][m] = <<i>>
    BY DEF PInv, Ready
  <2>2. CASE m = l
    BY <1>3, <1>6, <2>2
  <2>3. CASE m # l
    <3>1. <<i, m>> # w /\ rows'[0][m] = rows[0][m]
      BY <1>3, <1>6, <2>3
    <3> QED
      BY <1>2, <1>10, <2>1, <3>1
  <2> QED
    BY <2>2, <2>3
<1>14. LazyKey'
  <2>1. variant = "lazy" => ~initialized
    BY <1>2 DEF PInv, LazyKey, Shared
  <2> QED
    BY <1>2, <2>1 DEF PInv, LazyKey
<1>15. Progress' /\ ComputesRotation'
  <2>1. InOrder' /\ \A n : UsedBefore(n)' = UsedBefore(n)
    BY <1>2, OrderKept DEF PInv, ComputesRotation, InOrder
  <2>2. UsedBefore(Len(acc) + 1)' = UsedBefore(Len(acc) + 1) /\ Start' = Start
    BY <1>2 DEF UsedBefore, Start
  <2> QED
    BY <1>2, <2>1, <2>2 DEF PInv, Progress, ComputesRotation, InOrder
<1>16. Typed'
  BY <1>2, <1>6, <1>8 DEF PInv, Typed
<1>17. InTasks'
  BY <1>2, <1>7, <1>8 DEF PInv, InTasks
<1>18. Fresh'
  BY <1>2 DEF PInv, Fresh
<1> QED
  BY <1>12, <1>13, <1>14, <1>15, <1>16, <1>17, <1>18 DEF PInv

LEMMA EndProgress ==
  ASSUME PInv, NEW t \in tasks, EndTask(t)
  PROVE  PInv'
<1>1. /\ variant' = variant /\ acc' = acc /\ zero' = zero /\ firstZero' = firstZero
      /\ calls' = calls /\ initialized' = initialized /\ i' = i /\ pc' = pc /\ rows' = rows
      /\ (Shared' <=> Shared) /\ First' = First /\ t.work = {} /\ tasks' = tasks \ {t}
  BY DEF EndTask, fixed, input, Shared, First
<1>2. \A c, m : Pending(c, m)' <=> Pending(c, m)
  BY <1>1 DEF Pending
<1>3. Progress' /\ ComputesRotation'
  <2>1. InOrder' /\ \A n : UsedBefore(n)' = UsedBefore(n)
    BY <1>1, OrderKept DEF PInv, ComputesRotation, InOrder
  <2>2. UsedBefore(Len(acc) + 1)' = UsedBefore(Len(acc) + 1) /\ Start' = Start
    BY <1>1 DEF UsedBefore, Start
  <2> QED
    BY <1>1, <2>1, <2>2 DEF PInv, Progress, ComputesRotation, InOrder
<1>4. Typed' /\ InTasks' /\ Fresh'
  BY <1>1 DEF PInv, Typed, InTasks, Fresh
<1>5. Expanding' /\ Ready' /\ LazyKey'
  BY <1>1, <1>2 DEF PInv, Expanding, Needed, Ready, Rotating, LazyKey, Whole
<1> QED
  BY <1>3, <1>4, <1>5 DEF PInv

LEMMA UnchangedProgress ==
  ASSUME PInv, UNCHANGED vars
  PROVE  PInv'
BY DEF PInv, vars, fixed, input, Typed, Fresh, InTasks, Expanding, Ready, LazyKey, Progress, ComputesRotation,
  UsedBefore, Start, First, Shared, Needed, Rotating, Whole, Pending

LEMMA NextProgress == ASSUME Limits PROVE IInv /\ PInv /\ [Next]_vars => PInv'
BY CallProgress, BatchProgress, ExpandedProgress, SkipProgress, SwitchProgress, ProductProgress,
  ReturnProgress, PrepareProgress, EndProgress, UnchangedProgress DEF Next

\* The chunks of preRotateTernary and switchSchemeInBatchBinary never overlap,
\* whatever n, level, batchSize and tasksPerThread, over any number of rotations.
THEOREM NoRowWrittenTwice == Spec => []ChunksDisjoint
<1>1. IInv => ChunksDisjoint
  BY DEF IInv
<1> QED
  BY <1>1, InitInductive, NextInductive, PTL DEF Spec

\* A rotation multiplies by the components with nonzero rotation, each expanded
\* once, in order, and by all of them when it returns, over any number of
\* rotations, when the caller uses the key of "lazyMT" once, and that of "lazy"
\* once or for inputs that need no component the first did not.
THEOREM RotationIsComputed == ASSUME Limits PROVE Spec => []ComputesRotation
<1>1. PInv => ComputesRotation
  BY DEF PInv
<1> QED
  BY <1>1, InitInductive, NextInductive, InitProgress, NextProgress, PTL DEF Spec

=============================================================================
