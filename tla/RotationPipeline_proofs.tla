---------------------- MODULE RotationPipeline_proofs ----------------------
(***************************************************************************)
(* The stages of the pipelined rotations never race, and what they compute *)
(* is the sequential rotation, for any number of key components and gadget *)
(* levels, and any width of the sweep.                                     *)
(***************************************************************************)
EXTENDS RotationPipeline, FiniteSetTheorems, TLAPS

(***************************************************************************)
(* The inductive invariant: a task is outstanding once, since a stage is   *)
(* fired only when the last run of it has been joined; and a component is  *)
(* read ahead of the one that stageA prepares.                             *)
(***************************************************************************)
Control ==
  /\ variant \in Variants
  /\ i \in Nat /\ next \in {0, 1} /\ keyIndex \in Nat

AheadOfKey ==
  /\ readAhead => variant = "altInit" /\ readIndex = keyIndex + 1
  /\ pc = "start" => keyIndex = First

Once ==
  /\ pending \subseteq RunA \cup RunB
  /\ \A r \in running : r.task \in RunA \cup RunB /\ r.task \notin pending
  /\ \A r, s \in running : r.task = s.task => r = s

Quiet ==
  /\ pc \in {"start", "fire"} => Joined
  /\ pc = "refire" =>
       /\ \A t \in pending : t[1] = FiredFirst
       /\ \A r \in running : r.task[1] = FiredFirst

IInv == Control /\ AheadOfKey /\ Once /\ Quiet

(***************************************************************************)
(* The tasks of one run of stageA write levels of their own.               *)
(***************************************************************************)
LEMMA StrideApart ==
  ASSUME NEW u \in Nat, NEW v \in Nat, NEW s \in Nat, NEW k \in Nat, NEW l \in Nat,
         u < s, v < s, k < l
  PROVE  u + k * s # v + l * s
<1>1. PICK d \in Nat : l = k + 1 + d
  <2>1. l - k - 1 \in Nat /\ l = k + 1 + (l - k - 1)
    OBVIOUS
  <2> QED
    BY <2>1
<1>2. l * s = k * s + s + d * s
  BY <1>1
<1>3. d * s \in Nat /\ k * s \in Nat
  BY SMT
<1> QED
  BY <1>2, <1>3

LEMMA UnitsFit ==
  ASSUME variant \in Variants
  PROVE  /\ Units \in Nat /\ Stride \in Nat
         /\ Units = 1 \/ Units <= Stride
<1> USE PipelineAssumption
<1>1. CASE variant = "sweep"
  BY <1>1 DEF Units, Stride
<1>2. CASE variant = "noFirst"
  <2>1. Level \in {1, 3, 4}
    BY <1>2
  <2> QED
    BY <1>2, <2>1 DEF Units, Stride
<1>3. CASE variant = "altInit"
  BY <1>3 DEF Units, Stride
<1>4. CASE variant \in {"pipe", "pipeInit"}
  BY <1>4 DEF Units, Stride
<1> QED
  BY <1>1, <1>2, <1>3, <1>4

LEMMA LevelsApart ==
  ASSUME variant \in Variants, NEW t \in RunA, NEW s \in RunA, t # s
  PROVE  LevelsOf(t) \cap LevelsOf(s) = {}
<1>1. PICK u \in 0..Units - 1 : t = A(u)
  BY DEF RunA
<1>2. PICK v \in 0..Units - 1 : s = A(v)
  BY DEF RunA
<1>3. Units \in Nat /\ Stride \in Nat /\ (Units = 1 \/ Units <= Stride)
  BY UnitsFit
<1>4. u \in Nat /\ v \in Nat /\ u # v /\ u < Stride /\ v < Stride
  BY <1>1, <1>2, <1>3
<1>5. /\ LevelsOf(t) \subseteq {u + k * Stride : k \in Levels}
      /\ LevelsOf(s) \subseteq {v + k * Stride : k \in Levels}
  BY <1>1, <1>2 DEF LevelsOf, A
<1>6. ASSUME NEW l \in LevelsOf(t), l \in LevelsOf(s) PROVE FALSE
  <2>1. PICK k \in Levels : l = u + k * Stride
    BY <1>5, <1>6
  <2>2. PICK m \in Levels : l = v + m * Stride
    BY <1>5, <1>6
  <2>3. k \in Nat /\ m \in Nat
    BY PipelineAssumption DEF Levels
  <2>4. CASE k < m
    BY <1>3, <1>4, <2>1, <2>2, <2>3, <2>4, StrideApart
  <2>5. CASE m < k
    BY <1>3, <1>4, <2>1, <2>2, <2>3, <2>5, StrideApart
  <2>6. CASE k = m
    <3>1. k * Stride \in Nat
      BY <1>3, <2>3, SMT
    <3> QED
      BY <1>4, <2>1, <2>2, <2>6, <3>1
  <2> QED
    BY <2>3, <2>4, <2>5, <2>6
<1> QED
  BY <1>6

(***************************************************************************)
(* No races, in every state of the invariant.                              *)
(***************************************************************************)
LEMMA RunsDiffer ==
  /\ \A t \in RunA : t[1] = "A"
  /\ \A t \in RunB : t[1] = "B"
BY DEF RunA, RunB, A, B

LEMMA AApart ==
  ASSUME IInv, NEW t \in RunA, NEW q \in RunA, t # q
  PROVE  Writes(t) \cap (Writes(q) \cup Reads(q)) = {}
<1>1. variant \in Variants /\ keyIndex \in Nat /\ t[1] = "A" /\ q[1] = "A"
  BY DEF IInv, Control, RunA, A
<1>2. LevelsOf(t) \cap LevelsOf(q) = {}
  BY <1>1, LevelsApart
<1>3. variant # "pipeInit"
  BY DEF RunA, Units, A
<1>4. /\ FromFile(t) # {} => t = A(0) /\ FromFile(t) = {readIndex} /\ readIndex # keyIndex
      /\ FromFile(q) # {} => q = A(0)
  BY <1>1, <1>3 DEF FromFile, IInv, AheadOfKey
<1>5. FromFile(t) = {} \/ FromFile(q) = {}
  BY <1>4
<1> SUFFICES ASSUME NEW w \in Writes(t), w \in Writes(q) \cup Reads(q) PROVE FALSE
  OBVIOUS
<1>6. CASE w[1] \in {"decomp", "holders"}
  <2>1. \E l \in LevelsOf(t) : w = <<"decomp", next, l>> \/ w = <<"holders", l>>
    BY <1>1, <1>6 DEF Writes
  <2>2. \E l \in LevelsOf(q) : w = <<"decomp", next, l>> \/ w = <<"holders", l>>
    BY <1>1, <1>6 DEF Writes, Reads
  <2> QED
    BY <1>2, <2>1, <2>2
<1>7. CASE w[1] \notin {"decomp", "holders"}
  <2>1. FromFile(t) # {} /\ w \in {<<"bskPrime", readIndex>>, <<"pos">>}
    BY <1>1, <1>4, <1>7 DEF Writes
  <2>2. FromFile(q) = {}
    BY <1>5, <2>1
  <2>3. w = <<"bskPrime", keyIndex>>
    BY <1>1, <1>7, <2>2 DEF Writes, Reads
  <2> QED
    BY <1>4, <2>1, <2>3
<1> QED
  BY <1>6, <1>7

LEMMA NoRacesHold == IInv => NoRaces
<1> SUFFICES ASSUME IInv, NEW r \in running
             PROVE  /\ Writes(r.task) \cap ProductReads = {}
                    /\ \A s \in running \ {r} : Writes(r.task) \cap (Writes(s.task) \cup Reads(s.task)) = {}
  BY DEF NoRaces
<1> DEFINE t == r.task
<1>1. /\ variant \in Variants /\ next \in {0, 1} /\ keyIndex \in Nat /\ cur # next
      /\ t \in RunA \cup RunB
      /\ \A s \in running \ {r} : s.task \in RunA \cup RunB /\ s.task # t
  BY DEF IInv, Control, Once, cur
<1> HIDE DEF t
<1>2. Writes(t) \cap ProductReads = {}
  <2>1. CASE t[1] = "A"
    <3>1. \A w \in Writes(t) : w[1] \in {"decomp", "holders", "bskPrime", "pos"}
      BY <2>1 DEF Writes
    <3>2. \A w \in ProductReads : w[1] = "expanded"
      BY DEF ProductReads
    <3> QED
      BY <3>1, <3>2
  <2>2. CASE t[1] # "A"
    BY <1>1, <2>2 DEF Writes, ProductReads
  <2> QED
    BY <2>1, <2>2
<1>3. ASSUME NEW s \in running \ {r}
      PROVE  Writes(t) \cap (Writes(s.task) \cup Reads(s.task)) = {}
  <2> DEFINE q == s.task
  <2> SUFFICES Writes(t) \cap (Writes(q) \cup Reads(q)) = {}
    OBVIOUS
  <2>1. q \in RunA \cup RunB /\ q # t
    BY <1>1
  <2> HIDE DEF q
  <2>2. CASE t \in RunB /\ q \in RunB
    <3>1. t[1] = "B" /\ q[1] = "B" /\ t[2] # q[2]
      BY <2>1, <2>2 DEF RunB, B
    <3>2. /\ Writes(t) = {<<"expanded", next, t[2]>>}
          /\ Writes(q) = {<<"expanded", next, q[2]>>} /\ Reads(q) = {<<"decomp", cur, q[2]>>}
      BY <3>1 DEF Writes, Reads
    <3> QED
      BY <3>1, <3>2
  <2>3. CASE t \in RunB /\ q \in RunA
    <3>1. t[1] = "B" /\ q[1] = "A"
      BY <2>3, RunsDiffer
    <3>2. \A w \in Writes(q) \cup Reads(q) : w[1] \in {"decomp", "holders", "bskPrime", "pos"}
      BY <3>1 DEF Writes, Reads
    <3>3. \A w \in Writes(t) : w[1] = "expanded"
      BY <3>1 DEF Writes
    <3>4. ASSUME NEW w \in Writes(t), w \in Writes(q) \cup Reads(q) PROVE FALSE
      BY <3>2, <3>3, <3>4
    <3> QED
      BY <3>4
  <2>4. CASE t \in RunA /\ q \in RunB
    <3>1. t[1] = "A" /\ q[1] = "B"
      BY <2>4, RunsDiffer
    <3>2. /\ Writes(q) = {<<"expanded", next, q[2]>>}
          /\ Reads(q) = {<<"decomp", cur, q[2]>>}
      BY <3>1 DEF Writes, Reads
    <3>3. ASSUME NEW w \in Writes(t)
          PROVE  w[1] \in {"holders", "bskPrime", "pos"} \/ (w[1] = "decomp" /\ w[2] = next)
      BY <3>1 DEF Writes
    <3>4. ASSUME NEW w \in Writes(t), w \in Writes(q) \cup Reads(q) PROVE FALSE
      <4>1. w = <<"expanded", next, q[2]>> \/ w = <<"decomp", cur, q[2]>>
        BY <3>2, <3>4
      <4>2. w[1] \in {"holders", "bskPrime", "pos"} \/ (w[1] = "decomp" /\ w[2] = next)
        BY <3>3, <3>4
      <4> QED
        BY <1>1, <4>1, <4>2
    <3> QED
      BY <3>4
  <2>5. CASE t \in RunA /\ q \in RunA
    <3>1. t # q
      BY <2>1
    <3> QED
      BY <2>5, <3>1, AApart
  <2> QED
    BY <1>1, <2>1, <2>2, <2>3, <2>4, <2>5
<1> QED
  BY <1>2, <1>3 DEF t

(***************************************************************************)
(* The invariant is preserved.                                             *)
(***************************************************************************)
LEMMA InitInductive == Init => IInv
BY PipelineAssumption DEF Init, IInv, Control, AheadOfKey, Once, Quiet, Joined, First

\* Steps that change neither the rotation nor the tasks.
LEMMA QuietStep ==
  ASSUME IInv, UNCHANGED <<variant, pending, running>>,
         pc' \in {"start", "fire"} => Joined, pc' # "refire",
         Control', AheadOfKey'
  PROVE  IInv'
<1>1. Once'
  BY DEF IInv, Once, RunA, RunB, Units, Levels
<1>2. Quiet'
  BY DEF Quiet, Joined
<1> QED
  BY <1>1, <1>2 DEF IInv

LEMMA CopyIsOne == ASSUME NEW j \in Nat PROVE NextCopy(j) \in {0, 1}
<1>1. j % 2 \in 0..1
  OBVIOUS
<1> QED
  BY <1>1 DEF NextCopy

LEMMA CallerInductive ==
  ASSUME IInv, Start \/ FirstComponent \/ EnterLoop \/ Accumulate \/ EndProduct \/ Finish
  PROVE  IInv'
<1>1. CASE Start
  <2>1. Joined /\ pending' = RunA /\ running' = running /\ variant' = variant
    BY <1>1 DEF IInv, Quiet, Start, input
  <2>2. Once'
    BY <2>1 DEF Once, Joined, RunA, RunB, Units, Levels
  <2>3. Quiet'
    BY <1>1 DEF Start, Quiet
  <2>4. Control'
    BY <1>1 DEF Start, IInv, Control, input
  <2>5. AheadOfKey'
    <3>1. CASE variant = "altInit"
      <4>1. readIndex' = 2 /\ keyIndex' = keyIndex /\ variant' = variant
        BY <1>1, <3>1 DEF Start, input
      <4>2. keyIndex = 1 /\ pc' # "start"
        BY <1>1, <3>1 DEF Start, IInv, AheadOfKey, First
      <4> QED
        BY <3>1, <4>1, <4>2 DEF AheadOfKey
    <3>2. CASE variant = "pipeInit"
      BY <1>1, <3>2 DEF Start, IInv, AheadOfKey, input
    <3>3. CASE variant \notin {"altInit", "pipeInit"}
      BY <1>1, <3>3 DEF Start, IInv, AheadOfKey, input
    <3> QED
      BY <3>1, <3>2, <3>3
  <2> QED
    BY <2>2, <2>3, <2>4, <2>5 DEF IInv
<1>2. CASE FirstComponent \/ EndProduct \/ Finish
  BY <1>2, QuietStep DEF FirstComponent, EndProduct, Finish, IInv, Control, AheadOfKey, input, shared, tasks
<1>3. CASE Accumulate
  BY <1>3, QuietStep DEF Accumulate, IInv, Control, AheadOfKey, input, shared, tasks
<1>4. CASE EnterLoop
  <2>1. i' \in Nat /\ next' \in {0, 1}
    <3>1. i' \in Nat
      BY <1>4 DEF EnterLoop, IInv, Control
    <3>2. NextCopy(i') \in {0, 1}
      BY <3>1, CopyIsOne
    <3> QED
      BY <1>4, <3>1, <3>2 DEF EnterLoop
  <2>2. Joined
    BY <1>4 DEF EnterLoop
  <2> QED
    BY <1>4, <2>1, <2>2, QuietStep DEF EnterLoop, IInv, Control, AheadOfKey, input, tasks
<1> QED
  BY <1>1, <1>2, <1>3, <1>4

\* The run of a stage is fired when no task of the stage is outstanding.
LEMMA FireInductive ==
  ASSUME IInv, FireA \/ FireB
  PROVE  IInv'
<1>1. /\ variant' = variant /\ running' = running
      /\ Units' = Units /\ RunA' = RunA /\ RunB' = RunB /\ FiredFirst' = FiredFirst
  BY DEF FireA, FireB, input, RunA, RunB, Units, Levels, FiredFirst
<1>2. Control'
  BY DEF FireA, FireB, IInv, Control, input, shared, KeyAhead, First
<1>3. AheadOfKey'
  <2> pc' # "start"
    BY DEF FireA, FireB, Firing
  <2>1. CASE FireA /\ i < Last - 1 /\ variant = "altInit"
    <3>1. readIndex' = i + 3 /\ keyIndex' = i + 1 + 1
      BY <2>1 DEF FireA, ReadAheadIndex, KeyAhead, First
    <3> QED
      BY <1>1, <2>1, <3>1 DEF IInv, Control, AheadOfKey
  <2>2. CASE FireA /\ i < Last - 1 /\ variant # "altInit"
    BY <1>1, <2>2 DEF FireA, IInv, AheadOfKey
  <2>3. CASE FireB \/ ~(i < Last - 1)
    BY <1>1, <2>3 DEF FireA, FireB, IInv, AheadOfKey, shared
  <2> QED
    BY <2>1, <2>2, <2>3
<1>4. PICK stage \in {"A", "B"} :
        /\ Firing(stage)
        /\ pending' = pending \/ pending' = pending \cup (IF stage = "A" THEN RunA ELSE RunB)
  <2>1. CASE FireA
    BY <2>1 DEF FireA
  <2>2. CASE FireB
    BY <2>2 DEF FireB
  <2> QED
    BY <2>1, <2>2
<1> DEFINE run == IF stage = "A" THEN RunA ELSE RunB
<1>5. run \subseteq RunA \cup RunB /\ \A t \in run : t[1] = stage
  BY RunsDiffer
<1> HIDE DEF run
<1>6. /\ \A t \in pending : t[1] # stage
      /\ \A r \in running : r.task[1] # stage
  BY <1>4 DEF Firing, IInv, Quiet, Joined
<1>7. Once'
  BY <1>1, <1>4, <1>5, <1>6 DEF IInv, Once, run
<1>8. Quiet'
  <2>1. CASE pc = "fire"
    <3>1. stage = FiredFirst /\ pc' = "refire" /\ Joined
      BY <1>4, <2>1 DEF Firing, IInv, Quiet
    <3> QED
      BY <1>1, <1>4, <1>5, <3>1 DEF Quiet, Joined, run
  <2>2. CASE pc # "fire"
    BY <1>4, <2>2 DEF Firing, Quiet
  <2> QED
    BY <2>1, <2>2
<1> QED
  BY <1>2, <1>3, <1>7, <1>8 DEF IInv

LEMMA PoolInductive ==
  ASSUME IInv, Pool
  PROVE  IInv'
<1>1. /\ variant' = variant /\ pc' = pc
      /\ Control' /\ AheadOfKey' /\ RunA' = RunA /\ RunB' = RunB /\ FiredFirst' = FiredFirst
  BY DEF Pool, Begin, End, IInv, Control, AheadOfKey, First, input, shared, RunA, RunB, Units, Levels, FiredFirst
<1>2. CASE \E t \in pending : Begin(t)
  <2>1. PICK t \in pending : Begin(t)
    BY <1>2
  <2> DEFINE new == [task |-> t, got |-> ReadByTask(t)]
  <2>2. pending' = pending \ {t} /\ running' = running \cup {new} /\ new.task = t
    BY <2>1 DEF Begin
  <2> HIDE DEF new
  <2>3. Once'
    BY <1>1, <2>2 DEF IInv, Once
  <2>4. Quiet'
    BY <1>1, <2>1, <2>2 DEF IInv, Quiet, Joined
  <2> QED
    BY <1>1, <2>3, <2>4 DEF IInv
<1>3. CASE \E r \in running : End(r)
  <2>1. PICK r \in running : End(r)
    BY <1>3
  <2>2. pending' = pending /\ running' = running \ {r}
    BY <2>1 DEF End
  <2>3. Once'
    BY <1>1, <2>2 DEF IInv, Once
  <2>4. Quiet'
    BY <1>1, <2>1, <2>2 DEF IInv, Quiet, Joined
  <2> QED
    BY <1>1, <2>3, <2>4 DEF IInv
<1> QED
  BY <1>2, <1>3 DEF Pool

LEMMA NextInductive == IInv /\ [Next]_vars => IInv'
<1> SUFFICES ASSUME IInv, [Next]_vars PROVE IInv'
  OBVIOUS
<1>1. CASE Caller
  BY <1>1, CallerInductive, FireInductive DEF Caller
<1>2. CASE Pool
  BY <1>2, PoolInductive
<1>3. CASE UNCHANGED vars
  BY <1>3 DEF vars, input, shared, tasks, IInv, Control, AheadOfKey, First, Once, Quiet, Joined,
    RunA, RunB, Units, Levels, FiredFirst
<1> QED
  BY <1>1, <1>2, <1>3 DEF Next

\* The stages of a pipelined rotation and the caller's external product never touch
\* the same buffer at once: the copies alternate in step, slots write levels of
\* their own, and the component read ahead is not the one being prepared.
THEOREM StagesNeverRace == Spec => []NoRaces
BY InitInductive, NextInductive, NoRacesHold, PTL DEF Spec

(***************************************************************************)
(* The pipeline implements the sequential rotation.  The invariant follows *)
(* a component through the buffers: in iteration i stageA prepares the     *)
(* component keyIndex in copy next, stageB expands component i + First     *)
(* from the other copy, and the caller uses component i + First - 1; a     *)
(* level of copy next is in place or a task that covers it is outstanding. *)
(***************************************************************************)
Looping == pc \notin {"start", "first", "prewait"}

Fired(stage) ==
  pc \in {"accumulate", "product", "wait", "done"} \/ (pc = "refire" /\ stage = FiredFirst)
OnA == pc \in {"first", "prewait"} \/ (Fired("A") /\ i < Last - 1)
OnB == Fired("B") /\ i < Last
Busy(t) == t \in pending \/ \E r \in running : r.task = t

Place ==
  /\ pc \in {"start", "first", "prewait", "fire", "refire", "accumulate", "product", "wait", "done"}
  /\ i \in 0..Last
  /\ ~Looping => i = 0 /\ next = 0
  /\ Looping => next = NextCopy(i)
  /\ keyIndex = IF Fired("A") /\ i < Last - 1 THEN i + 1 + First
                ELSE IF i < Last THEN i + First ELSE N - 1
  /\ pc = "first" => variant \in {"altInit", "pipe", "pipeInit"}
  /\ pc = "product" => i > 0
  /\ pc = "done" => i = Last

Owned ==
  /\ \A t \in pending : (t[1] = "A" => OnA) /\ (t[1] = "B" => OnB)
  /\ \A r \in running :
       /\ r.task[1] = "A" => OnA /\ r.got = keyIndex
       /\ r.task[1] = "B" => OnB /\ r.got = i + First

Prepared ==
  /\ DOMAIN decomp = {0, 1}
  /\ OnA => \A l \in Levels :
       decomp[next][l] = keyIndex \/ \E t \in RunA : Busy(t) /\ l \in LevelsOf(t)
  /\ Looping /\ i < Last => \A l \in Levels : decomp[cur][l] = i + First

Expanded ==
  /\ DOMAIN expanded = {0, 1}
  /\ OnB => \A l \in Levels : expanded[next][l] = i + First \/ Busy(B(l))
  /\ Looping /\ i > 0 => \A l \in Levels : expanded[cur][l] = i + First - 1

(* The key components in memory, and the place in the file.                *)
InMemory ==
  /\ ~Streaming => \A c \in Components : bskPrime[c] = c
  /\ pc # "start" => bskPrime[0] = 0
  /\ variant = "pipeInit" /\ pc # "start" =>
       pos = IF Busy(A(0)) THEN keyIndex ELSE keyIndex + 1
  /\ variant = "altInit" /\ pc # "start" =>
       /\ readAhead <=> keyIndex < N - 1
       /\ pos = IF readAhead /\ ~Busy(A(0)) THEN keyIndex + 2 ELSE keyIndex + 1
       /\ \A c \in Components : c < pos => bskPrime[c] = c

(* The components below Reached have been used.                            *)
Reached ==
  IF ~Looping \/ (i = 0 /\ pc # "wait")
  THEN IF variant = "sweep" \/ pc \in {"start", "first"} THEN 0 ELSE First
  ELSE IF pc \in {"wait", "done"} THEN i + First ELSE i + First - 1

Product ==
  /\ zero \subseteq Components
  /\ acc \in Seq(Components) /\ Sequential!Used = Sequential!Before(Reached)
  /\ pc = "product" => reading = {Consumed} /\ Consumed \notin zero

JInv == Place /\ Owned /\ Prepared /\ Expanded /\ InMemory /\ Product

LEMMA Sizes ==
  ASSUME variant \in Variants
  PROVE  /\ First \in {0, 1} /\ Last \in Nat /\ Last >= 2 /\ Last + First = N
         /\ N \in Nat /\ N >= 3 /\ Level \in Nat /\ Level >= 1
         /\ First = 0 <=> variant = "noFirst"
         /\ Unset \notin Components
  BY PipelineAssumption DEF First, Last, Components

LEMMA Steady ==
  ASSUME variant' = variant
  PROVE  /\ First' = First /\ Last' = Last /\ RunA' = RunA /\ RunB' = RunB
         /\ FiredFirst' = FiredFirst /\ Streaming' = Streaming
         /\ Levels' = Levels /\ Components' = Components
         /\ \A t : LevelsOf(t)' = LevelsOf(t)
  BY DEF First, Last, RunA, RunB, Units, Levels, Components, FiredFirst, Streaming, LevelsOf, Stride

LEMMA Turn ==
  ASSUME NEW j \in Nat
  PROVE  NextCopy(j) \in {0, 1} /\ NextCopy(j + 1) = 1 - NextCopy(j)
<1>1. (j % 2 = 0 /\ (j + 1) % 2 = 1) \/ (j % 2 = 1 /\ (j + 1) % 2 = 0)
  OBVIOUS
<1> QED
  BY <1>1 DEF NextCopy

LEMMA MultipleGrows ==
  ASSUME NEW q \in Nat, NEW s \in Nat, s >= 1
  PROVE  q <= q * s
<1>1. PICK d \in Nat : s = d + 1
  <2>1. s - 1 \in Nat /\ s = (s - 1) + 1
    OBVIOUS
  <2> QED
    BY <2>1
<1>2. q * s = q * d + q
  BY <1>1
<1>3. q * d \in Nat
  BY SMT
<1> QED
  BY <1>2, <1>3

\* Each level is prepared by some task of a run of stageA.
LEMMA LevelsCovered ==
  ASSUME variant \in Variants, NEW l \in Levels
  PROVE  \E t \in RunA : l \in LevelsOf(t)
<1> SUFFICES ASSUME NEW u \in 0..Units - 1, NEW k \in Levels, l = u + k * Stride
             PROVE  A(u) \in RunA /\ l \in LevelsOf(A(u))
  <2> SUFFICES \E u \in 0..Units - 1, k \in Levels : l = u + k * Stride
    OBVIOUS
  <2> USE PipelineAssumption DEF Levels, Units, Stride
  <2>1. CASE variant = "sweep"
    <3> DEFINE s == SweepUnits
    <3>1. s \in Nat /\ s >= 1 /\ l \in Nat
      OBVIOUS
    <3>2. Units = s /\ Stride = s
      BY <2>1
    <3> HIDE DEF s
    <3>3. l = (l % s) + (l \div s) * s /\ l % s \in 0..s - 1 /\ l \div s \in Nat
      BY <3>1
    <3>4. l \div s <= (l \div s) * s
      BY <3>1, <3>3, MultipleGrows
    <3>5. l \div s <= l
      BY <3>1, <3>3, <3>4
    <3>6. l \div s \in 0..Level - 1
      BY <3>1, <3>3, <3>5
    <3> QED
      BY <3>2, <3>3, <3>6
  <2>2. CASE variant = "noFirst"
    <3>1. Level \in {1, 3, 4}
      BY <2>2
    <3>2. Units = (Level + 1) \div 2 /\ Stride = 2
      BY <2>2
    <3>3. l \in Nat /\ l < Level
      OBVIOUS
    <3>4. l = (l % 2) + (l \div 2) * 2 /\ l % 2 \in 0..1 /\ l \div 2 \in Nat /\ l \div 2 <= l
      BY <3>3
    <3>5. l % 2 \in 0..Units - 1
      <4>1. Level = 1 => Units = 1 /\ l % 2 = 0
        BY <3>2, <3>3
      <4>2. Level \in {3, 4} => Units = 2
        BY <3>2
      <4> HIDE DEF Units
      <4> QED
        BY <3>1, <3>4, <4>1, <4>2
    <3> QED
      BY <3>2, <3>3, <3>4, <3>5
  <2>3. CASE variant = "altInit"
    <3>1. Units = Level /\ Stride = Level /\ 0 \in Levels /\ l \in 0..Level - 1
      BY <2>3
    <3>2. l = l + 0 * Level
      OBVIOUS
    <3> QED
      BY <3>1, <3>2
  <2>4. CASE variant \in {"pipe", "pipeInit"}
    <3>1. Units = 1 /\ Stride = 1 /\ l \in Nat
      BY <2>4
    <3>2. l = 0 + l * 1 /\ 0 \in 0..Units - 1
      BY <3>1
    <3> QED
      BY <3>1, <3>2
  <2> QED
    BY <2>1, <2>2, <2>3, <2>4
<1> QED
  BY DEF RunA, A, LevelsOf, Levels

-----------------------------------------------------------------------------
LEMMA InitPlaced == Init => JInv
<1> SUFFICES ASSUME Init PROVE JInv
  OBVIOUS
<1>1. variant \in Variants
  BY DEF Init
<1>2. Place
  BY <1>1, Sizes DEF Init, Place, Looping, Fired
<1>3. Owned
  BY DEF Init, Owned
<1>4. Prepared /\ Expanded
  BY DEF Init, Prepared, Expanded, OnA, OnB, Looping, Fired, Empty
<1>5. InMemory
  BY DEF Init, InMemory, Components
<1>6. Product
  <2>1. Reached = 0
    BY DEF Init, Reached, Looping
  <2>2. Sequential!Before(0) = {} /\ acc = <<>>
    BY DEF Init, Sequential!Before
  <2> QED
    BY <2>1, <2>2 DEF Product, Sequential!Used, Init
<1> QED
  BY <1>2, <1>3, <1>4, <1>5, <1>6 DEF JInv

\* A step of the caller that changes neither buffers nor tasks.
LEMMA CallerFrame ==
  ASSUME JInv, UNCHANGED <<input, i, shared, tasks, buffers>>,
         OnA' = OnA, OnB' = OnB, Looping' = Looping, pc # "start", pc' # "start"
  PROVE  Owned' /\ Prepared' /\ Expanded' /\ InMemory'
<1> USE Steady DEF JInv, input, shared, tasks, buffers
<1>1. Owned'
  BY DEF Owned
<1>2. \A t : Busy(t)' = Busy(t)
  BY DEF Busy
<1>3. Prepared'
  BY <1>2 DEF Prepared, cur
<1>4. Expanded'
  BY <1>2 DEF Expanded, cur
<1>5. InMemory'
  BY <1>2 DEF InMemory
<1> QED
  BY <1>1, <1>3, <1>4, <1>5

\* The accumulator takes the next component, or the component is skipped.
LEMMA UsedGrows ==
  ASSUME NEW c \in Components, zero \subseteq Components, zero' = zero,
         acc \in Seq(Components), Sequential!Used = Sequential!Before(c)
  PROVE  /\ c \notin zero /\ acc' = Append(acc, c) =>
              /\ Sequential!Next
              /\ acc' \in Seq(Components) /\ Sequential!Used' = Sequential!Before(c + 1)'
         /\ c \in zero /\ acc' = acc =>
              Sequential!Used' = Sequential!Before(c + 1)'
<1> USE PipelineAssumption
<1>1. c \in Nat
  BY DEF Components
<1>2. Sequential!Before(c + 1)' = Sequential!Before(c) \cup ({c} \ zero)
  BY <1>1 DEF Sequential!Before
<1>3. ASSUME c \notin zero, acc' = Append(acc, c)
      PROVE  /\ Sequential!Next
             /\ acc' \in Seq(Components) /\ Sequential!Used' = Sequential!Before(c + 1)'
  <2>1. Sequential!Next
    BY <1>3 DEF Sequential!Next, Sequential!Accumulate, Sequential!Due, Sequential!Components, Components
  <2>2. acc' \in Seq(Components)
    BY <1>3
  <2>3. Sequential!Used' = Sequential!Used \cup {c}
    <3>1. /\ Len(acc) \in Nat /\ DOMAIN acc = 1..Len(acc) /\ DOMAIN acc' = 1..Len(acc) + 1
          /\ \A j \in 1..Len(acc) : acc'[j] = acc[j]
          /\ acc'[Len(acc) + 1] = c
      BY <1>3
    <3> QED
      BY <3>1 DEF Sequential!Used
  <2> QED
    BY <1>2, <1>3, <2>1, <2>2, <2>3
<1>4. ASSUME c \in zero, acc' = acc PROVE Sequential!Used' = Sequential!Before(c + 1)'
  BY <1>2, <1>4 DEF Sequential!Used
<1> QED
  BY <1>3, <1>4

LEMMA StartPlaced ==
  ASSUME IInv, JInv, Start
  PROVE  JInv' /\ UNCHANGED <<zero, acc>>
<1> USE DEF JInv
<1>1. /\ variant \in Variants /\ variant' = variant /\ zero' = zero /\ acc' = acc /\ i' = i /\ next' = next
      /\ pc = "start" /\ pc' \in {"first", "prewait"} /\ Joined
      /\ pc' = "first" <=> variant \in {"altInit", "pipe", "pipeInit"}
      /\ pending' = RunA /\ running' = running /\ running = {}
      /\ keyIndex' = keyIndex /\ decomp' = decomp /\ expanded' = expanded
  BY PipelineAssumption DEF Start, input, IInv, Control, Quiet, Joined
<1>2. ~Looping /\ ~Looping' /\ ~Fired("A") /\ ~Fired("A")' /\ ~Fired("B")'
  BY <1>1 DEF Looping, Fired
<1>3. i = 0 /\ keyIndex = First /\ Last >= 2 /\ Last \in Nat /\ First \in {0, 1} /\ N >= 3
  BY <1>1, <1>2, Sizes DEF Place
<1>4. Place'
  BY <1>1, <1>2, <1>3, Steady DEF Place
<1>5. Owned'
  BY <1>1, RunsDiffer DEF Owned, OnA
<1>6. Prepared' /\ Expanded'
  <2>1. ASSUME NEW l \in Levels PROVE \E t \in RunA : Busy(t)' /\ l \in LevelsOf(t)
    BY <1>1, <2>1, LevelsCovered DEF Busy
  <2>2. Prepared'
    BY <1>1, <1>2, <2>1, Steady DEF Prepared
  <2>3. Expanded'
    BY <1>1, <1>2, Steady DEF Expanded, OnB
  <2> QED
    BY <2>2, <2>3
<1>7. InMemory'
  <2>1. A(0) \in RunA
    BY <1>1, PipelineAssumption DEF RunA, Units
  <2>2. Busy(A(0))'
    BY <1>1, <2>1 DEF Busy
  <2>3. CASE variant = "altInit"
    <3>1. /\ bskPrime' = [c \in Components |-> IF c < 2 THEN c ELSE bskPrime[c]]
          /\ pos' = 2 /\ readAhead' = TRUE /\ keyIndex' = 1
      BY <1>1, <1>3, <2>3 DEF Start, ReadFirst, First
    <3>2. 0 \in Components /\ N \in Nat
      BY <1>3, PipelineAssumption DEF Components
    <3>3. \A c \in Components : c < 2 => bskPrime'[c] = c
      BY <3>1
    <3>4. bskPrime'[0] = 0
      BY <3>2, <3>3
    <3>5. readAhead' <=> keyIndex' < N - 1
      BY <1>3, <3>1, <3>2
    <3>6. pos' = IF readAhead' /\ ~Busy(A(0))' THEN keyIndex' + 2 ELSE keyIndex' + 1
      BY <2>2, <3>1
    <3>7. \A c \in Components' : c < pos' => bskPrime'[c] = c
      BY <1>1, <3>1, <3>3, Steady
    <3>8. Streaming' /\ variant' = "altInit"
      BY <1>1, <2>3 DEF Streaming
    <3> QED
      BY <3>4, <3>5, <3>6, <3>7, <3>8 DEF InMemory
  <2>4. CASE variant = "pipeInit"
    <3>1. /\ bskPrime' = [c \in Components |-> IF c < 1 THEN c ELSE bskPrime[c]]
          /\ pos' = 1 /\ keyIndex' = 1
      BY <1>1, <1>3, <2>4 DEF Start, ReadFirst, First
    <3>2. 0 \in Components
      BY <1>3, PipelineAssumption DEF Components
    <3>3. bskPrime'[0] = 0
      BY <3>1, <3>2
    <3> QED
      BY <1>1, <1>3, <2>2, <2>4, <3>1, <3>2, <3>3, Steady DEF InMemory, Streaming
  <2>5. CASE ~Streaming
    <3>1. bskPrime' = bskPrime
      BY <1>1, <2>5 DEF Start, Streaming
    <3>2. 0 \in Components
      BY <1>3, PipelineAssumption DEF Components
    <3> QED
      BY <1>1, <2>5, <3>1, <3>2, Steady DEF InMemory, Streaming
  <2> QED
    BY <2>3, <2>4, <2>5 DEF Streaming
<1>8. Product'
  <2>1. Reached = 0 /\ pc' # "product"
    BY <1>1 DEF Reached, Looping
  <2>2. Reached' = 0
    <3>1. CASE pc' = "first"
      BY <3>1 DEF Reached, Looping
    <3>2. CASE pc' = "prewait"
      <4>1. variant \in {"sweep", "noFirst"}
        BY <1>1, <3>2, PipelineAssumption
      <4> QED
        BY <1>1, <3>2, <4>1, Steady DEF Reached, Looping, First
    <3> QED
      BY <1>1, <3>1, <3>2
  <2>3. Sequential!Used' = Sequential!Used /\ Sequential!Before(0)' = Sequential!Before(0)
    BY <1>1 DEF Sequential!Used, Sequential!Before
  <2> QED
    BY <1>1, <2>1, <2>2, <2>3, Steady DEF Product
<1> QED
  BY <1>1, <1>4, <1>5, <1>6, <1>7, <1>8

LEMMA FirstPlaced ==
  ASSUME IInv, JInv, FirstComponent
  PROVE  JInv' /\ [Sequential!Next]_<<zero, acc>>
<1>1. /\ variant \in Variants /\ pc = "first" /\ pc' = "prewait" /\ acc' = WithFirst
      /\ UNCHANGED <<input, i, shared, tasks, buffers, reading>>
      /\ variant' = variant /\ zero' = zero /\ i' = i /\ next' = next /\ keyIndex' = keyIndex
  BY DEF FirstComponent, IInv, Control, input, shared
<1>2. OnA' = OnA /\ OnB' = OnB /\ Looping' = Looping /\ ~Looping /\ Fired("A")' = Fired("A")
  BY <1>1 DEF OnA, OnB, Looping, Fired
<1>3. Owned' /\ Prepared' /\ Expanded' /\ InMemory'
  BY <1>1, <1>2, CallerFrame
<1>4. Place'
  BY <1>1, <1>2, Steady DEF JInv, Place
<1>5. First = 1 /\ Reached = 0 /\ Reached' = 1
  BY <1>1, <1>2, Steady DEF JInv, Place, First, Reached
<1>6. 0 \in Components /\ bskPrime[0] = 0
  BY <1>1, PipelineAssumption DEF JInv, InMemory, Components
<1>7. IF 0 \in zero THEN acc' = acc ELSE acc' = Append(acc, 0)
  BY <1>1, <1>5, <1>6 DEF WithFirst
<1>8. /\ zero \subseteq Components /\ acc \in Seq(Components) /\ Sequential!Used = Sequential!Before(0)
  BY <1>5 DEF JInv, Product
<1>9. /\ acc' \in Seq(Components) /\ Sequential!Used' = Sequential!Before(1)'
      /\ Sequential!Next \/ acc' = acc
  BY <1>1, <1>6, <1>7, <1>8, UsedGrows
<1>10. Product'
  BY <1>1, <1>5, <1>8, <1>9, Steady DEF Product
<1> QED
  BY <1>1, <1>3, <1>4, <1>9, <1>10 DEF JInv

\* Nothing is outstanding when an iteration begins: the buffers change over.
LEMMA LoopPlaced ==
  ASSUME IInv, JInv, EnterLoop
  PROVE  JInv' /\ UNCHANGED <<zero, acc>>
<1> USE DEF JInv
<1>1. /\ variant \in Variants /\ variant' = variant /\ zero' = zero /\ acc' = acc
      /\ next' = NextCopy(i') /\ pc' = "fire" /\ keyIndex' = keyIndex
      /\ readAhead' = readAhead /\ pending' = pending /\ running' = running
      /\ decomp' = decomp /\ expanded' = expanded /\ bskPrime' = bskPrime /\ pos' = pos
      /\ \A t : Busy(t)' = Busy(t)
  BY DEF EnterLoop, input, tasks, buffers, IInv, Control, Busy
<1>2. /\ First \in {0, 1} /\ Last \in Nat /\ Last >= 2 /\ Last + First = N /\ N \in Nat
      /\ i \in 0..Last
  BY <1>1, Sizes DEF Place
<1>3. \/ pc = "prewait" /\ i = 0 /\ i' = 0 /\ next = 0 /\ ~Looping
      \/ pc = "wait" /\ i < Last /\ i' = i + 1 /\ next = NextCopy(i) /\ Looping
  <2>1. CASE pc = "prewait"
    <3>1. i' = 0
      BY <2>1 DEF EnterLoop
    <3>2. ~Looping
      BY <2>1 DEF Looping
    <3>3. i = 0 /\ next = 0
      BY <3>2 DEF Place
    <3> QED
      BY <2>1, <3>1, <3>2, <3>3
  <2>2. CASE pc # "prewait"
    BY <2>2 DEF EnterLoop, Place, Looping
  <2> QED
    BY <2>1, <2>2
<1>4. pending = {} /\ running = {} /\ \A t : ~Busy(t)
  BY <1>3 DEF EnterLoop, Joined, Busy
<1>5. Looping' /\ ~Fired("A")' /\ ~Fired("B")' /\ ~OnA' /\ ~OnB' /\ i' \in 0..Last
  BY <1>1, <1>2, <1>3 DEF Looping, Fired, OnA, OnB
<1>6. 1 - next' = next
  <2>1. CASE pc = "prewait"
    <3>1. NextCopy(0) = 1
      BY DEF NextCopy
    <3> QED
      BY <1>1, <1>3, <2>1, <3>1
  <2>2. CASE pc = "wait"
    <3>1. i \in Nat /\ next' = 1 - next /\ next \in {0, 1}
      BY <1>1, <1>2, <1>3, <2>2, Turn
    <3> QED
      BY <3>1
  <2> QED
    BY <1>3, <2>1, <2>2
<1>7. keyIndex = IF i' < Last THEN i' + First ELSE N - 1
  <2>1. CASE pc = "prewait"
    BY <1>2, <1>3, <2>1 DEF Place, Fired
  <2>2. CASE pc = "wait"
    BY <1>2, <1>3, <2>2 DEF Place, Fired
  <2> QED
    BY <1>3, <2>1, <2>2
<1>8. Place'
  BY <1>1, <1>5, <1>7, Steady DEF Place
<1>9. Owned'
  BY <1>1, <1>4 DEF Owned
<1>10. Prepared'
  <2>1. i' < Last => \A l \in Levels : decomp[next][l] = i' + First
    <3>1. OnA \/ ~(i' < Last)
      BY <1>2, <1>3 DEF OnA, Fired
    <3> QED
      BY <1>4, <1>7, <3>1 DEF Prepared
  <2> QED
    BY <1>1, <1>5, <1>6, <2>1, Steady DEF Prepared, cur
<1>11. Expanded'
  <2>1. i' > 0 => \A l \in Levels : expanded[next][l] = i' + First - 1
    <3>1. i' > 0 => OnB /\ i' + First - 1 = i + First
      BY <1>2, <1>3 DEF OnB, Fired
    <3> QED
      BY <1>4, <3>1 DEF Expanded
  <2> QED
    BY <1>1, <1>5, <1>6, <2>1, Steady DEF Expanded, cur
<1>12. InMemory'
  BY <1>1, <1>3, Steady DEF InMemory
<1>13. Product'
  <2>1. Reached' = Reached
    <3>1. CASE pc = "prewait"
      BY <1>1, <1>3, <1>5, <3>1, Steady DEF Reached
    <3>2. CASE pc = "wait"
      <4>1. Reached = i + First
        BY <1>3, <3>2 DEF Reached
      <4>2. Reached' = i' + First - 1
        BY <1>1, <1>2, <1>3, <1>5, <3>2, Steady DEF Reached
      <4> QED
        BY <1>2, <1>3, <3>2, <4>1, <4>2
    <3> QED
      BY <1>3, <3>1, <3>2
  <2>2. Sequential!Used' = Sequential!Used /\ Sequential!Before(Reached)' = Sequential!Before(Reached)
    BY <1>1, <2>1 DEF Sequential!Used, Sequential!Before
  <2> QED
    BY <1>1, <2>2, Steady DEF Product
<1> QED
  BY <1>1, <1>8, <1>9, <1>10, <1>11, <1>12, <1>13

\* The caller uses the component expanded in the iteration before.
LEMMA AccumulatePlaced ==
  ASSUME IInv, JInv, Accumulate
  PROVE  JInv' /\ [Sequential!Next]_<<zero, acc>>
<1>1. /\ variant \in Variants /\ pc = "accumulate" /\ pc' \in {"wait", "product"}
      /\ UNCHANGED <<input, i, shared, tasks, buffers>>
      /\ variant' = variant /\ zero' = zero /\ i' = i /\ next' = next /\ keyIndex' = keyIndex
  BY DEF Accumulate, IInv, Control, input, shared
<1>2. /\ OnA' = OnA /\ OnB' = OnB /\ Looping' = Looping /\ Looping /\ Looping'
      /\ Fired("A")' = Fired("A")
  BY <1>1, Steady DEF OnA, OnB, Looping, Fired
<1>3. Owned' /\ Prepared' /\ Expanded' /\ InMemory'
  BY <1>1, <1>2, CallerFrame
<1>4. /\ First \in {0, 1} /\ Last \in Nat /\ Last >= 2 /\ Last + First = N /\ N \in Nat
      /\ i \in 0..Last /\ i \in Nat
  BY <1>1, Sizes DEF JInv, Place
<1>5. Place'
  BY <1>1, <1>2, Steady DEF JInv, Place, Accumulate
<1>6. zero \subseteq Components /\ acc \in Seq(Components) /\ Sequential!Used = Sequential!Before(Reached)
  BY DEF JInv, Product
<1>7. CASE i = 0
  <2>1. pc' = "wait" /\ Reached' = First
    BY <1>1, <1>2, <1>4, <1>7, Steady DEF Accumulate, Reached
  <2>2. CASE variant = "sweep"
    <3>1. Reached = 0 /\ First = 1
      BY <1>1, <1>2, <1>7, <2>2 DEF Reached, First
    <3>2. 0 \in Components /\ bskPrime[0] = 0 /\ acc' = WithFirst
      BY <1>1, <1>7, <2>2, PipelineAssumption DEF JInv, InMemory, Components, Accumulate
    <3>3. IF 0 \in zero THEN acc' = acc ELSE acc' = Append(acc, 0)
      BY <3>1, <3>2 DEF WithFirst
    <3>4. /\ acc' \in Seq(Components) /\ Sequential!Used' = Sequential!Before(1)'
          /\ Sequential!Next \/ acc' = acc
      BY <1>1, <1>6, <3>1, <3>2, <3>3, UsedGrows
    <3>5. Product'
      BY <1>1, <1>6, <2>1, <3>1, <3>4, Steady DEF Product
    <3> QED
      BY <1>1, <1>3, <1>5, <3>4, <3>5 DEF JInv
  <2>3. CASE variant # "sweep"
    <3>1. Reached = First /\ acc' = acc
      BY <1>1, <1>2, <1>7, <2>3 DEF Reached, Accumulate
    <3>2. Sequential!Used' = Sequential!Used /\ Sequential!Before(First)' = Sequential!Before(First)
      BY <1>1, <3>1, Steady DEF Sequential!Used, Sequential!Before
    <3>3. Product'
      BY <1>1, <1>6, <2>1, <3>1, <3>2, Steady DEF Product
    <3> QED
      BY <1>1, <1>3, <1>5, <3>1, <3>3 DEF JInv
  <2> QED
    BY <2>2, <2>3
<1>8. CASE i # 0
  <2>1. Reached = Consumed /\ Consumed \in Components /\ Consumed = i + First - 1
    BY <1>1, <1>2, <1>4, <1>8 DEF Reached, Consumed, Components
  <2>2. CASE Consumed \in zero
    <3>1. pc' = "wait" /\ acc' = acc /\ Reached' = Consumed + 1
      BY <1>1, <1>2, <1>4, <1>8, <2>1, <2>2, Steady DEF Accumulate, Reached
    <3>2. Sequential!Used' = Sequential!Before(Consumed + 1)'
      <4>1. PICK c \in Components : c = Consumed
        BY <2>1
      <4>2. Consumed' = c /\ c \in zero /\ Sequential!Used = Sequential!Before(c)
        BY <1>1, <1>6, <2>1, <2>2, <4>1, Steady DEF Consumed
      <4>3. Sequential!Used' = Sequential!Before(c + 1)'
        BY <1>1, <1>6, <3>1, <4>2, UsedGrows
      <4> QED
        BY <4>2, <4>3 DEF Sequential!Before
    <3>3. Product'
      BY <1>1, <1>6, <3>1, <3>2, Steady DEF Product, Consumed, Sequential!Before
    <3> QED
      BY <1>1, <1>3, <1>5, <3>1, <3>3 DEF JInv
  <2>3. CASE Consumed \notin zero
    <3>1. pc' = "product" /\ acc' = acc /\ reading' = {expanded[cur][l] : l \in Levels}
      BY <1>8, <2>3 DEF Accumulate
    <3>2. Consumed' = Consumed /\ Reached' = Reached
      BY <1>1, <1>2, <1>4, <1>8, <3>1, Steady DEF Consumed, Reached
    <3>3. reading' = {Consumed}
      <4>1. 0 \in Levels
        BY PipelineAssumption DEF Levels
      <4>2. \A l \in Levels : expanded[cur][l] = Consumed
        BY <1>2, <1>4, <1>8, <2>1 DEF JInv, Expanded
      <4> QED
        BY <3>1, <4>1, <4>2
    <3>4. Sequential!Used' = Sequential!Used /\ Sequential!Before(Reached)' = Sequential!Before(Reached)
      BY <1>1, <3>1, <3>2 DEF Sequential!Used, Sequential!Before
    <3>5. Product'
      BY <1>1, <1>6, <2>3, <3>1, <3>2, <3>3, <3>4, Steady DEF Product
    <3> QED
      BY <1>1, <1>3, <1>5, <3>1, <3>5 DEF JInv
  <2> QED
    BY <2>2, <2>3
<1> QED
  BY <1>7, <1>8

LEMMA ProductPlaced ==
  ASSUME IInv, JInv, EndProduct
  PROVE  JInv' /\ [Sequential!Next]_<<zero, acc>>
<1>1. /\ variant \in Variants /\ pc = "product" /\ pc' = "wait"
      /\ UNCHANGED <<input, i, shared, tasks, buffers>>
      /\ variant' = variant /\ zero' = zero /\ i' = i /\ next' = next /\ keyIndex' = keyIndex
  BY DEF EndProduct, IInv, Control, input, shared
<1>2. /\ OnA' = OnA /\ OnB' = OnB /\ Looping' = Looping /\ Looping /\ Looping'
      /\ Fired("A")' = Fired("A")
  BY <1>1, Steady DEF OnA, OnB, Looping, Fired
<1>3. Owned' /\ Prepared' /\ Expanded' /\ InMemory'
  BY <1>1, <1>2, CallerFrame
<1>4. /\ First \in {0, 1} /\ Last \in Nat /\ Last >= 2 /\ Last + First = N /\ N \in Nat
      /\ i \in 0..Last /\ i > 0
  BY <1>1, Sizes DEF JInv, Place
<1>5. Place'
  BY <1>1, <1>2, Steady DEF JInv, Place
<1>6. /\ Reached = Consumed /\ Consumed \in Components
      /\ Consumed' = Consumed /\ Reached' = Consumed + 1
  BY <1>1, <1>2, <1>4, Steady DEF Reached, Consumed, Components
<1>7. PICK c \in Components : c = Consumed
  BY <1>6
<1>8. /\ zero \subseteq Components /\ acc \in Seq(Components) /\ Sequential!Used = Sequential!Before(c)
      /\ reading = {c} /\ c \notin zero
  BY <1>1, <1>6, <1>7 DEF JInv, Product
<1>9. acc' = Append(acc, c)
  <2>1. Cardinality(reading) = 1 /\ (CHOOSE d \in reading : TRUE) = c
    BY <1>8, FS_Singleton
  <2> QED
    BY <2>1 DEF EndProduct
<1>10. /\ acc' \in Seq(Components) /\ Sequential!Used' = Sequential!Before(c + 1)'
       /\ Sequential!Next
  BY <1>1, <1>8, <1>9, UsedGrows
<1>11. Product'
  BY <1>1, <1>6, <1>7, <1>8, <1>10, Steady DEF Product, Sequential!Before
<1> QED
  BY <1>1, <1>3, <1>5, <1>10, <1>11 DEF JInv

LEMMA FinishPlaced ==
  ASSUME IInv, JInv, Finish
  PROVE  JInv' /\ UNCHANGED <<zero, acc>>
<1>1. /\ variant \in Variants /\ pc = "wait" /\ pc' = "done" /\ i = Last
      /\ UNCHANGED <<input, i, shared, tasks, buffers>>
      /\ variant' = variant /\ zero' = zero /\ i' = i /\ next' = next /\ keyIndex' = keyIndex
      /\ acc' = acc
  BY DEF Finish, IInv, Control, input, shared
<1>2. /\ OnA' = OnA /\ OnB' = OnB /\ Looping' = Looping /\ Looping /\ Looping'
      /\ Fired("A")' = Fired("A")
  BY <1>1, Steady DEF OnA, OnB, Looping, Fired
<1>3. Owned' /\ Prepared' /\ Expanded' /\ InMemory'
  BY <1>1, <1>2, CallerFrame
<1>4. Place'
  BY <1>1, <1>2, Steady DEF JInv, Place
<1>5. Last >= 2 /\ Last \in Nat
  BY <1>1, Sizes
<1>6. Reached' = Reached
  BY <1>1, <1>2, <1>5, Steady DEF Reached
<1>7. Sequential!Used' = Sequential!Used /\ Sequential!Before(Reached)' = Sequential!Before(Reached)
  BY <1>1, <1>6 DEF Sequential!Used, Sequential!Before
<1>8. Product'
  BY <1>1, <1>7, Steady DEF JInv, Product
<1> QED
  BY <1>1, <1>3, <1>4, <1>8 DEF JInv

\* A step that leaves the accumulator and does not end a product.
LEMMA ProductKept ==
  ASSUME JInv, UNCHANGED <<input, i, acc, reading>>,
         pc' = pc \/ (pc \in {"fire", "refire"} /\ pc' \in {"refire", "accumulate"})
  PROVE  Product'
<1>1. variant' = variant /\ zero' = zero /\ acc' = acc /\ reading' = reading /\ i' = i
  BY DEF input
<1>2. Looping' = Looping /\ Reached' = Reached /\ Consumed' = Consumed
  BY <1>1, Steady DEF Looping, Reached, Consumed
<1>3. Sequential!Used' = Sequential!Used /\ Sequential!Before(Reached)' = Sequential!Before(Reached)
  BY <1>1, <1>2 DEF Sequential!Used, Sequential!Before
<1> QED
  BY <1>1, <1>2, <1>3, Steady DEF JInv, Product

\* stageB is fired: the component in the other copy is expanded from now on.
LEMMA FireBPlaced ==
  ASSUME IInv, JInv, FireB
  PROVE  JInv' /\ UNCHANGED <<zero, acc>>
<1> USE DEF JInv
<1>1. /\ variant \in Variants /\ variant' = variant /\ zero' = zero /\ acc' = acc /\ i' = i
      /\ next' = next /\ keyIndex' = keyIndex /\ readAhead' = readAhead
      /\ pending' = pending \cup (IF i < Last THEN RunB ELSE {}) /\ running' = running
      /\ decomp' = decomp /\ expanded' = expanded /\ bskPrime' = bskPrime /\ pos' = pos
      /\ reading' = reading
      /\ UNCHANGED <<input, i, acc, reading>>
      /\ pc \in {"fire", "refire"} /\ pc' \in {"refire", "accumulate"}
  BY DEF FireB, Firing, input, shared, buffers, IInv, Control
<1>2. /\ Looping /\ Looping' /\ Fired("A")' = Fired("A") /\ OnA' = OnA
      /\ Fired("B")' /\ (OnB' <=> i < Last)
  BY <1>1, Steady DEF FireB, Firing, Looping, Fired, OnA, OnB, FiredFirst
<1>3. /\ \A t \in pending : t[1] # "B"
      /\ \A r \in running : r.task[1] # "B"
  BY <1>1 DEF FireB, Firing, IInv, Quiet, Joined
<1>4. /\ \A t \in RunA : Busy(t)' = Busy(t)
      /\ i < Last => \A t \in RunB : Busy(t)'
  BY <1>1, RunsDiffer DEF Busy
<1>5. Place'
  BY <1>1, <1>2, Steady DEF Place
<1>6. Owned'
  BY <1>1, <1>2, <1>3, RunsDiffer, Steady DEF Owned
<1>7. Prepared'
  BY <1>1, <1>2, <1>4, Steady DEF Prepared, cur
<1>8. Expanded'
  <2>1. i < Last => \A l \in Levels : Busy(B(l))'
    BY <1>4 DEF RunB
  <2> QED
    BY <1>1, <1>2, <2>1, Steady DEF Expanded, cur
<1>9. InMemory'
  <2>1. Busy(A(0))' = Busy(A(0))
    BY <1>1 DEF Busy, RunB, A, B
  <2> QED
    BY <1>1, <2>1, Steady DEF InMemory
<1>10. Product'
  BY <1>1, ProductKept
<1> QED
  BY <1>1, <1>5, <1>6, <1>7, <1>8, <1>9, <1>10

\* stageA is fired for the component after the one that stageB expands.
LEMMA FireAPlaced ==
  ASSUME IInv, JInv, FireA
  PROVE  JInv' /\ UNCHANGED <<zero, acc>>
<1> USE DEF JInv
<1>1. /\ variant \in Variants /\ variant' = variant /\ zero' = zero /\ acc' = acc /\ i' = i
      /\ next' = next /\ running' = running
      /\ decomp' = decomp /\ expanded' = expanded /\ bskPrime' = bskPrime /\ pos' = pos
      /\ reading' = reading
      /\ UNCHANGED <<input, i, acc, reading>>
      /\ pc \in {"fire", "refire"} /\ pc' \in {"refire", "accumulate"}
  BY DEF FireA, Firing, input, buffers, IInv, Control
<1>2. /\ First \in {0, 1} /\ Last \in Nat /\ Last >= 2 /\ Last + First = N /\ N \in Nat
      /\ i \in 0..Last /\ i \in Nat
  BY <1>1, Sizes DEF Place
<1>3. /\ Looping /\ Looping' /\ Fired("B")' = Fired("B") /\ OnB' = OnB
      /\ Fired("A")' /\ ~Fired("A") /\ ~OnA /\ (OnA' <=> i < Last - 1)
  BY <1>1, Steady DEF FireA, Firing, Looping, Fired, OnA, OnB, FiredFirst
<1>4. /\ \A t \in pending : t[1] # "A"
      /\ \A r \in running : r.task[1] # "A"
  BY <1>1 DEF FireA, Firing, IInv, Quiet, Joined
<1>5. /\ keyIndex = IF i < Last THEN i + First ELSE N - 1
      /\ IF i < Last - 1
         THEN /\ keyIndex' = i + 1 + First
              /\ pending' = pending \cup RunA
              /\ IF variant = "altInit"
                 THEN readIndex' = i + 3 /\ (readAhead' <=> i < N - 3)
                 ELSE readIndex' = readIndex /\ readAhead' = readAhead
         ELSE /\ keyIndex' = keyIndex /\ readIndex' = readIndex /\ readAhead' = readAhead
              /\ pending' = pending
  BY <1>3 DEF Place, FireA, KeyAhead, ReadAheadIndex
<1>6. /\ \A t \in RunB : Busy(t)' = Busy(t)
      /\ i < Last - 1 => \A t \in RunA : Busy(t)'
  BY <1>1, <1>5, RunsDiffer DEF Busy
<1>7. Place'
  BY <1>1, <1>2, <1>3, <1>5, Steady DEF Place
<1>8. Owned'
  BY <1>1, <1>3, <1>4, <1>5, RunsDiffer, Steady DEF Owned
<1>9. Prepared'
  <2>1. i < Last - 1 => \A l \in Levels : \E t \in RunA : Busy(t)' /\ l \in LevelsOf(t)
    BY <1>1, <1>6, LevelsCovered
  <2> QED
    BY <1>1, <1>3, <2>1, Steady DEF Prepared, cur
<1>10. Expanded'
  <2>1. \A l \in Levels : Busy(B(l))' = Busy(B(l))
    BY <1>6 DEF RunB
  <2> QED
    BY <1>1, <1>3, <2>1, Steady DEF Expanded, cur
<1>11. InMemory'
  <2>1. A(0) \in RunA /\ A(0)[1] = "A"
    BY <1>1, PipelineAssumption DEF RunA, Units, A
  <2>2. ~Busy(A(0))
    BY <1>4, <2>1 DEF Busy
  <2>3. pc # "start"
    BY <1>1
  <2>4. CASE ~Streaming
    BY <1>1, <2>3, <2>4, Steady DEF InMemory, Streaming
  <2>5. CASE Streaming /\ ~(i < Last - 1)
    <3>1. Busy(A(0))' = Busy(A(0))
      BY <1>1, <1>5, <2>5 DEF Busy
    <3> QED
      BY <1>1, <1>5, <2>3, <2>5, <3>1, Steady DEF InMemory
  <2>6. CASE variant = "pipeInit" /\ i < Last - 1
    <3>1. Busy(A(0))'
      BY <1>6, <2>1, <2>6
    <3>2. pos = keyIndex + 1 /\ keyIndex' = keyIndex + 1
      BY <1>2, <1>5, <2>2, <2>3, <2>6 DEF InMemory
    <3> QED
      BY <1>1, <2>3, <2>6, <3>1, <3>2, Steady DEF InMemory, Streaming
  <2>7. CASE variant = "altInit" /\ i < Last - 1
    <3>1. Busy(A(0))'
      BY <1>6, <2>1, <2>7
    <3>2. First = 1 /\ Last = N - 1
      BY <2>7 DEF First, Last
    <3>3. keyIndex = i + 1 /\ keyIndex' = keyIndex + 1 /\ keyIndex < N - 1
      BY <1>2, <1>5, <2>7, <3>2
    <3>4. readAhead /\ pos = keyIndex + 2
      BY <2>2, <2>3, <2>7, <3>3 DEF InMemory
    <3>5. readAhead' <=> keyIndex' < N - 1
      BY <1>2, <1>5, <2>7, <3>3
    <3>6. pos' = keyIndex' + 1
      BY <1>1, <1>2, <3>3, <3>4
    <3> QED
      BY <1>1, <2>3, <2>7, <3>1, <3>5, <3>6, Steady DEF InMemory, Streaming
  <2> QED
    BY <2>4, <2>5, <2>6, <2>7 DEF Streaming
<1>12. Product'
  BY <1>1, ProductKept
<1> QED
  BY <1>1, <1>7, <1>8, <1>9, <1>10, <1>11, <1>12

\* A task that begins gets the component its stage is to work on.
LEMMA BeginPlaced ==
  ASSUME IInv, JInv, NEW t \in pending, Begin(t)
  PROVE  JInv' /\ UNCHANGED <<zero, acc>>
<1> USE DEF JInv
<1>1. /\ variant \in Variants /\ variant' = variant /\ zero' = zero /\ acc' = acc /\ i' = i
      /\ next' = next /\ pc' = pc /\ keyIndex' = keyIndex /\ readAhead' = readAhead
      /\ decomp' = decomp /\ expanded' = expanded /\ bskPrime' = bskPrime /\ pos' = pos
      /\ reading' = reading
      /\ UNCHANGED <<input, i, acc, reading>>
  BY DEF Begin, input, shared, buffers, IInv, Control
<1>2. /\ First \in {0, 1} /\ Last \in Nat /\ Last >= 2 /\ Last + First = N /\ N \in Nat
      /\ i \in 0..Last /\ i \in Nat
  BY <1>1, Sizes DEF Place
<1>3. Looping' = Looping /\ OnA' = OnA /\ OnB' = OnB /\ Fired("A")' = Fired("A")
  BY <1>1, Steady DEF Looping, Fired, OnA, OnB, FiredFirst
<1> DEFINE new == [task |-> t, got |-> ReadByTask(t)]
<1>4. /\ pending' = pending \ {t} /\ running' = running \cup {new}
      /\ new.task = t /\ new.got = ReadByTask(t)
  BY DEF Begin
<1> HIDE DEF new
<1>5. \A q : Busy(q)' = Busy(q)
  BY <1>4 DEF Busy
<1>6. Busy(t)
  BY DEF Busy
<1>7. Place' /\ Prepared' /\ Expanded' /\ InMemory'
  BY <1>1, <1>3, <1>5, Steady DEF Place, Prepared, Expanded, InMemory, cur
<1>8. t[1] = "A" => OnA /\ ReadByTask(t) = keyIndex
  <2> SUFFICES ASSUME t[1] = "A" PROVE OnA /\ ReadByTask(t) = keyIndex
    OBVIOUS
  <2>1. OnA /\ pc # "start"
    BY DEF Owned, OnA, Fired
  <2>2. keyIndex \in Components
    BY <1>2 DEF Place, Components
  <2>3. CASE variant = "pipeInit"
    <3>1. RunA = {A(0)} /\ t \in RunA
      <4>1. t \in RunA \cup RunB
        BY DEF IInv, Once
      <4> QED
        BY <2>3, <4>1, RunsDiffer DEF RunA, Units
    <3>2. Busy(A(0))
      BY <1>6, <3>1
    <3>3. pos = keyIndex
      BY <2>1, <2>3, <3>2 DEF InMemory
    <3> QED
      BY <2>1, <2>3, <3>3 DEF ReadByTask
  <2>4. CASE variant = "altInit"
    <3>1. pos \in {keyIndex + 1, keyIndex + 2}
      BY <2>1, <2>4 DEF InMemory
    <3>2. bskPrime[keyIndex] = keyIndex
      BY <2>1, <2>2, <2>4, <3>1 DEF InMemory, Components
    <3> QED
      BY <2>1, <2>4, <3>2 DEF ReadByTask
  <2>5. CASE ~Streaming
    BY <2>1, <2>2, <2>5 DEF InMemory, ReadByTask, Streaming
  <2> QED
    BY <2>3, <2>4, <2>5 DEF Streaming
<1>9. t[1] = "B" => OnB /\ ReadByTask(t) = i + First
  <2> SUFFICES ASSUME t[1] = "B" PROVE OnB /\ ReadByTask(t) = i + First
    OBVIOUS
  <2>1. OnB /\ Looping /\ i < Last
    BY DEF Owned, OnB, Fired, Looping
  <2>2. t \in RunB
    BY RunsDiffer DEF IInv, Once
  <2>3. t[2] \in Levels
    BY <2>2 DEF RunB, B
  <2> QED
    BY <2>1, <2>3 DEF Prepared, ReadByTask
<1>10. Owned'
  BY <1>1, <1>3, <1>4, <1>8, <1>9, Steady DEF Owned
<1>11. Product'
  BY <1>1, ProductKept
<1> QED
  BY <1>1, <1>7, <1>10, <1>11

\* A task that ends leaves its component in every level it covers.
LEMMA EndPlaced ==
  ASSUME IInv, JInv, NEW r \in running, End(r)
  PROVE  JInv' /\ UNCHANGED <<zero, acc>>
<1> USE DEF JInv
<1> DEFINE t == r.task
<1>1. /\ variant \in Variants /\ variant' = variant /\ zero' = zero /\ acc' = acc /\ i' = i
      /\ next' = next /\ pc' = pc /\ keyIndex' = keyIndex /\ readAhead' = readAhead
      /\ reading' = reading
      /\ UNCHANGED <<input, i, acc, reading>>
      /\ pending' = pending /\ running' = running \ {r}
      /\ next \in {0, 1} /\ cur \in {0, 1} /\ cur # next /\ cur' = cur
  BY DEF End, input, shared, IInv, Control, cur
<1>2. /\ First \in {0, 1} /\ Last \in Nat /\ Last >= 2 /\ Last + First = N /\ N \in Nat
      /\ i \in 0..Last /\ i \in Nat
  BY <1>1, Sizes DEF Place
<1>3. Looping' = Looping /\ OnA' = OnA /\ OnB' = OnB /\ Fired("A")' = Fired("A")
  BY <1>1, Steady DEF Looping, Fired, OnA, OnB, FiredFirst
<1>4. /\ t \in RunA \cup RunB
      /\ \A q : q # t => Busy(q)' = Busy(q)
      /\ Busy(t) /\ ~Busy(t)'
  BY <1>1 DEF IInv, Once, Busy
<1>5. /\ t[1] = "A" => OnA /\ r.got = keyIndex
      /\ t[1] = "B" => OnB /\ r.got = i + First
  BY DEF Owned
<1>6. /\ IF t[1] = "A" THEN decomp' = Write(decomp, t, r.got) /\ expanded' = expanded
         ELSE expanded' = Write(expanded, t, r.got) /\ decomp' = decomp
      /\ bskPrime' = [c \in Components |-> IF c \in FromFile(t) THEN pos ELSE bskPrime[c]]
      /\ pos' = pos + Cardinality(FromFile(t))
  BY DEF End
<1> HIDE DEF t
<1>7. Place'
  BY <1>1, <1>3, Steady DEF Place
<1>8. Owned'
  BY <1>1, <1>3, Steady DEF Owned
<1>9. Prepared'
  <2>1. CASE t[1] = "A"
    <3>1. /\ DOMAIN decomp' = {0, 1} /\ decomp'[cur] = decomp[cur]
          /\ \A l \in Levels : decomp'[next][l] = IF l \in LevelsOf(t) THEN keyIndex ELSE decomp[next][l]
      BY <1>1, <1>5, <1>6, <2>1 DEF Prepared, Write
    <3>2. OnA' => \A l \in Levels :
            decomp'[next][l] = keyIndex \/ \E q \in RunA : Busy(q)' /\ l \in LevelsOf(q)
      BY <1>3, <1>4, <3>1 DEF Prepared
    <3> QED
      BY <1>1, <1>3, <3>1, <3>2, Steady DEF Prepared
  <2>2. CASE t[1] # "A"
    <3>1. \A q \in RunA : Busy(q)' = Busy(q)
      BY <1>4, <2>2, RunsDiffer
    <3> QED
      BY <1>1, <1>3, <1>6, <2>2, <3>1, Steady DEF Prepared
  <2> QED
    BY <2>1, <2>2
<1>10. Expanded'
  <2>1. CASE t[1] = "A"
    <3>1. \A l \in Levels : Busy(B(l))' = Busy(B(l))
      BY <1>4, <2>1 DEF B
    <3> QED
      BY <1>1, <1>3, <1>6, <2>1, <3>1, Steady DEF Expanded
  <2>2. CASE t[1] # "A"
    <3>1. t \in RunB /\ t[1] = "B"
      BY <1>4, <2>2, RunsDiffer
    <3>2. PICK k \in Levels : t = B(k)
      BY <3>1 DEF RunB
    <3>3. LevelsOf(t) = {k}
      BY <3>2 DEF LevelsOf, B
    <3>4. /\ DOMAIN expanded' = {0, 1} /\ expanded'[cur] = expanded[cur]
          /\ \A l \in Levels : expanded'[next][l] = IF l = k THEN i + First ELSE expanded[next][l]
      BY <1>1, <1>5, <1>6, <2>2, <3>1, <3>3 DEF Expanded, Write
    <3>5. \A l \in Levels : l # k => Busy(B(l))' = Busy(B(l))
      BY <1>4, <3>2 DEF B
    <3>6. OnB' => \A l \in Levels : expanded'[next][l] = i + First \/ Busy(B(l))'
      BY <1>3, <3>4, <3>5 DEF Expanded
    <3> QED
      BY <1>1, <1>3, <3>4, <3>6, Steady DEF Expanded
  <2> QED
    BY <2>1, <2>2
<1>11. InMemory'
  <2>1. keyIndex \in Components /\ keyIndex >= First /\ 0 \in Components /\ N \in Nat /\ keyIndex \in Nat
    BY <1>2 DEF Place, Components
  <2>2. CASE ~Streaming
    <3>1. FromFile(t) = {}
      BY <2>2 DEF FromFile, Streaming, IInv, AheadOfKey
    <3>2. bskPrime' = [c \in Components |-> bskPrime[c]]
      BY <1>6, <3>1
    <3> QED
      BY <1>1, <2>1, <2>2, <3>2, Steady DEF InMemory, Streaming
  <2>3. CASE variant = "pipeInit"
    <3>1. First = 1 /\ A(0) \in RunA
      BY <2>3 DEF First, RunA, Units
    <3>2. CASE t = A(0)
      <4>1. FromFile(t) = {keyIndex}
        BY <2>3, <3>2 DEF FromFile, IInv, AheadOfKey
      <4>2. Cardinality(FromFile(t)) = 1
        BY <4>1, FS_Singleton
      <4>3. pc # "start" /\ pos = keyIndex
        <5>1. t[1] = "A"
          BY <3>1, <3>2, RunsDiffer
        <5>2. pc # "start"
          BY <1>5, <5>1 DEF OnA, Fired
        <5> QED
          BY <1>4, <2>3, <3>2, <5>2 DEF InMemory
      <4>4. pos' = keyIndex + 1 /\ ~Busy(A(0))' /\ bskPrime'[0] = bskPrime[0]
        BY <1>4, <1>6, <2>1, <3>1, <3>2, <4>1, <4>2, <4>3
      <4> QED
        BY <1>1, <2>3, <4>3, <4>4, Steady DEF InMemory, Streaming
    <3>3. CASE t # A(0)
      <4>1. FromFile(t) = {}
        BY <2>3, <3>3 DEF FromFile, IInv, AheadOfKey
      <4>2. Cardinality(FromFile(t)) = 0
        BY <4>1, FS_EmptySet
      <4>3. Place /\ pos' = pos + 0 /\ bskPrime'[0] = bskPrime[0]
        BY <1>6, <2>1, <4>1, <4>2
      <4>4. Busy(A(0))' = Busy(A(0))
        BY <1>4, <3>3
      <4> QED
        BY <1>1, <2>1, <2>3, <4>3, <4>4, Steady DEF InMemory, Streaming
    <3> QED
      BY <3>2, <3>3
  <2>4. CASE variant = "altInit"
    <3>1. First = 1 /\ A(0) \in RunA /\ Streaming
      BY <2>4, PipelineAssumption DEF First, RunA, Units, Streaming
    <3>2. CASE t = A(0) /\ readAhead
      <4>1. FromFile(t) = {keyIndex + 1}
        BY <2>4, <3>2 DEF FromFile, IInv, AheadOfKey
      <4>2. Cardinality(FromFile(t)) = 1
        BY <4>1, FS_Singleton
      <4>3. pc # "start" /\ pos = keyIndex + 1 /\ keyIndex < N - 1
        <5>1. t[1] = "A"
          BY <3>1, <3>2, RunsDiffer
        <5>2. pc # "start"
          BY <1>5, <5>1 DEF OnA, Fired
        <5> QED
          BY <1>4, <2>4, <3>2, <5>2 DEF InMemory
      <4>4. pos' = keyIndex + 2 /\ ~Busy(A(0))'
        BY <1>4, <1>6, <2>1, <3>2, <4>2, <4>3
      <4>5. \A c \in Components : c < pos' => bskPrime'[c] = c
        <5> SUFFICES ASSUME NEW c \in Components, c < keyIndex + 2 PROVE bskPrime'[c] = c
          BY <4>4
        <5>1. c \in Nat
          BY <2>1 DEF Components
        <5>2. CASE c = keyIndex + 1
          BY <1>6, <4>1, <4>3, <5>2
        <5>3. CASE c < keyIndex + 1
          <6>1. bskPrime[c] = c
            BY <2>4, <4>3, <5>3 DEF InMemory
          <6> QED
            BY <1>6, <2>1, <4>1, <5>1, <5>3, <6>1
        <5> QED
          BY <2>1, <5>1, <5>2, <5>3
      <4>6. bskPrime'[0] = 0
        BY <2>1, <4>4, <4>5
      <4> QED
        BY <1>1, <2>4, <3>1, <3>2, <4>3, <4>4, <4>5, <4>6, Steady DEF InMemory
    <3>3. CASE ~(t = A(0) /\ readAhead)
      <4>1. FromFile(t) = {}
        BY <2>4, <3>3 DEF FromFile
      <4>2. Cardinality(FromFile(t)) = 0
        BY <4>1, FS_EmptySet
      <4>3. pos' = pos + 0 /\ \A c \in Components : bskPrime'[c] = bskPrime[c]
        BY <1>6, <4>1, <4>2
      <4>4. readAhead => Busy(A(0))' = Busy(A(0))
        BY <1>4, <3>3
      <4>5. pc # "start" => pos' = pos
        <5>1. pc # "start" => pos \in Int
          BY <2>1, <2>4 DEF InMemory
        <5> QED
          BY <4>3, <5>1
      <4> QED
        BY <1>1, <2>1, <2>4, <3>1, <4>3, <4>4, <4>5, Steady DEF InMemory
    <3> QED
      BY <3>2, <3>3
  <2> QED
    BY <2>2, <2>3, <2>4 DEF Streaming
<1>12. Product'
  BY <1>1, ProductKept
<1> QED
  BY <1>1, <1>7, <1>8, <1>9, <1>10, <1>11, <1>12

LEMMA NextPlaced ==
  IInv /\ JInv /\ [Next]_vars => JInv' /\ [Sequential!Next]_<<zero, acc>>
<1> SUFFICES ASSUME IInv, JInv, [Next]_vars
             PROVE  JInv' /\ [Sequential!Next]_<<zero, acc>>
  OBVIOUS
<1>1. CASE Caller
  BY <1>1, StartPlaced, FirstPlaced, LoopPlaced, FireBPlaced, FireAPlaced, AccumulatePlaced,
     ProductPlaced, FinishPlaced DEF Caller
<1>2. CASE Pool
  BY <1>2, BeginPlaced, EndPlaced DEF Pool
<1>3. CASE UNCHANGED vars
  <2>1. UNCHANGED <<input, i, shared, tasks, buffers, acc, reading>> /\ variant' = variant /\ pc' = pc
    BY <1>3 DEF vars, input
  <2>2. /\ Looping' = Looping /\ OnA' = OnA /\ OnB' = OnB /\ Fired("A")' = Fired("A")
        /\ \A t : Busy(t)' = Busy(t)
    BY <2>1, Steady DEF Looping, Fired, OnA, OnB, Busy, tasks
  <2>3. Place' /\ Owned'
    BY <2>1, <2>2, Steady DEF JInv, Place, Owned, shared, tasks
  <2>4. Prepared' /\ Expanded' /\ InMemory'
    BY <2>1, <2>2, Steady DEF JInv, Prepared, Expanded, InMemory, shared, buffers, cur
  <2>5. Product'
    BY <2>1, ProductKept
  <2> QED
    BY <2>1, <2>3, <2>4, <2>5 DEF JInv, input
<1> QED
  BY <1>1, <1>2, <1>3 DEF Next

\* Whatever the schedule of the tasks: the accumulator is multiplied by key components
\* that are whole, each at most once, in order, and skipping only those that do not turn.
THEOREM PipelineIsRotation == Spec => ImplementsRotation
<1>1. Init => Sequential!Init
  BY DEF Init, Sequential!Init, Components, Sequential!Components
<1>2. IInv /\ JInv /\ [Next]_vars => [Sequential!Next]_(Sequential!vars)
  BY NextPlaced DEF Sequential!vars
<1> QED
  BY <1>1, <1>2, InitInductive, NextInductive, InitPlaced, NextPlaced, PTL
     DEF Spec, ImplementsRotation, Sequential!Spec

\* When a pipelined rotation returns, no component is left out: neither the first,
\* which is used without being expanded, nor the last, which no stage overlaps.
THEOREM NothingLeftOut == Spec => [](pc = "done" => Sequential!Complete)
<1>1. IInv /\ JInv => (pc = "done" => Sequential!Complete)
  <2> SUFFICES ASSUME IInv, JInv, pc = "done" PROVE Sequential!Complete
    OBVIOUS
  <2>1. variant \in Variants /\ Looping /\ i = Last
    BY DEF IInv, Control, JInv, Place, Looping
  <2>2. Last + First = N /\ Last \in Nat /\ Last >= 2
    BY <2>1, Sizes
  <2>3. Reached = N
    BY <2>1, <2>2 DEF Reached
  <2> QED
    BY <2>3 DEF JInv, Product, Sequential!Complete
<1> QED
  BY <1>1, InitInductive, NextInductive, InitPlaced, NextPlaced, PTL DEF Spec

=============================================================================
