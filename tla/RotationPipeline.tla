-------------------------- MODULE RotationPipeline --------------------------
(***************************************************************************)
(* The pipelined blind rotations of yatfhe/src/blind_rotate.cpp that       *)
(* expand a lazy bootstrapping key as they go:                             *)
(*   "sweep"     blindRotateLazyPipeAltNttSweep, blindRotateLazyPipeAltNtt *)
(*   "noFirst"   blindRotateLazyPipeAltNoFirstNtt                          *)
(*   "altInit"   blindRotateLazyPipeAltInitNtt, reading the key meanwhile  *)
(*   "pipe"      blindRotateLazyPipeNtt                                    *)
(*   "pipeInit"  blindRotatePipeInitNtt, reading the key meanwhile         *)
(*                                                                         *)
(* In iteration i the pool runs stageB, which expands the component that   *)
(* stageA prepared in the previous iteration, and stageA for the one after *)
(* it, while the caller multiplies the accumulator by the component that   *)
(* stageB expanded in the previous iteration.  Two copies of each buffer   *)
(* alternate.  The lambdas of the first three capture pointers and indices *)
(* by reference; the last two enqueue one task for stageA, which holds its *)
(* index by value, and join futures.                                       *)
(*                                                                         *)
(* A polynomial is the index of the component it was computed from.  The   *)
(* pool may start outstanding tasks in any order and run any number at     *)
(* once; ThreadPool models how it joins them.                              *)
(***************************************************************************)
EXTENDS Integers, Sequences, FiniteSets

CONSTANTS
  Variants,     \* the rotations considered
  N,            \* param.n
  Level,        \* param.lApprox
  SweepUnits,   \* unitsA of the sweep
  Unset         \* content of a buffer not yet written, or of mixed origin

ASSUME PipelineAssumption ==
  /\ Variants \subseteq {"sweep", "noFirst", "altInit", "pipe", "pipeInit"}
  /\ N \in Nat /\ N >= 3 /\ Level \in Nat \ {0} /\ SweepUnits \in 1..Level
  /\ "noFirst" \in Variants => Level \in {1, 3, 4}
  /\ Unset \notin Nat

VARIABLES
  variant, zero,        \* the rotation, and the components with input.a[i] = 0
  pc, i,                \* control of the caller
  next,                 \* copy that nextDecompA, nextB and nextExpanded point to
  keyIndex, readIndex, readAhead,
  pending, running,     \* tasks of the group or of the futures
  decomp, expanded,     \* decompA0/1 with decompADft0/1 and b0/1; expanded0/1
  bskPrime, pos,        \* key components in memory, and the position in inFile
  reading,              \* what the external product of the caller reads
  acc                   \* components the accumulator has been multiplied by

input == <<variant, zero>>
shared == <<next, keyIndex, readIndex, readAhead>>
tasks == <<pending, running>>
buffers == <<decomp, expanded, bskPrime, pos>>
vars == <<input, pc, i, shared, tasks, buffers, reading, acc>>

First == IF variant = "noFirst" THEN 0 ELSE 1    \* components expanded without stageB
Streaming == variant \in {"altInit", "pipeInit"}
Units ==                                         \* tasks per run of stageA
  CASE variant = "sweep" -> SweepUnits
    [] variant = "noFirst" -> (Level + 1) \div 2
    [] variant = "altInit" -> Level
    [] OTHER -> 1
Stride ==                                        \* distance of the levels of one task
  CASE variant = "sweep" -> SweepUnits
    [] variant = "noFirst" -> 2
    [] variant = "altInit" -> Level
    [] OTHER -> 1

Levels == 0..Level - 1
Components == 0..N - 1
Content == Components \cup {Unset}
Last_Short == N - First - 1 \* mutant: the loop leaves out the last component
Last == N - First          \* the last iteration
cur == 1 - next            \* the other copy

A(u) == <<"A", u>>
B(l) == <<"B", l>>
RunA == {A(u) : u \in 0..Units - 1}
RunB == {B(l) : l \in Levels}
LevelsOf_Once(t) == {t[2]}                   \* mutant: stageA stops after its first level
LevelsOf(t) ==
  IF t[1] = "B" THEN {t[2]} ELSE {t[2] + k * Stride : k \in Levels} \cap Levels

TypeOK ==
  /\ variant \in Variants /\ zero \subseteq Components
  /\ pc \in {"start", "first", "prewait", "fire", "refire", "accumulate", "product", "wait", "done"}
  /\ i \in 0..Last + 1 /\ next \in {0, 1}
  /\ keyIndex \in Components /\ readIndex \in Nat /\ readAhead \in BOOLEAN
  /\ pending \subseteq RunA \cup RunB
  /\ running \in SUBSET [task : RunA \cup RunB, got : Content]
  /\ decomp \in [{0, 1} -> [Levels -> Content]] /\ expanded \in [{0, 1} -> [Levels -> Content]]
  /\ bskPrime \in [Components -> Content] /\ pos \in 0..N
  /\ reading \subseteq Content /\ acc \in Seq(Content)

Empty == [p \in {0, 1} |-> [l \in Levels |-> Unset]]

Init ==
  /\ variant \in Variants /\ zero \in SUBSET Components
  /\ pc = "start" /\ i = 0 /\ next = 0
  /\ keyIndex = First /\ readIndex = 0 /\ readAhead = FALSE
  /\ pending = {} /\ running = {}
  /\ decomp = Empty /\ expanded = Empty
  /\ bskPrime = [c \in Components |-> IF Streaming THEN Unset ELSE c]
  /\ pos = IF Streaming THEN 0 ELSE N
  /\ reading = {} /\ acc = <<>>

-----------------------------------------------------------------------------
(* The caller.  Before the loop: read the first components, prepare the     *)
(* first that is expanded.                                                  *)
ReadFirst(n) ==
  /\ bskPrime' = [c \in Components |-> IF c < n THEN c ELSE bskPrime[c]]
  /\ pos' = n

Start ==
  /\ pc = "start" /\ pc' = IF variant \in {"sweep", "noFirst"} THEN "prewait" ELSE "first"
  /\ CASE variant = "altInit" -> ReadFirst(2) /\ readIndex' = 2 /\ readAhead' = TRUE
       [] variant = "pipeInit" -> ReadFirst(1) /\ UNCHANGED <<readIndex, readAhead>>
       [] OTHER -> UNCHANGED <<bskPrime, pos, readIndex, readAhead>>
  /\ pending' = RunA
  /\ UNCHANGED <<input, i, next, keyIndex, running, decomp, expanded, reading, acc>>

(* Component 0 is used without being expanded: in iteration 0 of the sweep, *)
(* and before the first join of the others.                                 *)
WithFirst == IF First = 1 /\ 0 \notin zero THEN Append(acc, bskPrime[0]) ELSE acc

FirstComponent ==
  /\ pc = "first" /\ pc' = "prewait"
  /\ acc' = WithFirst
  /\ UNCHANGED <<input, i, shared, tasks, buffers, reading>>

Joined_Always == TRUE                       \* mutant: group.wait() is missing
Joined == pending = {} /\ running = {}

(* The top of an iteration: swap the copies, fire both stages.              *)
NextCopy(j) == 1 - (j % 2)

EnterLoop ==
  /\ \/ pc = "prewait" /\ Joined /\ i' = 0
     \/ pc = "wait" /\ (i < Last => Joined) /\ i < Last /\ i' = i + 1
  /\ next' = NextCopy(i')
  /\ pc' = "fire"
  /\ UNCHANGED <<input, keyIndex, readIndex, readAhead, tasks, buffers, reading, acc>>

(* Which stage is fired first.                                              *)
FiredFirst == IF variant \in {"pipe", "pipeInit"} THEN "A" ELSE "B"
Firing(stage) ==
  \/ pc = "fire" /\ stage = FiredFirst /\ pc' = "refire"
  \/ pc = "refire" /\ stage # FiredFirst /\ pc' = "accumulate"

FireB ==
  /\ Firing("B")
  /\ pending' = pending \cup (IF i < Last THEN RunB ELSE {})
  /\ UNCHANGED <<input, i, shared, running, buffers, reading, acc>>

KeyAhead == i + 1 + First
ReadAheadIndex == i + 3

FireA ==
  /\ Firing("A")
  /\ IF i < Last - 1
     THEN /\ keyIndex' = KeyAhead
          /\ IF variant = "altInit"
             THEN readIndex' = ReadAheadIndex /\ readAhead' = (i < N - 3)
             ELSE UNCHANGED <<readIndex, readAhead>>
          /\ pending' = pending \cup RunA
     ELSE UNCHANGED <<keyIndex, readIndex, readAhead, pending>>
  /\ UNCHANGED <<input, i, next, running, buffers, reading, acc>>

(* An iteration after the first multiplies by what stageB expanded in the   *)
(* one before.                                                              *)
Consumed == i + First - 1

Accumulate ==
  /\ pc = "accumulate"
  /\ IF i = 0
     THEN /\ acc' = IF variant = "sweep" THEN WithFirst ELSE acc
          /\ pc' = "wait" /\ UNCHANGED reading
     ELSE IF Consumed \in zero
     THEN pc' = "wait" /\ UNCHANGED <<acc, reading>>
     ELSE /\ reading' = {expanded[cur][l] : l \in Levels}
          /\ pc' = "product" /\ UNCHANGED acc
  /\ UNCHANGED <<input, i, shared, tasks, buffers>>

EndProduct ==
  /\ pc = "product" /\ pc' = "wait"
  /\ acc' = Append(acc, IF Cardinality(reading) = 1 THEN CHOOSE c \in reading : TRUE ELSE Unset)
  /\ reading' = {}
  /\ UNCHANGED <<input, i, shared, tasks, buffers>>

Finish ==
  /\ pc = "wait" /\ i = Last
  /\ pc' = "done"
  /\ UNCHANGED <<input, i, shared, tasks, buffers, reading, acc>>

-----------------------------------------------------------------------------
(* The tasks.  stageA rotates and decomposes bskPrime[keyIndex], which      *)
(* "pipeInit" reads from the file first, and slot 0 of "altInit" reads the  *)
(* next component.  stageB switches the scheme.                             *)
ReadByTask(t) ==
  IF t[1] = "B" THEN decomp[cur][t[2]]
  ELSE IF variant = "pipeInit" THEN pos
  ELSE bskPrime[keyIndex]

FromFile(t) ==     \* the places of bskPrime a task fills from the file
  CASE t = A(0) /\ variant = "pipeInit" -> {keyIndex}
    [] t = A(0) /\ readAhead -> {readIndex}
    [] OTHER -> {}

Begin(t) ==
  /\ t \in pending
  /\ pending' = pending \ {t}
  /\ running' = running \cup {[task |-> t, got |-> ReadByTask(t)]}
  /\ UNCHANGED <<input, pc, i, shared, buffers, reading, acc>>

Write(buffer, t, c) ==
  [buffer EXCEPT ![next] = [l \in Levels |-> IF l \in LevelsOf(t) THEN c ELSE @[l]]]

End(r) ==
  /\ r \in running
  /\ running' = running \ {r}
  /\ IF r.task[1] = "A"
     THEN decomp' = Write(decomp, r.task, r.got) /\ UNCHANGED expanded
     ELSE expanded' = Write(expanded, r.task, r.got) /\ UNCHANGED decomp
  /\ bskPrime' = [c \in Components |-> IF c \in FromFile(r.task) THEN pos ELSE bskPrime[c]]
  /\ pos' = pos + Cardinality(FromFile(r.task))
  /\ UNCHANGED <<input, pc, i, shared, pending, reading, acc>>

Caller == Start \/ FirstComponent \/ EnterLoop \/ FireB \/ FireA \/ Accumulate \/ EndProduct \/ Finish
Pool == (\E t \in pending : Begin(t)) \/ (\E r \in running : End(r))
Next == Caller \/ Pool

(* The caller runs, and the pool runs what it is given (see ThreadPool).    *)
Spec == Init /\ [][Next]_vars /\ WF_vars(Caller) /\ WF_vars(Pool)
-----------------------------------------------------------------------------
(* What a task, and the caller in the external product, read and write.     *)
Reads(t) ==
  IF t[1] = "A" THEN {<<"bskPrime", keyIndex>>} \cup {<<"pos">> : c \in FromFile(t)} ELSE {<<"decomp", cur, t[2]>>}
Writes(t) ==
  IF t[1] = "A"
  THEN {<<"decomp", next, l>> : l \in LevelsOf(t)} \cup {<<"holders", l>> : l \in LevelsOf(t)}
         \cup UNION {{<<"bskPrime", c>>, <<"pos">>} : c \in FromFile(t)}
  ELSE {<<"expanded", next, t[2]>>}
ProductReads == IF pc = "product" THEN {<<"expanded", cur, l>> : l \in Levels} ELSE {}

(* No task writes what another running task or the caller's external        *)
(* product reads or writes: the buffers alternate in step.                  *)
NoRaces ==
  \A r \in running :
    /\ Writes(r.task) \cap ProductReads = {}
    /\ \A s \in running \ {r} : Writes(r.task) \cap (Writes(s.task) \cup Reads(s.task)) = {}

(* The pipeline computes the rotation: the accumulator is multiplied by     *)
(* whole components, each once and in order, whatever the schedule of the   *)
(* tasks that prepare them.                                                 *)
Sequential == INSTANCE Rotation
ImplementsRotation == Sequential!Spec

(* The rotation ends, and it has left no component out.                     *)
RotationEnds == <>[](pc = "done" /\ Sequential!Complete)
=============================================================================
