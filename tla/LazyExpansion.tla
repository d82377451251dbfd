--------------------------- MODULE LazyExpansion ---------------------------
(***************************************************************************)
(* The blind rotations of yatfhe/src/blind_rotate.cpp that prepare key     *)
(* components in tasks of the pool and join them before they are used:     *)
(*   "preRot"  blindRotateWithPreRotNttMT (preRotateBinary, ...Ternary)    *)
(*   "jp22"    blindRotateJP22NttMT of the ternary build                   *)
(*   "lazy"    blindRotateLazyNtt                                          *)
(*   "lazyMT"  blindRotateLazyMTNtt                                        *)
(*   "wwl24"   blindRotateWWL24Ntt, blindRotateWWL24AltNtt                 *)
(*                                                                         *)
(* The first four prepare all components first, in batches of chunks, into *)
(* rows of their own: rows of the frame ("preRot", "jp22"), or of the key, *)
(* which outlive the call.  "wwl24" prepares one component at a time, one  *)
(* task per level, into the same rows of the frame.  A key is used for     *)
(* several inputs.                                                         *)
(*                                                                         *)
(* The content of a row is the sequence of components that have been added *)
(* to it since it was last zero; a row not allocated is empty.             *)
(***************************************************************************)
EXTENDS Integers, Sequences

CONSTANTS
  Variants,     \* the rotations considered
  N,            \* param.n
  Level,        \* bsk.level
  Batchings,    \* values of <<param.batchSize, param.tasksPerThread>>
  Calls,        \* bound on the rotations with one key
  UsedOnce,     \* variants whose key the caller uses for one input only
  UsedCovered   \* variants whose key the caller uses for inputs that need no
                \* component the first one did not

AllVariants == {"preRot", "jp22", "lazy", "lazyMT", "wwl24"}

ASSUME ExpansionAssumption ==
  /\ Variants \subseteq AllVariants /\ UsedOnce \subseteq Variants /\ UsedCovered \subseteq Variants
  /\ N \in Nat \ {0} /\ Level \in Nat \ {0} /\ Calls \in Nat
  /\ Batchings \subseteq (Nat \ {0}) \X (Nat \ {0})

VARIABLES
  variant, batching,    \* the rotation, and its parameters
  calls, zero, firstZero,    \* calls so far; components with input.a[i] = 0, now and in the first call
  pc, i,                \* control of the caller; start of the next batch, or the component in hand
  tasks,                \* tasks of the batch not yet ended: what each has still to prepare
  rows,                 \* c[level] of each component, or cRows
  initialized,          \* the flag of the lazy key
  acc                   \* components the accumulator has been multiplied by

fixed == <<variant, batching>>
input == <<calls, zero, firstZero>>
vars == <<fixed, input, pc, i, tasks, rows, initialized, acc>>

Components == 0..N - 1
Levels == 0..Level - 1
Unset == N                     \* a product with rows of no or several components

Shared == variant = "wwl24"
Row(c) == IF Shared THEN 0 ELSE c
First == IF variant \in {"preRot", "lazy", "lazyMT"} THEN 1 ELSE 0
Needed(c) == variant \in {"preRot", "jp22"} \/ c \notin zero
NoRows == [c \in Components |-> [l \in Levels |-> <<>>]]

TypeOK ==
  /\ variant \in Variants /\ batching \in Batchings
  /\ calls \in 0..Calls /\ zero \subseteq Components /\ firstZero \subseteq Components
  /\ pc \in {"idle", "expand", "rotate", "product"} /\ i \in 0..N
  /\ tasks \subseteq [id : Nat, work : SUBSET (Components \X Levels)]
  /\ rows \in [Components -> [Levels -> Seq(Components)]]
  /\ initialized \in BOOLEAN /\ acc \in Seq(Components \cup {Unset})

Init ==
  /\ variant \in Variants /\ batching \in Batchings
  /\ calls = 0 /\ zero = Components /\ firstZero = Components
  /\ pc = "idle" /\ i = 0 /\ tasks = {}
  /\ rows = NoRows /\ initialized = FALSE /\ acc = <<>>

-----------------------------------------------------------------------------
(* A rotation begins.  Some need no task for component 0.                   *)
MayCall(z) ==
  /\ calls < Calls
  /\ calls > 0 => variant \notin UsedOnce /\ (variant \in UsedCovered => firstZero \subseteq z)

Prepared == variant = "lazy" /\ initialized
RowsAtCall == IF variant \in {"lazy", "lazyMT"} THEN rows ELSE NoRows

Call(z) ==
  /\ pc = "idle" /\ MayCall(z)
  /\ calls' = calls + 1 /\ zero' = z
  /\ firstZero' = IF calls = 0 THEN z ELSE firstZero
  /\ acc' = IF First = 1 /\ 0 \notin z THEN <<0>> ELSE <<>>
  /\ pc' = IF Shared \/ Prepared THEN "rotate" ELSE "expand"
  /\ i' = First
  /\ rows' = RowsAtCall
  /\ UNCHANGED <<fixed, tasks, initialized>>

(* The next batch is enqueued when the futures of the last have been got.   *)
Joined == tasks = {}

Smaller(a, b) == IF a < b THEN a ELSE b
BatchEnd(start) == Smaller(start + batching[1] * batching[2], N)
ChunkEnd_Overlap(start, end) == Smaller(start + batching[2] + 1, end)   \* mutant: i <= chunkEnd
ChunkEnd(start, end) == Smaller(start + batching[2], end)

(* What a chunk prepares: each of its components, level by level.           *)
Work(start, end) == {w \in (start..end - 1) \X Levels : Needed(w[1])}
Precedes(w, v) == w[1] < v[1] \/ (w[1] = v[1] /\ w[2] <= v[2])

ChunkStarts(start, end) == {start + t * batching[2] : t \in 0..batching[1] - 1} \cap start..end - 1

Batch ==
  /\ pc = "expand" /\ Joined /\ i < N
  /\ i' = BatchEnd(i)
  /\ tasks' = {[id |-> s, work |-> Work(s, ChunkEnd(s, BatchEnd(i)))] : s \in ChunkStarts(i, BatchEnd(i))}
  /\ UNCHANGED <<fixed, input, pc, rows, initialized, acc>>

Expanded ==
  /\ pc = "expand" /\ Joined /\ i = N
  /\ pc' = "rotate" /\ i' = First
  /\ initialized' = (initialized \/ variant = "lazy")
  /\ UNCHANGED <<fixed, input, tasks, rows, acc>>

-----------------------------------------------------------------------------
(* The components in turn.  "wwl24" prepares each when its turn comes.      *)
Advance == pc' = "rotate" /\ i' = i + 1

Skip ==
  /\ pc = "rotate" /\ i < N /\ i \in zero
  /\ Advance
  /\ UNCHANGED <<fixed, input, tasks, rows, initialized, acc>>

SwitchScheme ==
  /\ pc = "rotate" /\ i < N /\ i \notin zero
  /\ pc' = "product"
  /\ tasks' = IF Shared THEN {[id |-> l, work |-> {<<i, l>>}] : l \in Levels} ELSE tasks
  /\ UNCHANGED <<fixed, input, i, rows, initialized, acc>>

(* The external product uses the rows of all levels.                        *)
Used(c) == IF \A l \in Levels : rows[Row(c)][l] = <<c>> THEN c ELSE Unset

Product ==
  /\ pc = "product" /\ Joined
  /\ acc' = Append(acc, Used(i))
  /\ Advance
  /\ UNCHANGED <<fixed, input, tasks, rows, initialized>>

Return ==
  /\ pc = "rotate" /\ i = N
  /\ pc' = "idle"
  /\ UNCHANGED <<fixed, input, i, tasks, rows, initialized, acc>>

-----------------------------------------------------------------------------
(* A task prepares the next of its components, or ends.  "lazyMT" expands   *)
(* with switchTrlweToSecretEmbeddingNttOpt, which does not clear the row.   *)
Clears_Never == FALSE                          \* mutant: the row is not cleared
Clears == variant # "lazyMT"

Prepare(t) ==
  /\ t \in tasks
  /\ \E w \in t.work :
       /\ \A v \in t.work : Precedes(w, v)
       /\ rows' = [rows EXCEPT ![Row(w[1])][w[2]] = Append(IF Clears THEN <<>> ELSE @, w[1])]
       /\ tasks' = (tasks \ {t}) \cup {[t EXCEPT !.work = @ \ {w}]}
  /\ UNCHANGED <<fixed, input, pc, i, initialized, acc>>

EndTask(t) ==
  /\ t \in tasks /\ t.work = {}
  /\ tasks' = tasks \ {t}
  /\ UNCHANGED <<fixed, input, pc, i, rows, initialized, acc>>

Next ==
  \/ \E z \in SUBSET Components : Call(z)
  \/ Batch \/ Expanded \/ Skip \/ SwitchScheme \/ Product \/ Return
  \/ \E t \in tasks : Prepare(t) \/ EndTask(t)

Spec == Init /\ [][Next]_vars
-----------------------------------------------------------------------------
(* The rotation multiplies the accumulator by the components with nonzero   *)
(* rotation, each expanded once, in order; none is missing at the return.   *)
(* So a key kept by the caller (initialized, c) stays right over calls.     *)
UsedBefore(n) == {acc[m] : m \in 1..n - 1}

ComputesRotation ==
  /\ \A n \in DOMAIN acc :
       acc[n] \in Components \ zero /\ UsedBefore(n) = {c \in Components \ zero : c < acc[n]}
  /\ pc = "idle" => UsedBefore(Len(acc) + 1) = Components \ zero

(* Two tasks of a batch, which the pool runs at once, never write the same  *)
(* row: the chunks of preRotateTernary and switchSchemeInBatchBinary do not *)
(* overlap, whatever the batch size and the remainder.                      *)
RowsOf(t) == {<<Row(w[1]), w[2]>> : w \in t.work}
ChunksDisjoint == \A t, u \in tasks : t # u => RowsOf(t) \cap RowsOf(u) = {}

=============================================================================
