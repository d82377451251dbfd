-------------------------- MODULE ThreadPool_proofs --------------------------
(***************************************************************************)
(* Every batch is joined, its errors are reported to its own wait(), no    *)
(* job outlives the frame it captured, and no wakeup is lost, for every    *)
(* number of callers, workers, jobs in a batch and batches.                *)
(***************************************************************************)
EXTENDS ThreadPool, FiniteSetTheorems, FunctionTheorems, SequenceTheorems, TLAPS

(***************************************************************************)
(* The inductive invariant: types, and where a thread can be.  A task on a *)
(* worker computes its product level by level, so that workers never wait. *)
(***************************************************************************)
Batch == {"stage", "product"}
Row == {"wait", "get"}
Kinds == Batch \cup Row
EmptyTask == [kind |-> Idle, by |-> NoJob, k |-> 1, frame |-> 0]
CallerJobs == [kind : Kinds, by : Callers, k : 1..Count, frame : 0..MaxRuns]
Jobs == CallerJobs \cup {EmptyTask}
CallerPlaces == {"idle", "body", "fired", "joining", "push", "notify", "wait", "blocking",
                 "asleep", "collect"}
WorkerPlaces == {"idle", "sleeping", "run", "record", "dec", "signal", "exited"}

Shape ==
  /\ tasks \in Seq(Jobs)
  /\ dtor \in {"alive", "stopped", "notified", "joined"}
  /\ at \in [Threads -> CallerPlaces \cup WorkerPlaces]
  /\ cur \in [Threads -> Kinds]
  /\ job \in [Workers -> Jobs \cup {NoJob}]
  /\ toNotify \in [Threads -> 0..Count]
  /\ remaining \in [Groups -> Int] /\ firstError \in [Groups -> Jobs \cup {NoJob}]
  /\ mutex \in [Groups -> Threads \cup {NoJob}] /\ threw \in [Groups -> SUBSET Jobs]
  /\ frame \in [Callers -> 0..MaxRuns] /\ runs \in [Callers -> 0..MaxRuns]
  /\ fut \in [Callers -> Seq({"pending", "ready", "error"})]

CallerPlaced(c) ==
  /\ at[c] \in CallerPlaces
  /\ at[c] \in {"push", "wait", "blocking", "asleep"} => cur[c] \in Batch
  /\ at[c] = "fired" => cur[c] = "stage"
  /\ at[c] = "collect" => cur[c] \in Row
  /\ at[c] = "notify" => toNotify[c] > 0
  /\ at[c] = "blocking" => mutex[Waiting(c)] = c
  /\ fut[c] # <<>> => at[c] \in {"notify", "collect"} /\ cur[c] \in Row /\ Len(fut[c]) <= Count

WorkerPlaced(w) ==
  /\ at[w] \in WorkerPlaces
  /\ at[w] \in {"run", "record", "dec", "signal"} => job[w] \in Jobs
  /\ at[w] \in {"record", "dec", "signal"} => job[w] \in CallerJobs /\ job[w].kind \in Batch

Placed == (\A c \in Callers : CallerPlaced(c)) /\ (\A w \in Workers : WorkerPlaced(w))

(***************************************************************************)
(* The counter of a group is the number of its jobs in the queue, of those *)
(* in the hands of workers, and of those that run() is about to push.  A   *)
(* frame entered after the pool has been stopped counts nothing any more:  *)
(* run() throws there.                                                     *)
(***************************************************************************)
CallerGroups == Callers \X Batch

Live(g) ==
  LET c == g[1]
  IN \/ ~stop
     \/ g[2] = "stage" /\ at[c] \in {"fired", "joining", "wait", "blocking", "asleep"}
     \/ g[2] = "stage" /\ at[c] = "notify" /\ cur[c] \in Batch
     \/ g[2] = "product" /\ cur[c] = "product" /\ at[c] \in {"notify", "wait", "blocking", "asleep"}

Held(w) == at[w] \in {"run", "record", "dec"}
In(s, g) == {i \in 1..Len(s) : GroupOf(s[i]) = g}
InQueue(g) == In(tasks, g)
InHand(g) == {w \in Workers : Held(w) /\ GroupOf(job[w]) = g}
Coming(g) == IF at[g[1]] = "push" /\ cur[g[1]] = g[2] THEN Count ELSE 0

Counted(g) == remaining[g] = Cardinality(InQueue(g)) + Cardinality(InHand(g)) + Coming(g)

(* An error of a group is known to the group, or about to be.               *)
ErrorKnown(g) ==
  /\ firstError[g] # NoJob => firstError[g] \in threw[g]
  /\ threw[g] # {} => firstError[g] # NoJob \/ \E w \in InHand(g) : at[w] = "record"
  /\ \A w \in InHand(g) : at[w] = "record" => job[w] \in threw[g]
  /\ g[2] = "product" => threw[g] = {}

GroupsRight == \A g \in CallerGroups : Live(g) => Counted(g) /\ ErrorKnown(g)

(***************************************************************************)
(* Where the owner of a job is as long as the job has not ended.           *)
(***************************************************************************)
RowDue(j) ==
  /\ cur[j.by] = j.kind /\ at[j.by] \in {"notify", "collect"}
  /\ j.k \in 1..Len(fut[j.by]) /\ fut[j.by][j.k] = "pending"

OwnerWaits(j) ==
  LET c == j.by
      now == j.frame = frame[c]
  IN /\ j.frame <= frame[c]
     /\ j.kind = "stage" =>
          /\ now
          /\ \/ at[c] \in {"push", "fired", "joining", "wait", "blocking", "asleep"}
             \/ at[c] = "notify" /\ cur[c] \in Batch
     /\ j.kind = "product" =>
          now /\ cur[c] = "product" /\ at[c] \in {"notify", "wait", "blocking", "asleep"}
     /\ j.kind = "wait" => now /\ RowDue(j)
     /\ j.kind = "get" /\ now /\ at[c] # "idle" => RowDue(j)

Pending(j) ==
  (\E i \in 1..Len(tasks) : tasks[i] = j) \/ (\E w \in Workers : Held(w) /\ job[w] = j)

OwnersWait == \A j \in CallerJobs : Pending(j) => OwnerWaits(j)

(* No two tasks of a row set the same future.                               *)
RowsDistinct ==
  /\ \A i, k \in 1..Len(tasks) : i # k /\ tasks[i].kind \in Row => tasks[i] # tasks[k]
  /\ \A i \in 1..Len(tasks) : \A w \in Workers :
       Held(w) /\ tasks[i].kind \in Row => tasks[i] # job[w]
  /\ \A v, w \in Workers : v # w /\ Held(v) /\ Held(w) /\ job[v].kind \in Row => job[v] # job[w]

PInv == Shape /\ Placed /\ NoLostWakeup
FInv == GroupsRight /\ (~stop => OwnersWait /\ RowsDistinct)

(***************************************************************************)
(* Types and places, and no lost wakeup, action by action.                 *)
(***************************************************************************)
LEMMA ThreadFacts ==
  /\ \A c \in Callers : c \in Threads /\ c \notin Workers
  /\ \A w \in Workers : w \in Threads /\ w \notin Callers
  /\ \A t \in Threads : t \in Callers \/ t \in Workers
  /\ CallerGroups \subseteq Groups
  /\ \A c \in Callers : <<c, "stage">> \in CallerGroups /\ <<c, "product">> \in CallerGroups
  /\ NoJob \notin Threads /\ NoJob \notin CallerJobs
BY PoolAssumption DEF Threads, CallerGroups, Groups, Batch, CallerJobs, Row, Kinds

LEMMA ExceptType ==
  ASSUME NEW S, NEW T, NEW f \in [S -> T], NEW x, NEW y \in T
  PROVE  [f EXCEPT ![x] = y] \in [S -> T]
OBVIOUS

\* The two halves of NoLostWakeup: for workers, and for those who wait for a group.
QueueHeard ==
  tasks # <<>> /\ Sleeping = Workers =>
    dtor = "stopped" \/ \E t \in Threads : toNotify[t] > 0
GroupHeard ==
  \A c \in Callers : at[c] \in {"blocking", "asleep"} /\ remaining[Waiting(c)] = 0 =>
    \E w \in Workers : at[w] = "signal" /\ GroupOf(job[w]) = Waiting(c)

LEMMA Halves == Placed => (NoLostWakeup <=> QueueHeard /\ GroupHeard)
<1> SUFFICES ASSUME Placed PROVE NoLostWakeup <=> QueueHeard /\ GroupHeard
  OBVIOUS
<1>1. \A w \in Workers : at[w] \notin {"blocking", "asleep"}
  BY DEF Placed, WorkerPlaced, WorkerPlaces
<1> QED
  BY <1>1, ThreadFacts DEF NoLostWakeup, QueueHeard, GroupHeard

LEMMA HalvesNext == Placed' /\ QueueHeard' /\ GroupHeard' => NoLostWakeup'
<1> SUFFICES ASSUME Placed', QueueHeard', GroupHeard' PROVE NoLostWakeup'
  OBVIOUS
<1>1. \A w \in Workers : at'[w] \notin {"blocking", "asleep"}
  BY DEF Placed, WorkerPlaced, WorkerPlaces
<1> QED
  BY <1>1, ThreadFacts DEF NoLostWakeup, QueueHeard, GroupHeard

LEMMA QueueStillHeard ==
  ASSUME PInv, tasks' = tasks, dtor' = dtor, toNotify' = toNotify, Sleeping' \subseteq Sleeping
  PROVE  QueueHeard'
<1>1. QueueHeard
  BY Halves DEF PInv
<1>2. Sleeping \subseteq Workers
  BY DEF Sleeping
<1> QED
  BY <1>1, <1>2 DEF QueueHeard

LEMMA GroupStillHeard ==
  ASSUME PInv,
         \A c \in Callers : at'[c] \in {"blocking", "asleep"} =>
           \/ remaining'[Waiting(c)'] # 0
           \/ /\ at[c] \in {"blocking", "asleep"} /\ Waiting(c)' = Waiting(c)
              /\ remaining'[Waiting(c)] = remaining[Waiting(c)],
         \A w \in Workers : at[w] = "signal" => at'[w] = "signal" /\ job'[w] = job[w]
  PROVE  GroupHeard'
<1>1. GroupHeard
  BY Halves DEF PInv
<1> SUFFICES ASSUME NEW c \in Callers, at'[c] \in {"blocking", "asleep"}, remaining'[Waiting(c)'] = 0
             PROVE  \E w \in Workers : at'[w] = "signal" /\ GroupOf(job'[w]) = Waiting(c)'
  BY DEF GroupHeard, GroupOf
<1>2. PICK w \in Workers : at[w] = "signal" /\ GroupOf(job[w]) = Waiting(c)
  BY <1>1 DEF GroupHeard
<1> QED
  BY <1>2

\* What a step of one thread leaves alone stays where it can be.
LEMMA PlacedElsewhere ==
  ASSUME PInv, NEW t \in Threads,
         \A u \in Threads : u # t =>
           at'[u] = at[u] /\ cur'[u] = cur[u] /\ toNotify'[u] = toNotify[u],
         \A c \in Callers : c # t =>
           fut'[c] = fut[c] /\ mutex'[Waiting(c)] = mutex[Waiting(c)],
         \A w \in Workers : w # t => job'[w] = job[w],
         t \in Callers => CallerPlaced(t)', t \in Workers => WorkerPlaced(t)'
  PROVE  Placed'
<1>1. ASSUME NEW c \in Callers, c # t PROVE CallerPlaced(c)'
  BY <1>1, ThreadFacts DEF PInv, Placed, CallerPlaced, Waiting
<1>2. ASSUME NEW w \in Workers, w # t PROVE WorkerPlaced(w)'
  BY <1>2, ThreadFacts DEF PInv, Placed, WorkerPlaced
<1> QED
  BY <1>1, <1>2 DEF Placed

LEMMA InitP == Init => PInv
<1> SUFFICES ASSUME Init PROVE PInv
  OBVIOUS
<1>1. Shape
  <2>1. tasks \in Seq(Jobs)
    <3>1. \A j \in Jobs : <<j>> \in Seq(Jobs)
      OBVIOUS
    <3>2. EmptyTask \in Jobs
      BY DEF Jobs
    <3>3. tasks = <<>> \/ tasks = <<EmptyTask>>
      BY DEF Init, EmptyTask
    <3> QED
      BY <3>1, <3>2, <3>3, EmptySeq, Zenon
  <2> QED
    BY <2>1, PoolAssumption DEF Init, Shape, Kinds, Batch, Row, CallerPlaces, WorkerPlaces
<1>2. Placed
  BY ThreadFacts DEF Init, Placed, CallerPlaced, WorkerPlaced, CallerPlaces, WorkerPlaces
<1>3. NoLostWakeup
  BY PoolAssumption, ThreadFacts DEF Init, NoLostWakeup, Sleeping
<1> QED
  BY <1>1, <1>2, <1>3 DEF PInv

LEMMA EnterP ==
  ASSUME PInv, NEW c \in Callers, Enter(c)
  PROVE  PInv'
<1>1. Shape'
  <2>1. frame' \in [Callers -> 0..MaxRuns]
    BY PoolAssumption DEF PInv, Enter, Shape
  <2>2. at' \in [Threads -> CallerPlaces \cup WorkerPlaces]
    BY DEF PInv, Enter, Goto, Shape, CallerPlaces
  <2>3. remaining' \in [Groups -> Int]
    <3>1. remaining \in [Groups -> Int] /\ 0 \in Int
      BY DEF PInv, Shape
    <3> QED
      BY <3>1, ExceptType, Zenon DEF Enter
  <2>4. firstError' \in [Groups -> Jobs \cup {NoJob}]
    BY DEF PInv, Enter, Shape
  <2>5. threw' \in [Groups -> SUBSET Jobs]
    BY DEF PInv, Enter, Shape
  <2> QED
    BY <2>1, <2>2, <2>3, <2>4, <2>5 DEF PInv, Enter, Shape, pool
<1>2. Placed'
  BY ThreadFacts DEF PInv, Enter, Goto, Shape, pool, Placed, CallerPlaced, WorkerPlaced,
     CallerPlaces, WorkerPlaces, Waiting
<1>3. NoLostWakeup'
  BY ThreadFacts DEF PInv, Enter, Goto, Shape, pool, Placed, CallerPlaced, WorkerPlaced,
     NoLostWakeup, Sleeping, Waiting, GroupOf
<1> QED
  BY <1>1, <1>2, <1>3 DEF PInv
LEMMA LeaveP ==
  ASSUME PInv, NEW c \in Callers, Leave(c)
  PROVE  PInv'
<1>1. Shape'
  <2>1. at' \in [Threads -> CallerPlaces \cup WorkerPlaces]
    BY DEF PInv, Leave, Goto, Shape, CallerPlaces, WorkerPlaces
  <2> QED
    BY <2>1 DEF PInv, Shape, Leave, pool, group, caller
<1>2. Placed'
  BY ThreadFacts DEF PInv, Leave, Goto, pool, group, caller, Shape, Placed, CallerPlaced, WorkerPlaced, CallerPlaces, WorkerPlaces, Waiting
<1>3. QueueHeard'
  <2>1. Sleeping' \subseteq Sleeping
    BY ThreadFacts DEF PInv, Leave, Goto, pool, group, caller, Shape, Sleeping
  <2> QED
    BY <2>1, QueueStillHeard DEF Leave, Goto, pool, group, caller
<1>4. GroupHeard'
  BY ThreadFacts, GroupStillHeard DEF PInv, Leave, Goto, pool, group, caller, Shape, Placed, CallerPlaced, Waiting
<1> QED
  BY <1>1, <1>2, <1>3, <1>4, HalvesNext DEF PInv

LEMMA ExpectP ==
  ASSUME PInv, NEW c \in Callers, NEW kind \in Batch, Expect(c, kind),
         at[c] \in {"body", "fired"}, runs' \in [Callers -> 0..MaxRuns]
  PROVE  PInv'
<1>1. Shape'
  <2>1. at' \in [Threads -> CallerPlaces \cup WorkerPlaces]
    BY DEF PInv, Expect, Goto, Shape, CallerPlaces, WorkerPlaces
  <2>2. remaining' \in [Groups -> Int]
    <3>1. <<c, kind>> \in Groups
      BY ThreadFacts DEF CallerGroups
    <3>2. remaining[<<c, kind>>] + Count \in Int
      BY <3>1, PoolAssumption DEF PInv, Shape
    <3> QED
      BY <3>2, ExceptType DEF PInv, Expect, Shape
  <2>3. cur' \in [Threads -> Kinds]
    BY DEF PInv, Expect, Shape, Kinds
  <2> QED
    BY <2>1, <2>2, <2>3 DEF PInv, Shape, Expect, pool, group, caller
<1>2. Placed'
  BY ThreadFacts DEF PInv, Expect, Goto, pool, Shape, Placed, CallerPlaced, WorkerPlaced, CallerPlaces, WorkerPlaces, Waiting
<1>3. QueueHeard'
  <2>1. Sleeping' \subseteq Sleeping
    BY ThreadFacts DEF PInv, Expect, Goto, pool, Shape, Sleeping
  <2> QED
    BY <2>1, QueueStillHeard DEF Expect, Goto, pool
<1>4. GroupHeard'
  BY ThreadFacts, GroupStillHeard DEF PInv, Expect, Goto, pool, Shape, Placed, CallerPlaced, Waiting
<1> QED
  BY <1>1, <1>2, <1>3, <1>4, HalvesNext DEF PInv

LEMMA RunsP ==
  ASSUME PInv, NEW c \in Callers, RunStage(c) \/ Product(c)
  PROVE  PInv'
<1>1. CASE RunStage(c)
  <2>1. runs' \in [Callers -> 0..MaxRuns]
    BY <1>1, PoolAssumption DEF PInv, RunStage, Shape
  <2> QED
    BY <1>1, <2>1, ExpectP DEF RunStage, Batch
<1>2. CASE Product(c)
  <2>1. runs' \in [Callers -> 0..MaxRuns]
    BY <1>2 DEF PInv, Product, Shape
  <2> QED
    BY <1>2, <2>1, ExpectP DEF Product, Batch
<1> QED
  BY <1>1, <1>2

LEMMA StartWaitP ==
  ASSUME PInv, NEW c \in Callers, StartWait(c)
  PROVE  PInv'
<1>1. Shape'
  <2>1. at' \in [Threads -> CallerPlaces \cup WorkerPlaces]
    BY DEF PInv, StartWait, Goto, Shape, CallerPlaces, WorkerPlaces
  <2>2. cur' \in [Threads -> Kinds]
    BY DEF PInv, StartWait, Shape, Kinds, Batch
  <2> QED
    BY <2>1, <2>2 DEF PInv, Shape, StartWait, pool, group, caller
<1>2. Placed'
  BY ThreadFacts DEF PInv, StartWait, Goto, pool, group, caller, Batch, Shape, Placed, CallerPlaced, WorkerPlaced, CallerPlaces, WorkerPlaces, Waiting
<1>3. QueueHeard'
  <2>1. Sleeping' \subseteq Sleeping
    BY ThreadFacts DEF PInv, StartWait, Goto, pool, group, caller, Batch, Shape, Sleeping
  <2> QED
    BY <2>1, QueueStillHeard DEF StartWait, Goto, pool, group, caller, Batch
<1>4. GroupHeard'
  BY ThreadFacts, GroupStillHeard DEF PInv, StartWait, Goto, pool, group, caller, Batch, Shape, Placed, CallerPlaced, Waiting
<1> QED
  BY <1>1, <1>2, <1>3, <1>4, HalvesNext DEF PInv

LEMMA WaitLoadP ==
  ASSUME PInv, NEW c \in Callers, WaitLoad(c)
  PROVE  PInv'
<1>1. Shape'
  <2>1. at' \in [Threads -> CallerPlaces \cup WorkerPlaces]
    BY DEF PInv, WaitLoad, Goto, Shape, CallerPlaces, WorkerPlaces
  <2>2. mutex' \in [Groups -> Threads \cup {NoJob}]
    BY ThreadFacts DEF PInv, WaitLoad, Shape
  <2> QED
    BY <2>1, <2>2 DEF PInv, Shape, WaitLoad, pool, group, caller
<1>2. Placed'
  BY ThreadFacts DEF PInv, WaitLoad, Goto, pool, caller, Done, MutexFree, Batch, Shape, Placed, CallerPlaced, WorkerPlaced, CallerPlaces, WorkerPlaces, Waiting
<1>3. QueueHeard'
  <2>1. Sleeping' \subseteq Sleeping
    BY ThreadFacts DEF PInv, WaitLoad, Goto, pool, caller, Done, MutexFree, Batch, Shape, Sleeping
  <2> QED
    BY <2>1, QueueStillHeard DEF WaitLoad, Goto, pool, caller, Done, MutexFree, Batch
<1>4. GroupHeard'
  BY ThreadFacts, GroupStillHeard DEF PInv, WaitLoad, Goto, pool, caller, Done, MutexFree, Batch, Shape, Placed, CallerPlaced, Waiting
<1> QED
  BY <1>1, <1>2, <1>3, <1>4, HalvesNext DEF PInv

LEMMA WaitBlockP ==
  ASSUME PInv, NEW c \in Callers, WaitBlock(c)
  PROVE  PInv'
<1>1. Shape'
  <2>1. at' \in [Threads -> CallerPlaces \cup WorkerPlaces]
    BY DEF PInv, WaitBlock, Goto, Shape, CallerPlaces, WorkerPlaces
  <2>2. mutex' \in [Groups -> Threads \cup {NoJob}]
    BY ThreadFacts DEF PInv, WaitBlock, Shape
  <2> QED
    BY <2>1, <2>2 DEF PInv, Shape, WaitBlock, pool, group, caller
<1>2. Placed'
  BY ThreadFacts DEF PInv, WaitBlock, Goto, pool, caller, Done, Batch, Shape, Placed, CallerPlaced, WorkerPlaced, CallerPlaces, WorkerPlaces, Waiting
<1>3. QueueHeard'
  <2>1. Sleeping' \subseteq Sleeping
    BY ThreadFacts DEF PInv, WaitBlock, Goto, pool, caller, Done, Batch, Shape, Sleeping
  <2> QED
    BY <2>1, QueueStillHeard DEF WaitBlock, Goto, pool, caller, Done, Batch
<1>4. GroupHeard'
  BY ThreadFacts, GroupStillHeard DEF PInv, WaitBlock, Goto, pool, caller, Done, Batch, Shape, Placed, CallerPlaced, Waiting
<1> QED
  BY <1>1, <1>2, <1>3, <1>4, HalvesNext DEF PInv

LEMMA PushJobsP ==
  ASSUME PInv, NEW c \in Callers, PushJobs(c)
  PROVE  PInv'
<1> DEFINE batch == [k \in 1..Count |-> Job(cur[c], c, k)]
<1>1. batch \in Seq(Jobs) /\ Len(batch) = Count
  <2>1. \A k \in 1..Count : Job(cur[c], c, k) \in Jobs
    BY ThreadFacts DEF PInv, Shape, Job, Jobs, CallerJobs
  <2>2. Count \in Nat
    BY PoolAssumption
  <2> HIDE DEF batch
  <2>3. batch \in [1..Count -> Jobs]
    BY <2>1 DEF batch
  <2> QED
    BY <2>2, <2>3, LenProperties
<1> HIDE DEF batch
<1>2. /\ at'[c] = (IF stop THEN "idle" ELSE "notify") /\ at' = [at EXCEPT ![c] = at'[c]]
      /\ fut' = IF stop THEN [fut EXCEPT ![c] = <<>>] ELSE fut
      /\ tasks' = IF stop THEN tasks ELSE tasks \o batch
      /\ toNotify' = IF stop THEN toNotify ELSE [toNotify EXCEPT ![c] = Count]
      /\ UNCHANGED <<dtor, group, frame, runs, cur, job>>
  BY ThreadFacts DEF PushJobs, Throw, Goto, PInv, Shape, batch
<1>3. Shape'
  <2>1. at' \in [Threads -> CallerPlaces \cup WorkerPlaces]
    BY <1>2 DEF PInv, Shape, CallerPlaces
  <2>2. tasks' \in Seq(Jobs)
    BY <1>1, <1>2, ConcatProperties DEF PInv, Shape
  <2>3. toNotify' \in [Threads -> 0..Count]
    <3>1. Count \in 0..Count /\ toNotify \in [Threads -> 0..Count]
      BY PoolAssumption DEF PInv, Shape
    <3> QED
      BY <1>2, <3>1
  <2>4. fut' \in [Callers -> Seq({"pending", "ready", "error"})]
    <3>1. fut \in [Callers -> Seq({"pending", "ready", "error"})]
          /\ <<>> \in Seq({"pending", "ready", "error"})
      BY DEF PInv, Shape
    <3> QED
      BY <1>2, <3>1
  <2> QED
    BY <1>2, <2>1, <2>2, <2>3, <2>4 DEF PInv, Shape, group
<1>4. Placed'
  <2>1. \A t \in Threads : t # c => at'[t] = at[t] /\ toNotify'[t] = toNotify[t]
    BY <1>2, ThreadFacts DEF PInv, Shape
  <2>2. ~stop => toNotify'[c] = Count /\ Count > 0
    BY <1>2, ThreadFacts, PoolAssumption DEF PInv, Shape
  <2>3. (~stop => fut'[c] = fut[c]) /\ (stop => fut'[c] = <<>>) /\ fut[c] = <<>>
        /\ \A d \in Callers : d # c => fut'[d] = fut[d]
    BY <1>2, ThreadFacts DEF PInv, Shape, Placed, CallerPlaced, PushJobs
  <2>4. CallerPlaced(c)'
    BY <1>2, <2>2, <2>3 DEF CallerPlaced, CallerPlaces
  <2> QED
    BY <1>2, <2>1, <2>3, <2>4, ThreadFacts, PlacedElsewhere DEF group
<1>5. QueueHeard'
  <2>1. Sleeping' \subseteq Sleeping
    BY <1>2, ThreadFacts DEF PInv, Shape, Sleeping
  <2>2. CASE stop
    BY <1>2, <2>1, <2>2, QueueStillHeard
  <2>3. CASE ~stop
    BY <1>2, <2>3, ThreadFacts, PoolAssumption DEF PInv, Shape, QueueHeard
  <2> QED
    BY <2>2, <2>3
<1>6. GroupHeard'
  <2>1. at'[c] \in {"idle", "notify"} /\ \A t \in Threads : t # c => at'[t] = at[t]
    BY <1>2, ThreadFacts DEF PInv, Shape
  <2> QED
    BY <1>2, <2>1, ThreadFacts, GroupStillHeard DEF Waiting, group
<1> QED
  BY <1>3, <1>4, <1>5, <1>6, HalvesNext DEF PInv

LEMMA NotifyOneP ==
  ASSUME PInv, NEW c \in Callers, NotifyOne(c)
  PROVE  PInv'
<1> DEFINE next == IF toNotify[c] = 1 THEN AfterNotify(c) ELSE "notify"
<1>1. UNCHANGED <<tasks, dtor, group, caller, cur, job>>
      /\ toNotify' = [toNotify EXCEPT ![c] = @ - 1] /\ at[c] = "notify"
  BY DEF NotifyOne
<1>2. \/ Sleeping = {} /\ at' = [at EXCEPT ![c] = next]
      \/ \E w \in Sleeping : at' = [at EXCEPT ![c] = next, ![w] = "idle"]
  BY Zenon DEF NotifyOne, Goto
<1>3. next \in {"notify", "fired", "wait", "collect"}
      /\ (next = "notify" => toNotify[c] # 1)
      /\ (next \in {"fired"} => cur[c] = "stage") /\ (next = "wait" => cur[c] = "product")
      /\ (next = "collect" => cur[c] \notin Batch)
  BY DEF AfterNotify, Batch
<1> HIDE DEF next
<1>4. /\ at'[c] = next
      /\ \A t \in Threads : t # c => at'[t] = at[t] \/ (at[t] = "sleeping" /\ at'[t] = "idle" /\ t \in Workers)
      /\ at' \in [Threads -> CallerPlaces \cup WorkerPlaces]
      /\ Sleeping # {} => \E w \in Workers : at'[w] = "idle"
  <2>1. CASE at' = [at EXCEPT ![c] = next] /\ Sleeping = {}
    BY <1>3, <2>1, ThreadFacts DEF PInv, Shape, CallerPlaces
  <2>2. ASSUME NEW w \in Sleeping, at' = [at EXCEPT ![c] = next, ![w] = "idle"]
        PROVE  <1>4!:
    BY <1>3, <2>2, ThreadFacts DEF PInv, Shape, CallerPlaces, Sleeping
  <2> QED
    BY <1>2, <2>1, <2>2
<1>5. toNotify[c] \in 1..Count /\ toNotify' \in [Threads -> 0..Count]
  <2>1. toNotify[c] \in 1..Count /\ Count \in Nat
    BY <1>1, ThreadFacts, PoolAssumption DEF PInv, Shape, Placed, CallerPlaced
  <2>2. toNotify[c] - 1 \in 0..Count
    BY <2>1
  <2> QED
    BY <1>1, <2>1, <2>2, ExceptType DEF PInv, Shape
<1>6. Shape'
  BY <1>1, <1>4, <1>5 DEF PInv, Shape, group, caller
<1>7. Placed'
  <2>1. CallerPlaced(c)'
    <3>1. cur[c] \in Kinds /\ (next = "wait" => cur[c] \in Batch) /\ (next = "collect" => cur[c] \in Row)
          /\ (next = "notify" => toNotify'[c] > 0)
      BY <1>1, <1>3, <1>5, ThreadFacts DEF PInv, Shape, Kinds, Batch
    <3>2. fut[c] # <<>> => cur[c] \in Row /\ Len(fut[c]) <= Count
      BY DEF PInv, Placed, CallerPlaced
    <3>3. cur[c] \in Row => next \in {"notify", "collect"}
      BY <1>3 DEF Row
    <3> QED
      BY <1>1, <1>3, <1>4, <3>1, <3>2, <3>3 DEF CallerPlaced, CallerPlaces, caller
  <2>2. ASSUME NEW d \in Callers, d # c PROVE CallerPlaced(d)'
    <3>1. at'[d] = at[d] /\ toNotify'[d] = toNotify[d]
      BY <1>1, <1>4, <2>2, ThreadFacts DEF PInv, Shape
    <3> QED
      BY <1>1, <3>1 DEF PInv, group, caller, Placed, CallerPlaced, Waiting
  <2>3. ASSUME NEW w \in Workers PROVE WorkerPlaced(w)'
    BY <1>1, <1>4, <2>3, ThreadFacts DEF PInv, Placed, WorkerPlaced, WorkerPlaces
  <2> QED
    BY <2>1, <2>2, <2>3 DEF Placed
<1>8. QueueHeard'
  <2>1. Workers # {} /\ \A w \in Workers : w \in Threads
    BY ThreadFacts, PoolAssumption
  <2>2. PICK w \in Workers : at'[w] # "sleeping"
    <3>1. CASE Sleeping = {}
      BY <1>1, <1>4, <2>1, <3>1, ThreadFacts DEF Sleeping
    <3>2. CASE Sleeping # {}
      BY <1>4, <3>2
    <3> QED
      BY <3>1, <3>2
  <2> QED
    BY <2>2 DEF QueueHeard, Sleeping
<1>9. GroupHeard'
  BY <1>1, <1>3, <1>4, ThreadFacts, GroupStillHeard DEF group, Waiting
<1> QED
  BY <1>6, <1>7, <1>8, <1>9, HalvesNext DEF PInv

\* A future of the row that a job belongs to: its list of outcomes stays one.
LEMMA OutcomeType ==
  ASSUME NEW F \in [Callers -> Seq({"pending", "ready", "error"})], NEW c, NEW k,
         NEW outcome \in {"ready", "error"}
  PROVE  [F EXCEPT ![c][k] = outcome] \in [Callers -> Seq({"pending", "ready", "error"})]
<1> DEFINE O == {"pending", "ready", "error"}
<1> SUFFICES ASSUME c \in Callers PROVE [F[c] EXCEPT ![k] = outcome] \in Seq(O)
  OBVIOUS
<1>1. F[c] \in Seq(O) /\ outcome \in O
  OBVIOUS
<1> HIDE DEF O
<1>2. CASE k \in 1..Len(F[c])
  BY <1>1, <1>2, ExceptSeq
<1>3. CASE k \notin 1..Len(F[c])
  <2>1. [F[c] EXCEPT ![k] = outcome] = F[c]
    BY <1>1, <1>3, LenProperties
  <2> QED
    BY <1>1, <2>1
<1> QED
  BY <1>2, <1>3

LEMMA FinishTaskP ==
  ASSUME PInv, NEW w \in Workers, NEW outcome \in {"ready", "error"},
         at[w] = "run", FinishTask(w, outcome),
         UNCHANGED <<pool, group, frame, runs, cur>>
  PROVE  PInv'
<1>1. Shape'
  <2>1. at' \in [Threads -> CallerPlaces \cup WorkerPlaces]
    BY DEF PInv, FinishTask, Goto, Shape, CallerPlaces, WorkerPlaces
  <2>2. job' \in [Workers -> Jobs \cup {NoJob}]
    BY DEF PInv, FinishTask, Shape
  <2>3. fut' \in [Callers -> Seq({"pending", "ready", "error"})]
    BY OutcomeType DEF PInv, FinishTask, Shape
  <2> QED
    BY <2>1, <2>2, <2>3 DEF PInv, Shape, pool, group
<1>2. Placed'
  BY ThreadFacts DEF PInv, FinishTask, Goto, pool, group, Shape, Placed, CallerPlaced,
     WorkerPlaced, CallerPlaces, WorkerPlaces, Waiting
<1>3. QueueHeard'
  <2>1. Sleeping' \subseteq Sleeping
    BY ThreadFacts DEF PInv, FinishTask, Goto, Shape, Sleeping
  <2> QED
    BY <2>1, QueueStillHeard DEF pool
<1>4. GroupHeard'
  BY ThreadFacts, GroupStillHeard DEF PInv, FinishTask, Goto, group, Shape, Waiting
<1> QED
  BY <1>1, <1>2, <1>3, <1>4, HalvesNext DEF PInv

LEMMA WaitReturnP ==
  ASSUME PInv, NEW c \in Callers, WaitReturn(c)
  PROVE  PInv'
<1>1. /\ at[c] = "wait" /\ at'[c] \in {"idle", "joining", "body"} /\ at' = [at EXCEPT ![c] = at'[c]]
      /\ fut' = fut \/ fut' = [fut EXCEPT ![c] = <<>>]
      /\ firstError' = [firstError EXCEPT ![Waiting(c)] = NoJob]
      /\ threw' = [threw EXCEPT ![Waiting(c)] = {}]
      /\ UNCHANGED <<pool, remaining, mutex, frame, runs, cur, job>>
  BY ThreadFacts DEF WaitReturn, Throw, Goto, PInv, Shape
<1>2. Shape'
  <2>1. at' \in [Threads -> CallerPlaces \cup WorkerPlaces]
    BY <1>1, ThreadFacts DEF PInv, Shape, CallerPlaces
  <2>2. fut' \in [Callers -> Seq({"pending", "ready", "error"})]
    <3>1. fut \in [Callers -> Seq({"pending", "ready", "error"})]
          /\ <<>> \in Seq({"pending", "ready", "error"})
      BY DEF PInv, Shape
    <3> QED
      BY <1>1, <3>1
  <2>3. firstError' \in [Groups -> Jobs \cup {NoJob}] /\ threw' \in [Groups -> SUBSET Jobs]
    BY <1>1 DEF PInv, Shape
  <2> QED
    BY <1>1, <2>1, <2>2, <2>3 DEF PInv, Shape, pool
<1>3. \A t \in Threads : t # c => at'[t] = at[t]
  BY <1>1, ThreadFacts DEF PInv, Shape
<1>4. Placed'
  <2>1. fut[c] = <<>> /\ fut'[c] = <<>> /\ \A d \in Callers : d # c => fut'[d] = fut[d]
    BY <1>1 DEF PInv, Shape, Placed, CallerPlaced
  <2>2. CallerPlaced(c)'
    BY <1>1, <2>1 DEF CallerPlaced, CallerPlaces
  <2> QED
    BY <1>1, <1>3, <2>1, <2>2, ThreadFacts, PlacedElsewhere DEF pool
<1>5. QueueHeard'
  <2>1. Sleeping' \subseteq Sleeping
    BY <1>1, <1>3, ThreadFacts DEF Sleeping
  <2> QED
    BY <1>1, <2>1, QueueStillHeard DEF pool
<1>6. GroupHeard'
  BY <1>1, <1>3, ThreadFacts, GroupStillHeard DEF Waiting
<1> QED
  BY <1>2, <1>4, <1>5, <1>6, HalvesNext DEF PInv

LEMMA SpuriousWakeupP ==
  ASSUME PInv, NEW t \in Threads, SpuriousWakeup(t)
  PROVE  PInv'
<1>1. UNCHANGED <<pool, group, caller, cur, job>>
      /\ (t \in Callers => at[t] = "asleep" /\ at' = [at EXCEPT ![t] = "wait"])
      /\ (t \in Workers => at[t] = "sleeping" /\ at' = [at EXCEPT ![t] = "idle"])
  BY ThreadFacts DEF SpuriousWakeup, Goto, PInv, Placed, CallerPlaced, WorkerPlaced,
     CallerPlaces, WorkerPlaces
<1>2. Shape'
  <2>1. at' \in [Threads -> CallerPlaces \cup WorkerPlaces]
    BY <1>1, ThreadFacts DEF PInv, Shape, CallerPlaces, WorkerPlaces
  <2> QED
    BY <1>1, <2>1 DEF PInv, Shape, pool, group, caller
<1>3. \A u \in Threads : u # t => at'[u] = at[u]
  BY <1>1, ThreadFacts DEF PInv, Shape
<1>4. (t \in Callers => at'[t] = "wait") /\ (t \in Workers => at'[t] = "idle")
  BY <1>1, ThreadFacts DEF PInv, Shape
<1>5. Placed'
  <2>1. t \in Callers => CallerPlaced(t)'
    BY <1>1, <1>4 DEF PInv, Placed, CallerPlaced, CallerPlaces, caller
  <2>2. t \in Workers => WorkerPlaced(t)'
    BY <1>4 DEF WorkerPlaced, WorkerPlaces
  <2> QED
    BY <1>1, <1>3, <2>1, <2>2, PlacedElsewhere DEF pool, group, caller
<1>6. QueueHeard'
  <2>1. Sleeping' \subseteq Sleeping
    BY <1>1, <1>3, <1>4, ThreadFacts DEF Sleeping
  <2> QED
    BY <1>1, <2>1, QueueStillHeard DEF pool
<1>7. GroupHeard'
  BY <1>1, <1>3, <1>4, ThreadFacts, GroupStillHeard DEF Waiting, group
<1> QED
  BY <1>2, <1>5, <1>6, <1>7, HalvesNext DEF PInv

LEMMA EnqueueP ==
  ASSUME PInv, NEW c \in Callers, NEW how \in Row, Enqueue(c, how)
  PROVE  PInv'
<1> DEFINE j == Job(how, c, Len(fut[c]) + 1)
<1>1. /\ at[c] \in {"body", "collect"}
      /\ at'[c] = (IF stop THEN "idle" ELSE "notify")
      /\ \A t \in Threads : t # c => at'[t] = at[t]
      /\ at' \in [Threads -> CallerPlaces \cup WorkerPlaces]
      /\ tasks' = IF stop THEN tasks ELSE Append(tasks, j)
      /\ toNotify' = IF stop THEN toNotify ELSE [toNotify EXCEPT ![c] = 1]
      /\ fut' = [fut EXCEPT ![c] = IF stop THEN <<>> ELSE Append(@, "pending")]
      /\ UNCHANGED <<dtor, group, frame, job>>
  BY ThreadFacts DEF Enqueue, Throw, Goto, PInv, Shape, CallerPlaces
<1>2. /\ cur'[c] \in Kinds /\ cur' = [cur EXCEPT ![c] = cur'[c]]
      /\ cur'[c] \in Row /\ runs' \in [Callers -> 0..MaxRuns]
  <2>1. cur \in [Threads -> Kinds] /\ runs \in [Callers -> 0..MaxRuns] /\ MaxRuns \in Nat
    BY PoolAssumption DEF PInv, Shape
  <2>2. CASE at[c] = "body" /\ runs[c] < MaxRuns /\ runs' = [runs EXCEPT ![c] = @ + 1]
             /\ cur' = [cur EXCEPT ![c] = how]
    <3>1. runs[c] + 1 \in 0..MaxRuns
      BY <2>1, <2>2
    <3>2. runs' \in [Callers -> 0..MaxRuns]
      BY <2>1, <2>2, <3>1, ExceptType
    <3>3. cur'[c] = how
      BY <2>1, <2>2, ThreadFacts
    <3> QED
      BY <2>2, <3>2, <3>3 DEF Kinds
  <2>3. CASE at[c] = "collect" /\ UNCHANGED <<runs, cur>>
    BY <2>1, <2>3, ThreadFacts DEF Kinds, PInv, Placed, CallerPlaced
  <2> QED
    BY <2>2, <2>3 DEF Enqueue
<1>3. fut[c] \in Seq({"pending", "ready", "error"}) /\ Len(fut[c]) \in Nat
  BY DEF PInv, Shape
<1>4. ~stop => j \in Jobs
  <2>1. Len(fut[c]) + 1 \in 1..Count
    <3>1. CASE at[c] = "body"
      BY <3>1, PoolAssumption DEF PInv, Placed, CallerPlaced
    <3>2. CASE at[c] = "collect" /\ Len(fut[c]) < Count
      BY <1>3, <3>2, PoolAssumption
    <3> QED
      BY <3>1, <3>2 DEF Enqueue
  <2> QED
    BY <2>1 DEF PInv, Shape, Job, Jobs, CallerJobs, Kinds
<1>5. Shape'
  <2>1. tasks' \in Seq(Jobs)
    BY <1>1, <1>4, AppendProperties DEF PInv, Shape
  <2>2. toNotify' \in [Threads -> 0..Count]
    <3>1. 1 \in 0..Count /\ toNotify \in [Threads -> 0..Count]
      BY PoolAssumption DEF PInv, Shape
    <3> QED
      BY <1>1, <3>1
  <2>3. fut' \in [Callers -> Seq({"pending", "ready", "error"})]
    <3>1. fut \in [Callers -> Seq({"pending", "ready", "error"})]
          /\ <<>> \in Seq({"pending", "ready", "error"})
      BY DEF PInv, Shape
    <3>2. Append(fut[c], "pending") \in Seq({"pending", "ready", "error"})
      BY <1>3, AppendProperties
    <3> QED
      BY <1>1, <3>1, <3>2
  <2> QED
    BY <1>1, <1>2, <2>1, <2>2, <2>3 DEF PInv, Shape, group
<1>6. Placed'
  <2>1. \A t \in Threads : t # c => toNotify'[t] = toNotify[t] /\ cur'[t] = cur[t]
    BY <1>1, <1>2, ThreadFacts DEF PInv, Shape
  <2>2. ~stop => toNotify'[c] = 1
    BY <1>1, ThreadFacts DEF PInv, Shape
  <2>3. CallerPlaced(c)'
    <3>1. CASE stop
      <4>1. fut'[c] = <<>>
        BY <1>1, <3>1 DEF PInv, Shape
      <4> QED
        BY <1>1, <3>1, <4>1 DEF CallerPlaced, CallerPlaces
    <3>2. CASE ~stop
      <4>1. Len(fut[c]) + 1 \in 1..Count
        BY <1>3, <1>4, <3>2, ThreadFacts DEF Jobs, CallerJobs, Job, EmptyTask
      <4>2. Len(fut'[c]) <= Count
        BY <1>1, <1>3, <3>2, <4>1, AppendProperties DEF PInv, Shape
      <4> QED
        BY <1>1, <1>2, <2>2, <3>2, <4>2 DEF CallerPlaced, CallerPlaces
    <3> QED
      BY <3>1, <3>2
  <2>4. \A d \in Callers : d # c => CallerPlaced(d)'
    BY <1>1, <2>1, ThreadFacts DEF PInv, Shape, group, Placed, CallerPlaced, Waiting
  <2>5. \A w \in Workers : WorkerPlaced(w)'
    BY <1>1, <2>1, ThreadFacts DEF PInv, Placed, WorkerPlaced
  <2> QED
    BY <2>3, <2>4, <2>5 DEF Placed
<1>7. QueueHeard'
  <2>1. Sleeping' \subseteq Sleeping
    BY <1>1, ThreadFacts DEF Sleeping
  <2>2. CASE stop
    BY <1>1, <2>1, <2>2, QueueStillHeard
  <2>3. CASE ~stop
    BY <1>1, <2>3, ThreadFacts DEF PInv, Shape, QueueHeard
  <2> QED
    BY <2>2, <2>3
<1>8. GroupHeard'
  <2>1. \A d \in Callers : d # c => cur'[d] = cur[d]
    BY <1>2, ThreadFacts DEF PInv, Shape
  <2> QED
    BY <1>1, <2>1, ThreadFacts, GroupStillHeard DEF Waiting, group
<1> QED
  BY <1>5, <1>6, <1>7, <1>8, HalvesNext DEF PInv

LEMMA CollectP ==
  ASSUME PInv, NEW c \in Callers, Collect(c)
  PROVE  PInv'
<1>1. /\ at[c] = "collect" /\ at'[c] \in {"idle", "body"} /\ at' = [at EXCEPT ![c] = at'[c]]
      /\ fut' = [fut EXCEPT ![c] = <<>>]
      /\ UNCHANGED <<pool, group, frame, runs, cur, job>>
  BY ThreadFacts DEF Collect, Goto, PInv, Shape
<1>2. \A t \in Threads : t # c => at'[t] = at[t]
  BY <1>1, ThreadFacts DEF PInv, Shape
<1>3. Shape'
  <2>1. at' \in [Threads -> CallerPlaces \cup WorkerPlaces]
    BY <1>1 DEF PInv, Shape, CallerPlaces
  <2>2. fut' \in [Callers -> Seq({"pending", "ready", "error"})]
    <3>1. fut \in [Callers -> Seq({"pending", "ready", "error"})]
          /\ <<>> \in Seq({"pending", "ready", "error"})
      BY DEF PInv, Shape
    <3> QED
      BY <1>1, <3>1
  <2> QED
    BY <1>1, <2>1, <2>2 DEF PInv, Shape, pool, group
<1>4. Placed'
  <2>1. fut'[c] = <<>> /\ \A d \in Callers : d # c => fut'[d] = fut[d]
    BY <1>1 DEF PInv, Shape
  <2>2. CallerPlaced(c)'
    BY <1>1, <2>1 DEF CallerPlaced, CallerPlaces
  <2> QED
    BY <1>1, <1>2, <2>1, <2>2, ThreadFacts, PlacedElsewhere DEF pool, group
<1>5. QueueHeard'
  <2>1. Sleeping' \subseteq Sleeping
    BY <1>1, <1>2, ThreadFacts DEF Sleeping
  <2> QED
    BY <1>1, <2>1, QueueStillHeard DEF pool
<1>6. GroupHeard'
  BY <1>1, <1>2, ThreadFacts, GroupStillHeard DEF Waiting, group
<1> QED
  BY <1>3, <1>4, <1>5, <1>6, HalvesNext DEF PInv

LEMMA TakeP ==
  ASSUME PInv, NEW w \in Workers, Take(w)
  PROVE  PInv'
<1>1. /\ at[w] = "idle" /\ at' = [at EXCEPT ![w] = at'[w]]
      /\ \/ /\ tasks # <<>> /\ at'[w] = "run" /\ tasks' = Tail(tasks)
            /\ job' = [job EXCEPT ![w] = Head(tasks)]
         \/ tasks = <<>> /\ at'[w] \in {"exited", "sleeping"} /\ UNCHANGED <<job, tasks>>
      /\ UNCHANGED <<dtor, toNotify, group, caller, cur>>
  BY ThreadFacts DEF Take, Exits, Goto, PInv, Shape
<1>2. \A t \in Threads : t # w => at'[t] = at[t]
  BY <1>1, ThreadFacts DEF PInv, Shape
<1>3. tasks # <<>> => Head(tasks) \in Jobs /\ Tail(tasks) \in Seq(Jobs)
  BY HeadTailProperties DEF PInv, Shape
<1>4. Shape'
  <2>1. at' \in [Threads -> CallerPlaces \cup WorkerPlaces]
    BY <1>1 DEF PInv, Shape, WorkerPlaces
  <2>2. job' \in [Workers -> Jobs \cup {NoJob}] /\ tasks' \in Seq(Jobs)
    BY <1>1, <1>3 DEF PInv, Shape
  <2> QED
    BY <1>1, <2>1, <2>2 DEF PInv, Shape, group, caller
<1>5. Placed'
  <2>1. \A v \in Workers : v # w => job'[v] = job[v]
    BY <1>1 DEF PInv, Shape
  <2>2. at'[w] = "run" => job'[w] \in Jobs
    BY <1>1, <1>3 DEF PInv, Shape
  <2>3. WorkerPlaced(w)'
    BY <1>1, <2>2 DEF WorkerPlaced, WorkerPlaces
  <2> QED
    BY <1>1, <1>2, <2>1, <2>3, ThreadFacts, PlacedElsewhere DEF group, caller
<1>6. QueueHeard'
  <2>1. CASE tasks = <<>>
    BY <1>1, <2>1 DEF QueueHeard
  <2>2. CASE at'[w] = "run"
    BY <2>2 DEF QueueHeard, Sleeping
  <2> QED
    BY <1>1, <2>1, <2>2
<1>7. GroupHeard'
  <2>1. \A v \in Workers : v # w => job'[v] = job[v]
    BY <1>1 DEF PInv, Shape
  <2> QED
    BY <1>1, <1>2, <2>1, ThreadFacts, GroupStillHeard DEF Waiting, group
<1> QED
  BY <1>4, <1>5, <1>6, <1>7, HalvesNext DEF PInv

\* The job of a batch belongs to a group.
LEMMA OwnGroup ==
  ASSUME PInv, NEW w \in Workers, at[w] \in {"run", "record", "dec", "signal"},
         at[w] = "run" => job[w].kind \in Batch
  PROVE  /\ job[w] \in CallerJobs /\ job[w].by \in Callers /\ job[w].kind \in Batch
         /\ GroupOf(job[w]) \in CallerGroups /\ GroupOf(job[w]) \in Groups
<1>1. job[w] \in CallerJobs /\ job[w].kind \in Batch
  BY DEF PInv, Placed, WorkerPlaced, Jobs, EmptyTask, Idle, Batch
<1>2. job[w].by \in Callers
  BY <1>1 DEF CallerJobs
<1> QED
  BY <1>1, <1>2, ThreadFacts DEF GroupOf, CallerGroups

LEMMA RunIndexedP ==
  ASSUME PInv, NEW w \in Workers, RunIndexed(w)
  PROVE  PInv'
<1>1. /\ at[w] = "run" /\ job[w].kind \in Batch
      /\ at'[w] \in {"dec", "record"} /\ \A t \in Threads : t # w => at'[t] = at[t]
      /\ at' \in [Threads -> CallerPlaces \cup WorkerPlaces]
      /\ UNCHANGED <<pool, remaining, firstError, mutex, caller, cur, job>>
  BY ThreadFacts DEF RunIndexed, Goto, PInv, Shape, Batch, WorkerPlaces
<1>2. Shape'
  <2>1. threw' \in [Groups -> SUBSET Jobs]
    <3>1. job[w] \in Jobs /\ threw \in [Groups -> SUBSET Jobs]
      BY <1>1, OwnGroup DEF Jobs, PInv, Shape
    <3>2. threw' = threw \/ threw' = [threw EXCEPT ![GroupOf(job[w])] = @ \cup {job[w]}]
      BY DEF RunIndexed
    <3> QED
      BY <3>1, <3>2
  <2> QED
    BY <1>1, <2>1 DEF PInv, Shape, pool, caller
<1>3. Placed'
  <2>1. WorkerPlaced(w)'
    BY <1>1, OwnGroup DEF WorkerPlaced, WorkerPlaces, Jobs
  <2> QED
    BY <1>1, <2>1, ThreadFacts, PlacedElsewhere DEF pool, caller
<1>4. QueueHeard'
  <2>1. Sleeping' \subseteq Sleeping
    BY <1>1, ThreadFacts DEF Sleeping
  <2> QED
    BY <1>1, <2>1, QueueStillHeard DEF pool
<1>5. GroupHeard'
  BY <1>1, ThreadFacts, GroupStillHeard DEF Waiting
<1> QED
  BY <1>2, <1>3, <1>4, <1>5, HalvesNext DEF PInv

LEMMA RunTaskP ==
  ASSUME PInv, NEW w \in Workers, RunTask(w)
  PROVE  PInv'
<1>1. /\ at[w] = "run" /\ UNCHANGED <<pool, group, frame, runs, cur>>
      /\ \E outcome \in {"ready", "error"} : FinishTask(w, outcome)
  BY DEF RunTask, OnWorkerThread
<1> QED
  BY <1>1, FinishTaskP

LEMMA RecordP ==
  ASSUME PInv, NEW w \in Workers, Record(w)
  PROVE  PInv'
<1>1. /\ at[w] = "record" /\ at'[w] = "dec" /\ \A t \in Threads : t # w => at'[t] = at[t]
      /\ at' \in [Threads -> CallerPlaces \cup WorkerPlaces]
      /\ UNCHANGED <<pool, remaining, mutex, threw, caller, cur, job>>
  BY ThreadFacts DEF Record, Goto, PInv, Shape, WorkerPlaces
<1>2. Shape'
  <2>1. firstError' \in [Groups -> Jobs \cup {NoJob}]
    <3>1. job[w] \in Jobs /\ firstError \in [Groups -> Jobs \cup {NoJob}]
      BY <1>1, OwnGroup DEF Jobs, PInv, Shape
    <3>2. firstError' = firstError
          \/ firstError' = [firstError EXCEPT ![GroupOf(job[w])] = job[w]]
      BY <3>1 DEF Record
    <3> QED
      BY <3>1, <3>2
  <2> QED
    BY <1>1, <2>1 DEF PInv, Shape, pool, caller
<1>3. Placed'
  <2>1. WorkerPlaced(w)'
    BY <1>1, OwnGroup DEF WorkerPlaced, WorkerPlaces, Jobs
  <2> QED
    BY <1>1, <2>1, ThreadFacts, PlacedElsewhere DEF pool, caller
<1>4. QueueHeard'
  <2>1. Sleeping' \subseteq Sleeping
    BY <1>1, ThreadFacts DEF Sleeping
  <2> QED
    BY <1>1, <2>1, QueueStillHeard DEF pool
<1>5. GroupHeard'
  BY <1>1, ThreadFacts, GroupStillHeard DEF Waiting
<1> QED
  BY <1>2, <1>3, <1>4, <1>5, HalvesNext DEF PInv

\* The counter of a sleeping waiter's group gets to zero only by the worker that
\* will notify it.
LEMMA DecP ==
  ASSUME PInv, NEW w \in Workers, Dec(w)
  PROVE  PInv'
<1> DEFINE g == GroupOf(job[w])
           last == remaining[g] = 1
<1>1. /\ at[w] = "dec" /\ at'[w] = (IF last THEN "signal" ELSE "idle")
      /\ \A t \in Threads : t # w => at'[t] = at[t]
      /\ at' \in [Threads -> CallerPlaces \cup WorkerPlaces]
      /\ job' = IF last THEN job ELSE [job EXCEPT ![w] = NoJob]
      /\ remaining' = [remaining EXCEPT ![g] = @ - 1]
      /\ UNCHANGED <<pool, firstError, mutex, threw, caller, cur>>
  BY ThreadFacts DEF Dec, Goto, PInv, Shape, WorkerPlaces
<1>2. g \in Groups /\ job[w] \in CallerJobs /\ job[w].kind \in Batch
  BY <1>1, OwnGroup
<1> HIDE DEF g
<1>3. Shape'
  <2>1. remaining' \in [Groups -> Int]
    <3>1. remaining \in [Groups -> Int] /\ remaining[g] - 1 \in Int
      BY <1>2 DEF PInv, Shape
    <3> QED
      BY <1>1, <3>1, ExceptType
  <2>2. job' \in [Workers -> Jobs \cup {NoJob}]
    BY <1>1 DEF PInv, Shape
  <2> QED
    BY <1>1, <2>1, <2>2 DEF PInv, Shape, pool, caller
<1>4. \A v \in Workers : v # w => job'[v] = job[v]
  BY <1>1 DEF PInv, Shape
<1>5. Placed'
  <2>1. WorkerPlaced(w)'
    BY <1>1, <1>2 DEF WorkerPlaced, WorkerPlaces, Jobs
  <2> QED
    BY <1>1, <1>4, <2>1, ThreadFacts, PlacedElsewhere DEF pool, caller
<1>6. QueueHeard'
  <2>1. Sleeping' \subseteq Sleeping
    BY <1>1, ThreadFacts DEF Sleeping
  <2> QED
    BY <1>1, <2>1, QueueStillHeard DEF pool
<1>7. GroupHeard'
  <2> SUFFICES ASSUME NEW c \in Callers, at[c] \in {"blocking", "asleep"},
                      remaining'[Waiting(c)] = 0
               PROVE  \E v \in Workers : at'[v] = "signal" /\ GroupOf(job'[v]) = Waiting(c)
    BY <1>1, ThreadFacts DEF GroupHeard, Waiting, GroupOf
  <2>1. Waiting(c) \in Groups
    BY ThreadFacts DEF PInv, Placed, CallerPlaced, Waiting, CallerGroups
  <2>2. CASE Waiting(c) = g
    <3>1. remaining[g] = 1
      BY <1>1, <2>1, <2>2 DEF PInv, Shape
    <3> QED
      BY <1>1, <2>2, <3>1 DEF g
  <2>3. CASE Waiting(c) # g
    <3>1. remaining[Waiting(c)] = 0
      BY <1>1, <2>1, <2>3 DEF PInv, Shape
    <3>2. PICK v \in Workers : at[v] = "signal" /\ GroupOf(job[v]) = Waiting(c)
      BY <3>1, Halves DEF PInv, GroupHeard
    <3> QED
      BY <1>1, <1>4, <3>2, ThreadFacts
  <2> QED
    BY <2>2, <2>3
<1> QED
  BY <1>3, <1>5, <1>6, <1>7, HalvesNext DEF PInv

LEMMA SignalP ==
  ASSUME PInv, NEW w \in Workers, Signal(w)
  PROVE  PInv'
<1> DEFINE g == GroupOf(job[w])
<1>1. /\ at[w] = "signal" /\ mutex[g] = NoJob
      /\ at'[w] = "idle"
      /\ \A t \in Threads : t # w =>
           at'[t] = IF at[t] = "asleep" /\ Waiting(t) = g THEN "wait" ELSE at[t]
      /\ at' \in [Threads -> CallerPlaces \cup WorkerPlaces]
      /\ job' = [job EXCEPT ![w] = NoJob]
      /\ UNCHANGED <<pool, group, caller, cur>>
  BY ThreadFacts DEF Signal, MutexFree, PInv, Shape, WorkerPlaces, CallerPlaces
<1> HIDE DEF g
<1>2. \A v \in Workers : v # w => job'[v] = job[v] /\ at'[v] = at[v]
  BY <1>1, ThreadFacts DEF PInv, Shape, Placed, WorkerPlaced, WorkerPlaces
<1>3. Shape'
  <2>1. job' \in [Workers -> Jobs \cup {NoJob}]
    BY <1>1 DEF PInv, Shape
  <2> QED
    BY <1>1, <2>1 DEF PInv, Shape, pool, group, caller
<1>4. Placed'
  <2>1. ASSUME NEW c \in Callers PROVE CallerPlaced(c)'
    <3>1. at'[c] = at[c] \/ (at[c] = "asleep" /\ at'[c] = "wait")
      BY <1>1, ThreadFacts
    <3> QED
      BY <1>1, <3>1 DEF PInv, Placed, CallerPlaced, CallerPlaces, Waiting, pool, group, caller
  <2>2. ASSUME NEW v \in Workers PROVE WorkerPlaced(v)'
    BY <1>1, <1>2 DEF PInv, Placed, WorkerPlaced, WorkerPlaces
  <2> QED
    BY <2>1, <2>2 DEF Placed
<1>5. QueueHeard'
  <2>1. Sleeping' \subseteq Sleeping
    BY <1>1, <1>2 DEF Sleeping
  <2> QED
    BY <1>1, <2>1, QueueStillHeard DEF pool
<1>6. GroupHeard'
  <2> SUFFICES ASSUME NEW c \in Callers, at'[c] \in {"blocking", "asleep"},
                      remaining[Waiting(c)] = 0
               PROVE  \E v \in Workers : at'[v] = "signal" /\ GroupOf(job'[v]) = Waiting(c)
    BY <1>1 DEF GroupHeard, Waiting, GroupOf, group
  <2>1. at[c] \in {"blocking", "asleep"} /\ (at[c] = "asleep" => Waiting(c) # g)
    BY <1>1, ThreadFacts
  <2>2. Waiting(c) # g
    BY <1>1, <2>1, ThreadFacts DEF PInv, Placed, CallerPlaced
  <2>3. PICK v \in Workers : at[v] = "signal" /\ GroupOf(job[v]) = Waiting(c)
    BY <2>1, Halves DEF PInv, GroupHeard
  <2> QED
    BY <1>2, <2>2, <2>3 DEF g
<1> QED
  BY <1>3, <1>4, <1>5, <1>6, HalvesNext DEF PInv

LEMMA DestroyP ==
  ASSUME PInv, Destroy
  PROVE  PInv'
<1>1. /\ dtor' \in {"stopped", "notified", "joined"}
      /\ \A t \in Threads : at'[t] = at[t] \/ (at[t] = "sleeping" /\ at'[t] = "idle")
      /\ at' \in [Threads -> CallerPlaces \cup WorkerPlaces]
      /\ UNCHANGED <<tasks, toNotify, group, caller, cur, job>>
      /\ \/ dtor' = "stopped"
         \/ \A w \in Workers : at'[w] # "sleeping"
  BY ThreadFacts DEF Destroy, SetStop, NotifyAll, Join, Sleeping, PInv, Shape, CallerPlaces
<1>2. Shape'
  BY <1>1 DEF PInv, Shape, group, caller
<1>3. Placed'
  <2>1. ASSUME NEW c \in Callers PROVE CallerPlaced(c)'
    <3>1. at'[c] = at[c]
      BY <1>1, ThreadFacts DEF PInv, Placed, CallerPlaced, CallerPlaces
    <3> QED
      BY <1>1, <3>1 DEF PInv, Placed, CallerPlaced, Waiting, group, caller
  <2>2. ASSUME NEW v \in Workers PROVE WorkerPlaced(v)'
    BY <1>1, ThreadFacts DEF PInv, Placed, WorkerPlaced, WorkerPlaces
  <2> QED
    BY <2>1, <2>2 DEF Placed
<1>4. QueueHeard'
  BY <1>1, PoolAssumption DEF QueueHeard, Sleeping
<1>5. GroupHeard'
  BY <1>1, ThreadFacts, GroupStillHeard DEF Waiting, group
<1> QED
  BY <1>2, <1>3, <1>4, <1>5, HalvesNext DEF PInv

LEMMA StutterP ==
  ASSUME PInv, UNCHANGED vars
  PROVE  PInv'
<1>1. UNCHANGED <<tasks, dtor, toNotify, remaining, firstError, mutex, threw, frame, runs, fut,
                  at, cur, job>>
  BY DEF vars, pool, group, caller
<1> QED
  BY <1>1 DEF PInv, Shape, Placed, CallerPlaced, WorkerPlaced, NoLostWakeup, Sleeping, Waiting,
     GroupOf

\* A worker never waits for a group, nor does it push a batch.
LEMMA ProtocolIsCallers ==
  ASSUME PInv, NEW t \in Threads, Protocol(t)
  PROVE  t \in Callers
<1>1. at[t] \in {"push", "notify", "wait", "blocking"}
  BY Zenon DEF Protocol, PushJobs, NotifyOne, WaitLoad, WaitBlock, WaitReturn
<1> QED
  BY <1>1, ThreadFacts DEF PInv, Placed, WorkerPlaced, WorkerPlaces

LEMMA NextP == PInv /\ [Next]_vars => PInv'
<1> SUFFICES ASSUME PInv, [Next]_vars PROVE PInv'
  OBVIOUS
<1>1. ASSUME NEW c \in Callers, CallerStep(c) PROVE PInv'
  <2>1. CASE \E how \in Row : Enqueue(c, how)
    BY <2>1, EnqueueP
  <2> QED
    BY <1>1, <2>1, EnterP, LeaveP, RunsP, StartWaitP, CollectP DEF CallerStep, Row
<1>2. ASSUME NEW t \in Threads, Protocol(t) \/ SpuriousWakeup(t) PROVE PInv'
  BY <1>2, ProtocolIsCallers, PushJobsP, NotifyOneP, WaitLoadP, WaitBlockP, WaitReturnP,
     SpuriousWakeupP DEF Protocol
<1>3. ASSUME NEW w \in Workers, WorkerStep(w) \/ Acquire(w) PROVE PInv'
  BY <1>3, TakeP, RunIndexedP, RunTaskP, DecP, RecordP, SignalP DEF WorkerStep, Acquire
<1>4. CASE Destroy
  BY <1>4, DestroyP
<1>5. CASE UNCHANGED vars
  BY <1>5, StutterP
<1> QED
  BY <1>1, <1>2, <1>3, <1>4, <1>5 DEF Next

(***************************************************************************)
(* Counting.                                                               *)
(***************************************************************************)
LEMMA FiniteCounts ==
  ASSUME NEW g, NEW s \in Seq(Jobs)
  PROVE  /\ IsFiniteSet(In(s, g)) /\ Cardinality(In(s, g)) \in Nat
         /\ IsFiniteSet(InHand(g)) /\ Cardinality(InHand(g)) \in Nat
         /\ IsFiniteSet(InHand(g)') /\ Cardinality(InHand(g)') \in Nat
<1>1. IsFiniteSet(In(s, g))
  <2>1. Len(s) \in Nat
    BY LenProperties
  <2>2. IsFiniteSet(1..Len(s)) /\ In(s, g) \in SUBSET (1..Len(s))
    BY <2>1, FS_Interval DEF In
  <2> QED
    BY <2>2, FS_Subset
<1>2. IsFiniteSet(InHand(g)) /\ IsFiniteSet(InHand(g)')
  <2>1. InHand(g) \in SUBSET Workers /\ InHand(g)' \in SUBSET Workers
    BY DEF InHand
  <2> QED
    BY <2>1, FS_Subset, PoolAssumption
<1> QED
  BY <1>1, <1>2, FS_CardinalityType

\* Taking the head of the queue.
LEMMA TailCount ==
  ASSUME NEW g, NEW s \in Seq(Jobs), s # <<>>
  PROVE  Cardinality(In(Tail(s), g)) =
           Cardinality(In(s, g)) - (IF GroupOf(Head(s)) = g THEN 1 ELSE 0)
<1> DEFINE S == In(Tail(s), g)
           T == In(s, g) \ {1}
           f == [i \in S |-> i + 1]
<1>1. /\ Tail(s) \in Seq(Jobs) /\ Len(s) \in Nat \ {0} /\ Len(Tail(s)) = Len(s) - 1
      /\ \A i \in 1..Len(Tail(s)) : Tail(s)[i] = s[i + 1]
      /\ Head(s) = s[1]
  BY HeadTailProperties, LenProperties, EmptySeq
<1>2. S \subseteq Nat /\ \A i \in S : i + 1 \in T
  BY <1>1 DEF In
<1>3. \A k \in T : k - 1 \in S /\ (k - 1) + 1 = k
  <2> SUFFICES ASSUME NEW k \in T PROVE k - 1 \in S /\ (k - 1) + 1 = k
    OBVIOUS
  <2>1. k \in 2..Len(s) /\ GroupOf(s[k]) = g
    BY <1>1 DEF In
  <2>2. k - 1 \in 1..Len(Tail(s)) /\ (k - 1) + 1 = k
    BY <1>1, <2>1
  <2>3. Tail(s)[k - 1] = s[k]
    BY <1>1, <2>2
  <2> QED
    BY <2>1, <2>2, <2>3 DEF In
<1>4. ExistsBijection(S, T)
  <2>1. f \in [S -> T]
    BY <1>2
  <2>2. \A a, b \in S : f[a] = f[b] => a = b
    BY <1>2
  <2>3. \A k \in T : \E a \in S : f[a] = k
    <3> SUFFICES ASSUME NEW k \in T PROVE \E a \in S : f[a] = k
      OBVIOUS
    <3>1. k - 1 \in S /\ f[k - 1] = k
      BY <1>3
    <3> QED
      BY <3>1
  <2> HIDE DEF f, S, T
  <2>4. f \in Bijection(S, T)
    BY <2>1, <2>2, <2>3 DEF Bijection, Injection, Surjection, IsInjective
  <2> QED
    BY <2>4 DEF ExistsBijection
<1>5. IsFiniteSet(S) /\ IsFiniteSet(In(s, g)) /\ Cardinality(In(s, g)) \in Nat
  BY <1>1, FiniteCounts
<1>6. Cardinality(T) = Cardinality(S)
  BY <1>4, <1>5, FS_Bijection
<1>7. Cardinality(T) = IF 1 \in In(s, g) THEN Cardinality(In(s, g)) - 1 ELSE Cardinality(In(s, g))
  BY <1>5, FS_RemoveElement
<1>8. 1 \in In(s, g) <=> GroupOf(Head(s)) = g
  BY <1>1 DEF In
<1> QED
  BY <1>5, <1>6, <1>7, <1>8

LEMMA IntervalCount ==
  ASSUME NEW a \in Nat, NEW n \in Nat
  PROVE  IsFiniteSet(a + 1 .. a + n) /\ Cardinality(a + 1 .. a + n) = n
<1> DEFINE lo == a + 1
           hi == a + n
<1>1. lo \in Int /\ hi \in Int /\ (lo > hi => n = 0) /\ hi - lo + 1 = n
  OBVIOUS
<1> HIDE DEF lo, hi
<1>2. IsFiniteSet(lo..hi) /\ Cardinality(lo..hi) = IF lo > hi THEN 0 ELSE hi - lo + 1
  BY <1>1, FS_Interval
<1>3. IsFiniteSet(lo..hi) /\ Cardinality(lo..hi) = n
  BY <1>1, <1>2
<1> QED
  BY <1>3 DEF lo, hi

\* Pushing a batch.
LEMMA BatchCount ==
  ASSUME NEW g, NEW s \in Seq(Jobs), NEW b \in Seq(Jobs)
  PROVE  /\ (\A k \in 1..Len(b) : GroupOf(b[k]) # g) => In(s \o b, g) = In(s, g)
         /\ (\A k \in 1..Len(b) : GroupOf(b[k]) = g) =>
              Cardinality(In(s \o b, g)) = Cardinality(In(s, g)) + Len(b)
<1>1. /\ Len(s) \in Nat /\ Len(b) \in Nat /\ Len(s \o b) = Len(s) + Len(b)
      /\ \A i \in 1..Len(s) + Len(b) : (s \o b)[i] = IF i <= Len(s) THEN s[i] ELSE b[i - Len(s)]
  BY ConcatProperties, LenProperties
<1>2. ASSUME \A k \in 1..Len(b) : GroupOf(b[k]) # g
      PROVE  In(s \o b, g) = In(s, g)
  BY <1>1, <1>2 DEF In
<1>3. ASSUME \A k \in 1..Len(b) : GroupOf(b[k]) = g
      PROVE  Cardinality(In(s \o b, g)) = Cardinality(In(s, g)) + Len(b)
  <2> DEFINE New == Len(s) + 1 .. Len(s) + Len(b)
  <2>1. In(s \o b, g) = In(s, g) \cup New /\ In(s, g) \cap New = {}
    <3>1. \A i \in 1..Len(s) + Len(b) : i \in In(s \o b, g) <=> i \in In(s, g) \/ i \in New
      <4> SUFFICES ASSUME NEW i \in 1..Len(s) + Len(b)
                   PROVE  i \in In(s \o b, g) <=> i \in In(s, g) \/ i \in New
        OBVIOUS
      <4>1. CASE i <= Len(s)
        BY <1>1, <4>1 DEF In
      <4>2. CASE ~(i <= Len(s))
        <5>1. i - Len(s) \in 1..Len(b) /\ i \in New /\ (s \o b)[i] = b[i - Len(s)]
          BY <1>1, <4>2
        <5> QED
          BY <1>1, <1>3, <5>1 DEF In
      <4> QED
        BY <4>1, <4>2
    <3>2. In(s \o b, g) \subseteq 1..Len(s) + Len(b) /\ In(s, g) \subseteq 1..Len(s)
      BY <1>1 DEF In
    <3> QED
      BY <1>1, <3>1, <3>2
  <2>2. IsFiniteSet(New) /\ Cardinality(New) = Len(b)
    BY <1>1, IntervalCount
  <2>3. IsFiniteSet(In(s, g)) /\ Cardinality(In(s, g)) \in Nat
    BY FiniteCounts
  <2> HIDE DEF New
  <2>4. Cardinality(In(s, g) \cup New) =
          Cardinality(In(s, g)) + Cardinality(New) - Cardinality(In(s, g) \cap New)
    BY <2>2, <2>3, FS_Union
  <2>5. Cardinality(In(s, g) \cap New) = 0
    BY <2>1, FS_EmptySet
  <2>6. Cardinality(In(s \o b, g)) = Cardinality(In(s, g)) + Len(b) - 0
    BY <2>1, <2>2, <2>4, <2>5
  <2> QED
    BY <1>1, <2>3, <2>6
<1> QED
  BY <1>2, <1>3

\* Where no job of a group is pending, none is counted, and the other way round.
LEMMA NoneCounted ==
  ASSUME PInv, NEW g \in CallerGroups
  PROVE  (\A j \in CallerJobs : Pending(j) => GroupOf(j) # g) <=> InQueue(g) = {} /\ InHand(g) = {}
<1>1. \A i \in 1..Len(tasks) : tasks[i] \in Jobs
  BY DEF PInv, Shape
<1>2. \A w \in Workers : Held(w) => job[w] \in Jobs
  BY DEF PInv, Placed, WorkerPlaced, Held
<1>3. \A j \in Jobs : GroupOf(j) = g => j \in CallerJobs
  BY DEF Jobs, EmptyTask, Idle, GroupOf, CallerGroups, Batch
<1> QED
  BY <1>1, <1>2, <1>3 DEF InQueue, In, InHand, Pending

LEMMA CountsZero ==
  ASSUME PInv, NEW g \in CallerGroups, Counted(g), remaining[g] = 0
  PROVE  InQueue(g) = {} /\ InHand(g) = {} /\ Coming(g) = 0
<1>1. IsFiniteSet(InQueue(g)) /\ Cardinality(InQueue(g)) \in Nat
      /\ IsFiniteSet(InHand(g)) /\ Cardinality(InHand(g)) \in Nat
  BY FiniteCounts DEF InQueue, PInv, Shape
<1>2. Coming(g) \in Nat
  BY PoolAssumption DEF Coming
<1>3. Cardinality(InQueue(g)) = 0 /\ Cardinality(InHand(g)) = 0 /\ Coming(g) = 0
  BY <1>1, <1>2 DEF Counted
<1> QED
  BY <1>1, <1>3, FS_EmptySet

(***************************************************************************)
(* Counts, errors and owners, action by action.                            *)
(***************************************************************************)
LEMMA InitF == Init => FInv
<1> SUFFICES ASSUME Init PROVE FInv
  OBVIOUS
<1>1. PInv
  BY InitP
<1>2. ~(\E w \in Workers : Held(w)) /\ \A c \in Callers : at[c] = "idle"
  BY ThreadFacts DEF Init, Held
<1>3. Len(tasks) \in Nat /\ \A i \in 1..Len(tasks) : tasks[i] = EmptyTask
  <2>1. tasks = <<>> \/ tasks = <<EmptyTask>>
    BY DEF Init, EmptyTask
  <2>2. CASE tasks = <<>>
    BY <2>2, EmptySeq
  <2>3. CASE tasks = <<EmptyTask>>
    BY <2>3
  <2> QED
    BY <2>1, <2>2, <2>3
<1>4. EmptyTask.kind \notin Row /\ EmptyTask \notin CallerJobs
  BY DEF EmptyTask, Idle, Row, CallerJobs, Kinds, Batch
<1>5. OwnersWait /\ RowsDistinct
  BY <1>2, <1>3, <1>4 DEF OwnersWait, RowsDistinct, Pending
<1>6. ASSUME NEW g \in CallerGroups PROVE Counted(g) /\ ErrorKnown(g)
  <2>1. InQueue(g) = {} /\ InHand(g) = {}
    BY <1>1, <1>2, <1>3, <1>4, NoneCounted DEF Pending
  <2>2. g[1] \in Callers /\ g \in Groups
    BY <1>6, ThreadFacts DEF CallerGroups
  <2>3. remaining[g] = 0 /\ firstError[g] = NoJob /\ threw[g] = {} /\ Coming(g) = 0
    BY <1>2, <2>2 DEF Init, Coming
  <2> QED
    BY <2>1, <2>3, FS_EmptySet DEF Counted, ErrorKnown
<1> QED
  BY <1>5, <1>6 DEF FInv, GroupsRight

\* A group whose jobs, fields and owner a step does not touch.
LEMMA GroupKept ==
  ASSUME NEW g \in CallerGroups, Counted(g), ErrorKnown(g),
         InQueue(g)' = InQueue(g),
         \A w \in Workers : (Held(w)' <=> Held(w)) /\ (Held(w) => at'[w] = at[w] /\ job'[w] = job[w]),
         remaining'[g] = remaining[g], firstError'[g] = firstError[g], threw'[g] = threw[g],
         Coming(g)' = Coming(g)
  PROVE  Counted(g)' /\ ErrorKnown(g)'
<1>1. InHand(g)' = InHand(g) /\ \A w \in InHand(g) : at'[w] = at[w] /\ job'[w] = job[w]
  BY DEF InHand, GroupOf
<1> QED
  BY <1>1 DEF Counted, ErrorKnown

LEMMA RowsKept ==
  ASSUME RowsDistinct, tasks' = tasks,
         \A w \in Workers : Held(w)' => Held(w) /\ job'[w] = job[w]
  PROVE  RowsDistinct'
BY DEF RowsDistinct

LEMMA OwnerElsewhere ==
  ASSUME NEW c \in Callers, NEW j, j.by = c,
         at'[c] = at[c], cur'[c] = cur[c], frame'[c] = frame[c], fut'[c] = fut[c], OwnerWaits(j)
  PROVE  OwnerWaits(j)'
BY DEF OwnerWaits, RowDue

\* A step of one caller that pushes nothing.
LEMMA CallerF ==
  ASSUME PInv, FInv, NEW c \in Callers, dtor' = dtor, tasks' = tasks,
         \A w \in Workers : (Held(w)' <=> Held(w)) /\ (Held(w) => at'[w] = at[w] /\ job'[w] = job[w]),
         \A d \in Callers : d # c =>
           at'[d] = at[d] /\ cur'[d] = cur[d] /\ frame'[d] = frame[d] /\ fut'[d] = fut[d],
         \A g \in CallerGroups : g[1] # c =>
           /\ remaining'[g] = remaining[g] /\ firstError'[g] = firstError[g]
           /\ threw'[g] = threw[g],
         \A g \in CallerGroups : g[1] = c /\ Live(g)' => Counted(g)' /\ ErrorKnown(g)',
         \A j \in CallerJobs : ~stop /\ Pending(j) /\ j.by = c => OwnerWaits(j)'
  PROVE  FInv'
<1>1. ASSUME NEW g \in CallerGroups, Live(g)', g[1] # c PROVE Counted(g)' /\ ErrorKnown(g)'
  <2>1. g[1] \in Callers
    BY DEF CallerGroups
  <2>2. Live(g) /\ Coming(g)' = Coming(g) /\ InQueue(g)' = InQueue(g)
    BY <1>1, <2>1 DEF Live, Coming, InQueue, stop
  <2>3. Counted(g) /\ ErrorKnown(g)
    BY <2>2 DEF FInv, GroupsRight
  <2> QED
    BY <1>1, <2>2, <2>3, GroupKept
<1>2. ASSUME ~stop' PROVE OwnersWait' /\ RowsDistinct'
  <2>1. ~stop /\ OwnersWait /\ RowsDistinct
    BY <1>2 DEF FInv, stop
  <2>2. ASSUME NEW j \in CallerJobs, Pending(j)' PROVE OwnerWaits(j)'
    <3>1. Pending(j) /\ j.by \in Callers
      BY <2>2 DEF Pending, CallerJobs
    <3>2. OwnerWaits(j)
      BY <2>1, <3>1 DEF OwnersWait
    <3>3. CASE j.by = c
      BY <2>1, <3>1, <3>3
    <3>4. CASE j.by # c
      BY <3>1, <3>2, <3>4, OwnerElsewhere
    <3> QED
      BY <3>3, <3>4
  <2>3. RowsDistinct'
    BY <2>1, RowsKept
  <2> QED
    BY <2>2, <2>3 DEF OwnersWait
<1> QED
  BY <1>1, <1>2 DEF FInv, GroupsRight

LEMMA EnterF ==
  ASSUME PInv, FInv, NEW c \in Callers, Enter(c)
  PROVE  FInv'
<1>1. /\ at[c] = "idle" /\ at'[c] = "body" /\ frame'[c] = frame[c] + 1
      /\ \A t \in Threads : t # c => at'[t] = at[t]
      /\ \A d \in Callers : d # c => frame'[d] = frame[d]
      /\ UNCHANGED <<pool, mutex, runs, fut, cur, job>>
  BY ThreadFacts DEF Enter, Goto, PInv, Shape
<1> DEFINE s == <<c, "stage">>
<1>2. /\ remaining'[s] = 0 /\ firstError'[s] = NoJob /\ threw'[s] = {}
      /\ \A g \in CallerGroups : g # s =>
           /\ remaining'[g] = remaining[g] /\ firstError'[g] = firstError[g]
           /\ threw'[g] = threw[g]
  BY ThreadFacts DEF Enter, PInv, Shape
<1>3. \A w \in Workers : (Held(w)' <=> Held(w)) /\ (Held(w) => at'[w] = at[w] /\ job'[w] = job[w])
  BY <1>1, ThreadFacts DEF Held
<1>4. ASSUME NEW g \in CallerGroups, g[1] = c, Live(g)' PROVE Counted(g)' /\ ErrorKnown(g)'
  <2>1. ~stop /\ Live(g) /\ Coming(g)' = 0 /\ Coming(g) = 0
    BY <1>1, <1>4 DEF Live, Coming, pool, stop
  <2>2. Counted(g) /\ ErrorKnown(g) /\ OwnersWait
    BY <2>1 DEF FInv, GroupsRight
  <2>3. CASE g = s
    <3>1. \A j \in CallerJobs : Pending(j) => GroupOf(j) # g
      BY <1>1, <2>2, <2>3 DEF OwnersWait, OwnerWaits, GroupOf
    <3>2. InQueue(g) = {} /\ InHand(g) = {}
      BY <3>1, NoneCounted
    <3>3. InQueue(g)' = {} /\ InHand(g)' = {}
      BY <1>1, <1>3, <3>2 DEF InQueue, InHand, pool
    <3> QED
      BY <1>2, <2>1, <2>3, <3>3, FS_EmptySet DEF Counted, ErrorKnown
  <2>4. CASE g # s
    <3>1. InQueue(g)' = InQueue(g)
      BY <1>1 DEF InQueue, pool
    <3> QED
      BY <1>2, <1>3, <2>1, <2>2, <2>4, <3>1, GroupKept
  <2> QED
    BY <2>3, <2>4
<1>5. ASSUME NEW j \in CallerJobs, ~stop, Pending(j), j.by = c PROVE OwnerWaits(j)'
  <2>1. OwnerWaits(j) /\ frame[c] \in Nat /\ j.frame \in Nat /\ j.kind \in Kinds
    BY <1>5, PoolAssumption DEF FInv, OwnersWait, PInv, Shape, CallerJobs
  <2>2. j.kind = "get" /\ j.frame <= frame[c]
    BY <1>1, <1>5, <2>1 DEF OwnerWaits, RowDue, Kinds, Batch, Row
  <2>3. j.frame < frame'[c]
    BY <1>1, <2>1, <2>2
  <2> QED
    BY <1>1, <1>5, <2>1, <2>2, <2>3 DEF OwnerWaits
<1>6. \A g \in CallerGroups : g[1] # c => g # s
  OBVIOUS
<1> QED
  BY <1>1, <1>2, <1>3, <1>4, <1>5, <1>6, ThreadFacts, CallerF DEF pool

LEMMA LeaveF ==
  ASSUME PInv, FInv, NEW c \in Callers, Leave(c)
  PROVE  FInv'
<1>1. /\ at[c] = "body" /\ at'[c] = "idle" /\ \A t \in Threads : t # c => at'[t] = at[t]
      /\ UNCHANGED <<tasks, dtor, remaining, firstError, threw, frame, fut, cur, job>>
  BY ThreadFacts DEF Leave, Goto, PInv, Shape, pool, group, caller
<1>2. \A w \in Workers : (Held(w)' <=> Held(w)) /\ (Held(w) => at'[w] = at[w] /\ job'[w] = job[w])
  BY <1>1, ThreadFacts DEF Held
<1>3. ASSUME NEW g \in CallerGroups, g[1] = c, Live(g)' PROVE Counted(g)' /\ ErrorKnown(g)'
  <2>1. Live(g) /\ Coming(g)' = Coming(g) /\ InQueue(g)' = InQueue(g)
    BY <1>1, <1>3 DEF Live, Coming, stop, InQueue
  <2> QED
    BY <1>1, <1>2, <2>1, GroupKept DEF FInv, GroupsRight
<1>4. ASSUME NEW j \in CallerJobs, ~stop, Pending(j), j.by = c PROVE OwnerWaits(j)'
  BY <1>1, <1>4 DEF FInv, OwnersWait, OwnerWaits, RowDue
<1> QED
  BY <1>1, <1>2, <1>3, <1>4, ThreadFacts, CallerF

LEMMA ExpectF ==
  ASSUME PInv, FInv, NEW c \in Callers, NEW kind \in Batch, Expect(c, kind),
         at[c] \in {"body", "fired"}, kind = "product" => at[c] = "fired"
  PROVE  FInv'
<1>1. /\ at'[c] = "push" /\ cur'[c] = kind
      /\ \A t \in Threads : t # c => at'[t] = at[t] /\ cur'[t] = cur[t]
      /\ UNCHANGED <<tasks, dtor, firstError, threw, frame, fut, job>>
  BY ThreadFacts DEF Expect, Goto, PInv, Shape, pool
<1> DEFINE s == <<c, kind>>
<1>2. /\ remaining'[s] = remaining[s] + Count /\ remaining[s] \in Int
      /\ \A g \in CallerGroups : g # s => remaining'[g] = remaining[g]
  BY ThreadFacts DEF Expect, PInv, Shape, Batch
<1>3. \A w \in Workers : (Held(w)' <=> Held(w)) /\ (Held(w) => at'[w] = at[w] /\ job'[w] = job[w])
  BY <1>1, ThreadFacts DEF Held
<1>4. ASSUME NEW g \in CallerGroups, g[1] = c, Live(g)' PROVE Counted(g)' /\ ErrorKnown(g)'
  <2>1. /\ Live(g) /\ Coming(g) = 0 /\ Coming(g)' = (IF g = s THEN Count ELSE 0)
        /\ InQueue(g)' = InQueue(g) /\ g \in Groups
    BY <1>1, <1>4, ThreadFacts DEF Live, Coming, stop, InQueue, CallerGroups
  <2>2. Counted(g) /\ ErrorKnown(g)
    BY <2>1 DEF FInv, GroupsRight
  <2>3. CASE g # s
    BY <1>1, <1>2, <1>3, <2>1, <2>2, <2>3, GroupKept
  <2>4. CASE g = s
    <3>1. InHand(g)' = InHand(g) /\ \A w \in InHand(g) : at'[w] = at[w] /\ job'[w] = job[w]
      BY <1>3 DEF InHand, GroupOf
    <3>2. Cardinality(InQueue(g)) \in Nat /\ Cardinality(InHand(g)) \in Nat /\ Count \in Nat
      BY FiniteCounts, PoolAssumption DEF InQueue, PInv, Shape
    <3>3. Counted(g)'
      BY <1>2, <2>1, <2>2, <2>4, <3>1, <3>2 DEF Counted
    <3>4. ErrorKnown(g)'
      BY <1>1, <2>2, <3>1 DEF ErrorKnown
    <3> QED
      BY <3>3, <3>4
  <2> QED
    BY <2>3, <2>4
<1>5. ASSUME NEW j \in CallerJobs, ~stop, Pending(j), j.by = c PROVE OwnerWaits(j)'
  <2>1. OwnerWaits(j)
    BY <1>5 DEF FInv, OwnersWait
  <2> QED
    BY <1>1, <1>5, <2>1 DEF OwnerWaits, RowDue
<1>6. \A g \in CallerGroups : g[1] # c => g # s
  OBVIOUS
<1> QED
  BY <1>1, <1>2, <1>3, <1>4, <1>5, <1>6, ThreadFacts, CallerF

LEMMA NotifyOneF ==
  ASSUME PInv, FInv, NEW c \in Callers, NotifyOne(c)
  PROVE  FInv'
<1> DEFINE next == IF toNotify[c] = 1 THEN AfterNotify(c) ELSE "notify"
<1>1. /\ UNCHANGED <<tasks, dtor, remaining, firstError, threw, frame, fut, cur, job>>
      /\ at[c] = "notify"
  BY DEF NotifyOne, group, caller
<1>2. /\ next \in {"notify", "fired", "wait", "collect"}
      /\ (next = "fired" => cur[c] = "stage") /\ (next = "wait" => cur[c] = "product")
      /\ (next = "collect" => cur[c] \notin Batch)
  BY DEF AfterNotify, Batch
<1> HIDE DEF next
<1>3. /\ at'[c] = next
      /\ \A t \in Threads : t # c =>
           at'[t] = at[t] \/ (at[t] = "sleeping" /\ at'[t] = "idle" /\ t \in Workers)
  <2>1. \/ at' = [at EXCEPT ![c] = next]
        \/ \E w \in Sleeping : at' = [at EXCEPT ![c] = next, ![w] = "idle"]
    BY Zenon DEF NotifyOne, Goto, next
  <2> QED
    BY <2>1, ThreadFacts DEF PInv, Shape, Sleeping
<1>4. \A w \in Workers : (Held(w)' <=> Held(w)) /\ (Held(w) => at'[w] = at[w] /\ job'[w] = job[w])
  BY <1>1, <1>3, ThreadFacts DEF Held
<1>5. ASSUME NEW g \in CallerGroups, g[1] = c, Live(g)' PROVE Counted(g)' /\ ErrorKnown(g)'
  <2>1. Live(g) /\ Coming(g)' = Coming(g) /\ InQueue(g)' = InQueue(g)
    BY <1>1, <1>2, <1>3, <1>5 DEF Live, Coming, stop, InQueue, Batch
  <2> QED
    BY <1>1, <1>4, <2>1, GroupKept DEF FInv, GroupsRight
<1>6. ASSUME NEW j \in CallerJobs, ~stop, Pending(j), j.by = c PROVE OwnerWaits(j)'
  <2>1. OwnerWaits(j)
    BY <1>6 DEF FInv, OwnersWait
  <2> QED
    BY <1>1, <1>2, <1>3, <1>6, <2>1 DEF OwnerWaits, RowDue, Batch
<1>7. \A d \in Callers : d # c => at'[d] = at[d]
  BY <1>3, ThreadFacts
<1> QED
  BY <1>1, <1>4, <1>5, <1>6, <1>7, CallerF

LEMMA StartWaitF ==
  ASSUME PInv, FInv, NEW c \in Callers, StartWait(c)
  PROVE  FInv'
<1>1. /\ at[c] \in {"fired", "joining"} /\ at'[c] = "wait" /\ cur'[c] = "stage"
      /\ \A t \in Threads : t # c => at'[t] = at[t] /\ cur'[t] = cur[t]
      /\ UNCHANGED <<tasks, dtor, remaining, firstError, threw, frame, fut, job>>
  BY ThreadFacts DEF StartWait, Goto, PInv, Shape, pool, group, caller
<1>2. \A w \in Workers : (Held(w)' <=> Held(w)) /\ (Held(w) => at'[w] = at[w] /\ job'[w] = job[w])
  BY <1>1, ThreadFacts DEF Held
<1>3. ASSUME NEW g \in CallerGroups, g[1] = c, Live(g)' PROVE Counted(g)' /\ ErrorKnown(g)'
  <2>1. Live(g) /\ Coming(g)' = Coming(g) /\ InQueue(g)' = InQueue(g)
    BY <1>1, <1>3 DEF Live, Coming, stop, InQueue
  <2> QED
    BY <1>1, <1>2, <2>1, GroupKept DEF FInv, GroupsRight
<1>4. ASSUME NEW j \in CallerJobs, ~stop, Pending(j), j.by = c PROVE OwnerWaits(j)'
  BY <1>1, <1>4 DEF FInv, OwnersWait, OwnerWaits, RowDue
<1> QED
  BY <1>1, <1>2, <1>3, <1>4, ThreadFacts, CallerF

\* A wait() that returns leaves no job of its group behind.
LEMMA WaitReturnDone ==
  ASSUME PInv, FInv, NEW c \in Callers, WaitReturn(c)
  PROVE  LET g == Waiting(c)
         IN /\ g \in CallerGroups /\ remaining[g] = 0
            /\ InQueue(g) = {} /\ InHand(g) = {} /\ Coming(g) = 0
            /\ \A j \in CallerJobs : Pending(j) => GroupOf(j) # g
            /\ IF firstError[g] = NoJob THEN threw[g] = {} ELSE firstError[g] \in threw[g]
            /\ g[2] = "product" => firstError[g] = NoJob
<1> DEFINE g == Waiting(c)
<1>1. at[c] = "wait" /\ remaining[g] = 0 /\ cur[c] \in Batch
  BY DEF WaitReturn, Done, PInv, Placed, CallerPlaced
<1>2. g \in CallerGroups /\ g[1] = c /\ g[2] = cur[c]
  BY <1>1 DEF Waiting, CallerGroups
<1>3. Live(g)
  BY <1>1, <1>2 DEF Live, Batch
<1>4. Counted(g) /\ ErrorKnown(g)
  BY <1>2, <1>3 DEF FInv, GroupsRight
<1> HIDE DEF g
<1>5. InQueue(g) = {} /\ InHand(g) = {} /\ Coming(g) = 0
  BY <1>1, <1>2, <1>4, CountsZero
<1>6. \A j \in CallerJobs : Pending(j) => GroupOf(j) # g
  BY <1>2, <1>5, NoneCounted
<1>7. IF firstError[g] = NoJob THEN threw[g] = {} ELSE firstError[g] \in threw[g]
  BY <1>4, <1>5 DEF ErrorKnown
<1>8. g[2] = "product" => firstError[g] = NoJob
  BY <1>4 DEF ErrorKnown
<1> QED
  BY <1>1, <1>2, <1>5, <1>6, <1>7, <1>8 DEF g

LEMMA WaitReturnF ==
  ASSUME PInv, FInv, NEW c \in Callers, WaitReturn(c)
  PROVE  FInv'
<1> DEFINE s == Waiting(c)
<1>1. /\ s \in CallerGroups /\ s = <<c, cur[c]>> /\ cur[c] \in Batch /\ remaining[s] = 0
      /\ InQueue(s) = {} /\ InHand(s) = {} /\ Coming(s) = 0
      /\ \A j \in CallerJobs : Pending(j) => GroupOf(j) # s
      /\ cur[c] = "product" => firstError[s] = NoJob
  BY WaitReturnDone DEF Waiting, CallerGroups
<1>2. /\ at[c] = "wait" /\ at'[c] \in {"idle", "body", "joining"}
      /\ (at'[c] = "joining" <=> cur[c] = "product")
      /\ \A t \in Threads : t # c => at'[t] = at[t]
      /\ \A d \in Callers : d # c => fut'[d] = fut[d]
      /\ firstError' = [firstError EXCEPT ![s] = NoJob] /\ threw' = [threw EXCEPT ![s] = {}]
      /\ UNCHANGED <<tasks, dtor, remaining, frame, cur, job>>
  BY <1>1, ThreadFacts DEF WaitReturn, Throw, Goto, PInv, Shape, pool, Batch
<1> HIDE DEF s
<1>3. \A w \in Workers : (Held(w)' <=> Held(w)) /\ (Held(w) => at'[w] = at[w] /\ job'[w] = job[w])
  BY <1>2, ThreadFacts DEF Held
<1>4. /\ firstError'[s] = NoJob /\ threw'[s] = {}
      /\ \A g \in CallerGroups : g # s => firstError'[g] = firstError[g] /\ threw'[g] = threw[g]
  BY <1>1, <1>2, ThreadFacts DEF PInv, Shape
<1>5. ASSUME NEW g \in CallerGroups, g[1] = c, Live(g)' PROVE Counted(g)' /\ ErrorKnown(g)'
  <2>1. InQueue(g)' = InQueue(g) /\ Coming(g) = 0 /\ Coming(g)' = 0
    BY <1>2, <1>5 DEF InQueue, Coming
  <2>2. CASE g = s
    <3>1. InHand(g)' = {}
      BY <1>1, <1>3, <2>2 DEF InHand, GroupOf
    <3>2. InQueue(g)' = {} /\ remaining'[g] = 0 /\ firstError'[g] = NoJob /\ threw'[g] = {}
      BY <1>1, <1>2, <1>4, <2>1, <2>2
    <3> QED
      BY <2>1, <3>1, <3>2, FS_EmptySet DEF Counted, ErrorKnown
  <2>3. CASE g # s
    <3>1. Live(g)
      BY <1>2, <1>5 DEF Live, stop
    <3> QED
      BY <1>2, <1>3, <1>4, <2>1, <2>3, <3>1, GroupKept DEF FInv, GroupsRight
  <2> QED
    BY <2>2, <2>3
<1>6. ASSUME NEW j \in CallerJobs, ~stop, Pending(j), j.by = c PROVE OwnerWaits(j)'
  <2>1. OwnerWaits(j) /\ GroupOf(j) # s
    BY <1>1, <1>6 DEF FInv, OwnersWait
  <2>2. j.kind # cur[c]
    BY <1>1, <1>6, <2>1 DEF GroupOf
  <2> QED
    BY <1>1, <1>2, <1>6, <2>1, <2>2 DEF OwnerWaits, RowDue, Batch
<1>7. \A g \in CallerGroups : g[1] # c => g # s
  BY <1>1
<1> QED
  BY <1>2, <1>3, <1>4, <1>5, <1>6, <1>7, ThreadFacts, CallerF

LEMMA CollectF ==
  ASSUME PInv, FInv, NEW c \in Callers, Collect(c)
  PROVE  FInv'
<1>1. /\ at[c] = "collect" /\ at'[c] \in {"idle", "body"} /\ cur[c] \in Row
      /\ \A t \in Threads : t # c => at'[t] = at[t]
      /\ \A d \in Callers : d # c => fut'[d] = fut[d]
      /\ UNCHANGED <<tasks, dtor, remaining, firstError, threw, frame, cur, job>>
  BY ThreadFacts DEF Collect, Goto, PInv, Shape, Placed, CallerPlaced, pool, group
<1>2. \A w \in Workers : (Held(w)' <=> Held(w)) /\ (Held(w) => at'[w] = at[w] /\ job'[w] = job[w])
  BY <1>1, ThreadFacts DEF Held
<1>3. (\E k \in 1..Len(fut[c]) : fut[c][k] = "pending") => at'[c] = "idle" /\ cur[c] = "get"
  <2> DEFINE open == {k \in 1..Count : fut[c][k] = "pending"}
             fails == \E k \in {k \in 1..Count : fut[c][k] = "error"} : \A o \in open : k < o
             throws == cur[c] = "get" /\ fails
  <2>1. Len(fut[c]) = Count /\ (throws \/ open = {})
        /\ at' = [at EXCEPT ![c] = IF throws THEN "idle" ELSE "body"]
    BY Zenon DEF Collect, Goto
  <2> HIDE DEF fails
  <2>2. throws => at'[c] = "idle"
    BY <2>1, ThreadFacts DEF PInv, Shape
  <2> QED
    BY <2>1, <2>2
<1>4. ASSUME NEW g \in CallerGroups, g[1] = c, Live(g)' PROVE Counted(g)' /\ ErrorKnown(g)'
  <2>1. Live(g) /\ Coming(g)' = Coming(g) /\ InQueue(g)' = InQueue(g)
    BY <1>1, <1>4 DEF Live, Coming, stop, InQueue
  <2> QED
    BY <1>1, <1>2, <2>1, GroupKept DEF FInv, GroupsRight
<1>5. ASSUME NEW j \in CallerJobs, ~stop, Pending(j), j.by = c PROVE OwnerWaits(j)'
  <2>1. OwnerWaits(j)
    BY <1>5 DEF FInv, OwnersWait
  <2>2. RowDue(j) => at'[c] = "idle" /\ cur[c] = "get" /\ j.kind = "get"
    BY <1>3, <1>5 DEF RowDue
  <2>3. j.kind \notin {"stage", "product", "wait"} /\ j.frame <= frame[c]
    BY <1>1, <1>5, <2>1, <2>2 DEF OwnerWaits, Row
  <2>4. j.frame = frame[c] => at'[c] = "idle"
    BY <1>1, <1>5, <2>1, <2>2, <2>3 DEF OwnerWaits, CallerJobs, Kinds, Batch, Row
  <2> QED
    BY <1>1, <1>5, <2>3, <2>4 DEF OwnerWaits
<1> QED
  BY <1>1, <1>2, <1>4, <1>5, ThreadFacts, CallerF

\* Steps that move threads only between waiting and waiting, or stop the pool.
LEMMA StillF ==
  ASSUME PInv, FInv, stop => stop', UNCHANGED <<tasks, remaining, firstError, threw>>,
         \A c \in Callers :
           /\ cur'[c] = cur[c] /\ frame'[c] = frame[c] /\ fut'[c] = fut[c]
           /\ \/ at'[c] = at[c]
              \/ /\ at[c] \in {"wait", "blocking", "asleep"}
                 /\ at'[c] \in {"wait", "blocking", "asleep"},
         \A w \in Workers : (Held(w)' <=> Held(w)) /\ (Held(w) => at'[w] = at[w] /\ job'[w] = job[w])
  PROVE  FInv'
<1>1. ASSUME NEW g \in CallerGroups, Live(g)' PROVE Counted(g)' /\ ErrorKnown(g)'
  <2>1. g[1] \in Callers
    BY DEF CallerGroups
  <2>2. Live(g) /\ Coming(g)' = Coming(g) /\ InQueue(g)' = InQueue(g)
    BY <1>1, <2>1 DEF Live, Coming, InQueue
  <2> QED
    BY <2>2, GroupKept DEF FInv, GroupsRight
<1>2. ASSUME ~stop' PROVE OwnersWait' /\ RowsDistinct'
  <2>1. OwnersWait /\ RowsDistinct
    BY <1>2 DEF FInv
  <2>2. ASSUME NEW j \in CallerJobs, Pending(j)' PROVE OwnerWaits(j)'
    <3>1. OwnerWaits(j) /\ j.by \in Callers
      BY <2>1, <2>2 DEF OwnersWait, Pending, CallerJobs
    <3> QED
      BY <3>1 DEF OwnerWaits, RowDue
  <2> QED
    BY <2>1, <2>2, RowsKept DEF OwnersWait
<1> QED
  BY <1>1, <1>2 DEF FInv, GroupsRight

LEMMA WaitsF ==
  ASSUME PInv, FInv, NEW c \in Callers, WaitLoad(c) \/ WaitBlock(c)
  PROVE  FInv'
<1>1. /\ at[c] \in {"wait", "blocking"} /\ at'[c] \in {"blocking", "asleep"}
      /\ \A t \in Threads : t # c => at'[t] = at[t]
      /\ UNCHANGED <<tasks, dtor, remaining, firstError, threw, frame, fut, cur, job>>
  BY ThreadFacts DEF WaitLoad, WaitBlock, Goto, PInv, Shape, pool, caller
<1>2. \A w \in Workers : (Held(w)' <=> Held(w)) /\ (Held(w) => at'[w] = at[w] /\ job'[w] = job[w])
  BY <1>1, ThreadFacts DEF Held
<1> QED
  BY <1>1, <1>2, ThreadFacts, StillF DEF stop

LEMMA SpuriousWakeupF ==
  ASSUME PInv, FInv, NEW t \in Threads, SpuriousWakeup(t)
  PROVE  FInv'
<1>1. /\ (at[t] = "asleep" /\ at'[t] = "wait") \/ (at[t] = "sleeping" /\ at'[t] = "idle")
      /\ \A u \in Threads : u # t => at'[u] = at[u]
      /\ UNCHANGED <<tasks, dtor, remaining, firstError, threw, frame, fut, cur, job>>
  BY ThreadFacts DEF SpuriousWakeup, Goto, PInv, Shape, pool, group, caller
<1>2. \A w \in Workers : (Held(w)' <=> Held(w)) /\ (Held(w) => at'[w] = at[w] /\ job'[w] = job[w])
  BY <1>1, ThreadFacts DEF Held
<1>3. \A c \in Callers : at[c] # "sleeping"
  BY DEF PInv, Placed, CallerPlaced, CallerPlaces
<1> QED
  BY <1>1, <1>2, <1>3, ThreadFacts, StillF DEF stop

LEMMA SignalF ==
  ASSUME PInv, FInv, NEW w \in Workers, Signal(w)
  PROVE  FInv'
<1>1. /\ at[w] = "signal" /\ at'[w] = "idle"
      /\ \A t \in Threads : t # w => at'[t] = at[t] \/ (at[t] = "asleep" /\ at'[t] = "wait")
      /\ \A v \in Workers : v # w => job'[v] = job[v]
      /\ UNCHANGED <<tasks, dtor, remaining, firstError, threw, frame, fut, cur>>
  BY ThreadFacts DEF Signal, PInv, Shape, pool, group, caller
<1>2. \A v \in Workers : (Held(v)' <=> Held(v)) /\ (Held(v) => at'[v] = at[v] /\ job'[v] = job[v])
  BY <1>1, ThreadFacts DEF Held
<1> QED
  BY <1>1, <1>2, ThreadFacts, StillF DEF stop

LEMMA DestroyF ==
  ASSUME PInv, FInv, Destroy
  PROVE  FInv'
<1>1. /\ dtor' # "alive"
      /\ \A t \in Threads : at'[t] = at[t] \/ (at[t] = "sleeping" /\ at'[t] = "idle")
      /\ UNCHANGED <<tasks, remaining, firstError, threw, frame, fut, cur, job>>
  BY ThreadFacts DEF Destroy, SetStop, NotifyAll, Join, Sleeping, PInv, Shape, group, caller
<1>2. \A w \in Workers : (Held(w)' <=> Held(w)) /\ (Held(w) => at'[w] = at[w] /\ job'[w] = job[w])
  BY <1>1, ThreadFacts DEF Held
<1>3. \A c \in Callers : at[c] # "sleeping"
  BY DEF PInv, Placed, CallerPlaced, CallerPlaces
<1> QED
  BY <1>1, <1>2, <1>3, ThreadFacts, StillF DEF stop

LEMMA StutterF ==
  ASSUME PInv, FInv, UNCHANGED vars
  PROVE  FInv'
<1>1. UNCHANGED <<tasks, dtor, remaining, firstError, threw, frame, fut, at, cur, job>>
  BY DEF vars, pool, group, caller
<1>2. \A w \in Workers : (Held(w)' <=> Held(w)) /\ (Held(w) => at'[w] = at[w] /\ job'[w] = job[w])
  BY <1>1 DEF Held
<1> QED
  BY <1>1, <1>2, StillF DEF stop

LEMMA PushJobsF ==
  ASSUME PInv, FInv, NEW c \in Callers, PushJobs(c)
  PROVE  FInv'
<1>1. /\ at[c] = "push" /\ cur[c] \in Batch /\ at'[c] = (IF stop THEN "idle" ELSE "notify")
      /\ \A t \in Threads : t # c => at'[t] = at[t]
      /\ \A d \in Callers : d # c => fut'[d] = fut[d]
      /\ UNCHANGED <<dtor, remaining, firstError, threw, frame, cur, job>>
  BY ThreadFacts DEF PushJobs, Throw, Goto, PInv, Shape, Placed, CallerPlaced, group
<1>2. \A w \in Workers : (Held(w)' <=> Held(w)) /\ (Held(w) => at'[w] = at[w] /\ job'[w] = job[w])
  BY <1>1, ThreadFacts DEF Held
<1>3. CASE stop
  <2>1. tasks' = tasks
    BY <1>3 DEF PushJobs
  <2>2. \A g \in CallerGroups : g[1] = c => ~Live(g)'
    BY <1>1, <1>3 DEF Live, stop
  <2> QED
    BY <1>1, <1>2, <1>3, <2>1, <2>2, ThreadFacts, CallerF
<1>4. CASE ~stop
  <2> DEFINE b == [k \in 1..Count |-> Job(cur[c], c, k)]
             s == <<c, cur[c]>>
  <2>1. /\ b \in Seq(Jobs) /\ Len(b) = Count /\ Count \in Nat
        /\ \A k \in 1..Len(b) :
             /\ b[k] \in CallerJobs /\ b[k].kind = cur[c] /\ b[k].by = c /\ b[k].frame = frame[c]
             /\ GroupOf(b[k]) = s
    <3>1. Count \in Nat
      BY PoolAssumption
    <3>2. \A k \in 1..Count : Job(cur[c], c, k) \in CallerJobs
      BY <1>1, ThreadFacts DEF PInv, Shape, Job, CallerJobs
    <3>3. b \in [1..Count -> Jobs]
      BY <3>2 DEF Jobs
    <3>4. b \in Seq(Jobs) /\ Len(b) = Count
      BY <3>1, <3>3, LenProperties
    <3>5. \A k \in 1..Count : b[k] = Job(cur[c], c, k)
      OBVIOUS
    <3> HIDE DEF b
    <3> QED
      BY <3>1, <3>2, <3>4, <3>5, ThreadFacts DEF Job, GroupOf
  <2>2. tasks' = tasks \o b /\ tasks \in Seq(Jobs) /\ Len(tasks) \in Nat /\ fut' = fut
    BY <1>4, LenProperties DEF PushJobs, PInv, Shape
  <2> HIDE DEF b
  <2>3. /\ Len(tasks') \in Nat /\ Len(tasks') = Len(tasks) + Count
        /\ \A i \in 1..Len(tasks) : i \in 1..Len(tasks') /\ tasks'[i] = tasks[i]
        /\ \A i \in 1..Len(tasks') :
             \/ i \in 1..Len(tasks) /\ tasks'[i] = tasks[i]
             \/ i - Len(tasks) \in 1..Len(b) /\ tasks'[i] = b[i - Len(tasks)]
    <3>1. /\ Len(tasks') = Len(tasks) + Count
          /\ \A i \in 1..Len(tasks) + Count :
               tasks'[i] = IF i <= Len(tasks) THEN tasks[i] ELSE b[i - Len(tasks)]
      BY <2>1, <2>2, ConcatProperties
    <3> QED
      BY <2>1, <2>2, <3>1
  <2>4. OwnersWait /\ RowsDistinct /\ at'[c] = "notify"
    BY <1>1, <1>4 DEF FInv
  <2>5. ASSUME NEW g \in CallerGroups PROVE Counted(g)' /\ ErrorKnown(g)'
    <3>1. Counted(g) /\ ErrorKnown(g) /\ g[1] \in Callers /\ g = <<g[1], g[2]>>
      BY <1>4 DEF FInv, GroupsRight, Live, CallerGroups
    <3>2. CASE g # s
      <4>1. InQueue(g)' = InQueue(g)
        BY <2>1, <2>2, <3>2, BatchCount DEF InQueue
      <4>2. Coming(g)' = Coming(g)
        BY <1>1, <2>4, <3>1, <3>2, ThreadFacts DEF Coming
      <4> QED
        BY <1>1, <1>2, <3>1, <4>1, <4>2, GroupKept
    <3>3. CASE g = s
      <4>1. InHand(g)' = InHand(g) /\ \A w \in InHand(g) : at'[w] = at[w] /\ job'[w] = job[w]
        BY <1>2 DEF InHand, GroupOf
      <4>2. Cardinality(InQueue(g))' = Cardinality(InQueue(g)) + Count
        BY <2>1, <2>2, <3>3, BatchCount DEF InQueue
      <4>3. Coming(g) = Count /\ Coming(g)' = 0
        BY <1>1, <2>4, <3>3 DEF Coming
      <4>4. Cardinality(InQueue(g)) \in Nat /\ Cardinality(InHand(g)) \in Nat
        BY FiniteCounts DEF InQueue, PInv, Shape
      <4>5. Counted(g)'
        BY <1>1, <2>1, <3>1, <4>1, <4>2, <4>3, <4>4 DEF Counted
      <4>6. ErrorKnown(g)'
        BY <1>1, <3>1, <4>1 DEF ErrorKnown
      <4> QED
        BY <4>5, <4>6
    <3> QED
      BY <3>2, <3>3
  <2>6. ASSUME NEW j \in CallerJobs, Pending(j)' PROVE OwnerWaits(j)'
    <3>1. CASE Pending(j)
      <4>1. OwnerWaits(j) /\ j.by \in Callers
        BY <2>4, <3>1 DEF OwnersWait, CallerJobs
      <4>2. CASE j.by # c
        BY <1>1, <2>2, <4>1, <4>2, ThreadFacts, OwnerElsewhere
      <4>3. CASE j.by = c
        BY <1>1, <2>2, <2>4, <4>1, <4>3 DEF OwnerWaits, RowDue
      <4> QED
        BY <4>2, <4>3
    <3>2. CASE j.kind = cur[c] /\ j.by = c /\ j.frame = frame[c]
      <4>1. frame[c] \in Nat
        BY PoolAssumption DEF PInv, Shape
      <4> QED
        BY <1>1, <2>4, <3>2, <4>1 DEF OwnerWaits, Batch
    <3>3. (\E i \in 1..Len(tasks') : tasks'[i] = j) \/ (\E w \in Workers : Held(w) /\ job[w] = j)
      BY <1>2, <2>6 DEF Pending
    <3>4. Pending(j) \/ \E k \in 1..Len(b) : b[k] = j
      BY <2>3, <3>3 DEF Pending
    <3>5. CASE \E k \in 1..Len(b) : b[k] = j
      BY <2>1, <3>2, <3>5
    <3> QED
      BY <3>1, <3>4, <3>5
  <2>7. RowsDistinct'
    <3>1. \A k \in 1..Len(b) : b[k].kind \notin Row
      BY <1>1, <2>1 DEF Batch, Row
    <3>2. ASSUME NEW i \in 1..Len(tasks'), NEW k \in 1..Len(tasks'), i # k, tasks'[i].kind \in Row
          PROVE  tasks'[i] # tasks'[k]
      BY <2>3, <2>4, <3>1, <3>2 DEF RowsDistinct
    <3>3. ASSUME NEW i \in 1..Len(tasks'), NEW w \in Workers, Held(w)', tasks'[i].kind \in Row
          PROVE  tasks'[i] # job'[w]
      BY <1>2, <2>3, <2>4, <3>1, <3>3 DEF RowsDistinct
    <3>4. \A v, w \in Workers : v # w /\ Held(v)' /\ Held(w)' /\ job'[v].kind \in Row => job'[v] # job'[w]
      BY <1>2, <2>4 DEF RowsDistinct
    <3> QED
      BY <3>2, <3>3, <3>4 DEF RowsDistinct
  <2> QED
    BY <2>5, <2>6, <2>7 DEF FInv, GroupsRight, OwnersWait
<1> QED
  BY <1>3, <1>4

LEMMA EnqueueF ==
  ASSUME PInv, FInv, NEW c \in Callers, NEW how \in Row, Enqueue(c, how)
  PROVE  FInv'
<1> DEFINE j == Job(how, c, Len(fut[c]) + 1)
<1>1. /\ at[c] \in {"body", "collect"} /\ (at[c] = "collect" => cur[c] = how)
      /\ at'[c] = (IF stop THEN "idle" ELSE "notify")
      /\ \A t \in Threads : t # c => at'[t] = at[t] /\ cur'[t] = cur[t]
      /\ cur'[c] = how
      /\ \A d \in Callers : d # c => fut'[d] = fut[d]
      /\ tasks' = (IF stop THEN tasks ELSE Append(tasks, j))
      /\ (~stop => fut'[c] = Append(fut[c], "pending"))
      /\ UNCHANGED <<dtor, remaining, firstError, threw, frame, job>>
  BY ThreadFacts DEF Enqueue, Throw, Goto, PInv, Shape, group
<1>2. \A w \in Workers : (Held(w)' <=> Held(w)) /\ (Held(w) => at'[w] = at[w] /\ job'[w] = job[w])
  BY <1>1, ThreadFacts DEF Held
<1>3. CASE stop
  <2>1. \A g \in CallerGroups : g[1] = c => ~Live(g)'
    BY <1>1, <1>3 DEF Live, stop
  <2> QED
    BY <1>1, <1>2, <1>3, <2>1, ThreadFacts, CallerF
<1>4. CASE ~stop
  <2>1. /\ j.kind = how /\ j.by = c /\ j.k = Len(fut[c]) + 1 /\ j.frame = frame[c]
        /\ how \notin Batch
    BY ThreadFacts DEF Job, Row, Batch
  <2> HIDE DEF j
  <2>2. /\ Len(fut[c]) \in Nat /\ Len(fut'[c]) = Len(fut[c]) + 1
        /\ \A k \in 1..Len(fut[c]) : fut'[c][k] = fut[c][k]
        /\ fut'[c][Len(fut[c]) + 1] = "pending"
    <3>1. fut[c] \in Seq({"pending", "ready", "error"})
      BY DEF PInv, Shape
    <3> QED
      BY <1>1, <1>4, <3>1, AppendProperties, LenProperties
  <2>3. /\ Len(tasks) \in Nat /\ Len(tasks') = Len(tasks) + 1 /\ tasks'[Len(tasks) + 1] = j
        /\ \A i \in 1..Len(tasks) : tasks'[i] = tasks[i]
    <3>1. tasks \in Seq(Jobs) /\ tasks' \in Seq(Jobs)
      BY EnqueueP DEF PInv, Shape
    <3> QED
      BY <1>1, <1>4, <3>1, AppendProperties, LenProperties
  <2>4. OwnersWait /\ RowsDistinct /\ at'[c] = "notify"
    BY <1>1, <1>4 DEF FInv
  <2>5. ASSUME NEW g \in CallerGroups PROVE Counted(g)' /\ ErrorKnown(g)'
    <3>1. Counted(g) /\ ErrorKnown(g) /\ g[1] \in Callers /\ g[2] \in Batch
      BY <1>4 DEF FInv, GroupsRight, Live, CallerGroups
    <3>2. GroupOf(j) # g
      BY <2>1, <3>1 DEF GroupOf
    <3>3. InQueue(g)' = InQueue(g)
      BY <2>3, <3>2 DEF InQueue, In
    <3>4. Coming(g)' = Coming(g)
      BY <1>1, <2>4, <3>1, ThreadFacts DEF Coming
    <3> QED
      BY <1>1, <1>2, <3>1, <3>3, <3>4, GroupKept
  <2>6. ASSUME NEW m \in CallerJobs, Pending(m), m.by = c
        PROVE  OwnerWaits(m)' /\ (m.kind \in Row => m # j)
    <3>1. OwnerWaits(m)
      BY <2>4, <2>6 DEF OwnersWait
    <3>2. CASE RowDue(m)
      <4>1. m.k \in 1..Len(fut[c]) /\ cur[c] = m.kind /\ at[c] = "collect"
        BY <1>1, <2>6, <3>2 DEF RowDue
      <4>2. RowDue(m)'
        BY <1>1, <2>2, <2>4, <2>6, <3>2, <4>1 DEF RowDue
      <4>3. m.k # Len(fut[c]) + 1
        BY <2>2, <4>1
      <4> QED
        BY <1>1, <2>1, <2>4, <2>6, <3>1, <4>1, <4>2, <4>3 DEF OwnerWaits
    <3>3. CASE ~RowDue(m)
      <4>1. m.kind \notin {"stage", "product", "wait"} /\ m.frame # frame[c]
        BY <1>1, <2>6, <3>1, <3>3 DEF OwnerWaits, CallerJobs, Kinds, Batch, Row
      <4> QED
        BY <1>1, <2>1, <2>6, <3>1, <4>1 DEF OwnerWaits
    <3> QED
      BY <3>2, <3>3
  <2>7. ASSUME NEW m \in CallerJobs, m = j PROVE OwnerWaits(m)'
    <3>1. frame[c] \in Nat
      BY PoolAssumption DEF PInv, Shape
    <3>2. m.kind = how /\ m.by = c /\ m.k = Len(fut[c]) + 1 /\ m.frame = frame[c]
      BY <2>1, <2>7
    <3>3. m.k \in 1..Len(fut'[c]) /\ fut'[c][m.k] = "pending"
      BY <2>2, <3>2
    <3>4. RowDue(m)'
      BY <1>1, <2>4, <3>2, <3>3 DEF RowDue
    <3>5. m.kind \notin {"stage", "product"} /\ m.frame = frame'[c] /\ frame'[c] \in Nat
      BY <1>1, <3>1, <3>2 DEF Row
    <3> QED
      BY <3>2, <3>4, <3>5 DEF OwnerWaits
  <2>8. ASSUME NEW m \in CallerJobs, Pending(m)' PROVE OwnerWaits(m)'
    <3>1. m.by \in Callers /\ (Pending(m) \/ m = j)
      BY <1>2, <2>3, <2>8 DEF Pending, CallerJobs
    <3>2. CASE m.by # c /\ Pending(m)
      BY <1>1, <2>4, <3>1, <3>2, ThreadFacts, OwnerElsewhere DEF OwnersWait
    <3>3. CASE m.by = c /\ Pending(m)
      BY <2>6, <3>3
    <3>4. CASE m = j
      BY <2>7, <3>4
    <3> QED
      BY <3>1, <3>2, <3>3, <3>4
  <2>9. RowsDistinct'
    <3>1. \A i \in 1..Len(tasks) : tasks[i] # j
      <4> SUFFICES ASSUME NEW i \in 1..Len(tasks), tasks[i] = j PROVE FALSE
        OBVIOUS
      <4>1. j \in Jobs
        BY DEF PInv, Shape
      <4>2. j \in CallerJobs /\ Pending(j)
        BY <2>1, <4>1 DEF Jobs, EmptyTask, Pending, Row, Idle
      <4> QED
        BY <2>1, <2>6, <4>2
    <3>2. \A w \in Workers : Held(w) => job[w] # j
      <4> SUFFICES ASSUME NEW w \in Workers, Held(w), job[w] = j PROVE FALSE
        OBVIOUS
      <4>1. j \in Jobs
        BY DEF PInv, Placed, WorkerPlaced, Held
      <4>2. j \in CallerJobs /\ Pending(j)
        BY <2>1, <4>1 DEF Jobs, EmptyTask, Pending, Row, Idle
      <4> QED
        BY <2>1, <2>6, <4>2
    <3>3. \A i \in 1..Len(tasks') : i \in 1..Len(tasks) \/ i = Len(tasks) + 1
      BY <2>3
    <3>4. ASSUME NEW i \in 1..Len(tasks'), NEW k \in 1..Len(tasks'), i # k, tasks'[i].kind \in Row
          PROVE  tasks'[i] # tasks'[k]
      BY <2>3, <2>4, <3>1, <3>3, <3>4 DEF RowsDistinct
    <3>5. ASSUME NEW i \in 1..Len(tasks'), NEW w \in Workers, Held(w)', tasks'[i].kind \in Row
          PROVE  tasks'[i] # job'[w]
      BY <1>2, <2>3, <2>4, <3>2, <3>3, <3>5 DEF RowsDistinct
    <3>6. \A v, w \in Workers : v # w /\ Held(v)' /\ Held(w)' /\ job'[v].kind \in Row => job'[v] # job'[w]
      BY <1>2, <2>4 DEF RowsDistinct
    <3> QED
      BY <3>4, <3>5, <3>6 DEF RowsDistinct
  <2> QED
    BY <2>5, <2>8, <2>9 DEF FInv, GroupsRight, OwnersWait
<1> QED
  BY <1>3, <1>4

LEMMA TakeF ==
  ASSUME PInv, FInv, NEW w \in Workers, Take(w)
  PROVE  FInv'
<1>1. /\ at[w] = "idle" /\ \A t \in Threads : t # w => at'[t] = at[t]
      /\ \A v \in Workers : v # w => job'[v] = job[v]
      /\ \/ /\ tasks # <<>> /\ at'[w] = "run" /\ tasks' = Tail(tasks)
            /\ job'[w] = Head(tasks)
         \/ at'[w] \in {"exited", "sleeping"} /\ tasks' = tasks
      /\ UNCHANGED <<dtor, remaining, firstError, threw, frame, fut, cur>>
  BY ThreadFacts DEF Take, Exits, Goto, PInv, Shape, group, caller
<1>2. CASE at'[w] \in {"exited", "sleeping"} /\ tasks' = tasks
  <2>1. \A v \in Workers : (Held(v)' <=> Held(v)) /\ (Held(v) => at'[v] = at[v] /\ job'[v] = job[v])
    BY <1>1, <1>2, ThreadFacts DEF Held
  <2> QED
    BY <1>1, <1>2, <2>1, ThreadFacts, StillF DEF stop
<1>3. CASE tasks # <<>> /\ at'[w] = "run" /\ tasks' = Tail(tasks) /\ job'[w] = Head(tasks)
  <2>1. /\ tasks \in Seq(Jobs) /\ Len(tasks) \in Nat \ {0} /\ Len(tasks') = Len(tasks) - 1
        /\ \A i \in 1..Len(tasks') : tasks'[i] = tasks[i + 1]
        /\ job'[w] = tasks[1]
    BY <1>3, HeadTailProperties, LenProperties, EmptySeq DEF PInv, Shape
  <2>2. ~Held(w) /\ Held(w)'
        /\ \A v \in Workers : v # w =>
             (Held(v)' <=> Held(v)) /\ at'[v] = at[v] /\ job'[v] = job[v]
    BY <1>1, <1>3, ThreadFacts DEF Held
  <2>3. \A c \in Callers : at'[c] = at[c]
    BY <1>1, ThreadFacts
  <2>4. ASSUME NEW g \in CallerGroups, Live(g)' PROVE Counted(g)' /\ ErrorKnown(g)'
    <3>1. g[1] \in Callers
      BY DEF CallerGroups
    <3>2. Live(g) /\ Coming(g)' = Coming(g)
      BY <1>1, <2>3, <2>4, <3>1 DEF Live, Coming, stop
    <3>3. Counted(g) /\ ErrorKnown(g)
      BY <3>2 DEF FInv, GroupsRight
    <3>4. /\ IsFiniteSet(InHand(g)) /\ Cardinality(InHand(g)) \in Nat
          /\ Cardinality(InQueue(g)) \in Nat
      BY <2>1, FiniteCounts DEF InQueue
    <3>5. Coming(g) \in Nat
      BY PoolAssumption DEF Coming
    <3>6. CASE GroupOf(tasks[1]) = g
      <4>1. InHand(g)' = InHand(g) \cup {w} /\ w \notin InHand(g)
        BY <2>1, <2>2, <3>6 DEF InHand, GroupOf
      <4>2. Cardinality(InHand(g)') = Cardinality(InHand(g)) + 1
        BY <3>4, <4>1, FS_AddElement
      <4>3. Cardinality(InQueue(g)') = Cardinality(InQueue(g)) - 1
        BY <1>3, <2>1, <3>6, TailCount DEF InQueue
      <4>4. Counted(g)'
        BY <1>1, <3>2, <3>3, <3>4, <3>5, <4>2, <4>3 DEF Counted
      <4>5. \A v \in InHand(g)' : at'[v] = "record" =>
              v \in InHand(g) /\ at[v] = "record" /\ job'[v] = job[v]
        BY <1>3, <2>2, <4>1 DEF InHand
      <4>6. \A v \in InHand(g) : v \in InHand(g)' /\ at'[v] = at[v]
        BY <2>2, <4>1 DEF InHand
      <4>7. ErrorKnown(g)'
        BY <1>1, <3>3, <4>5, <4>6 DEF ErrorKnown
      <4> QED
        BY <4>4, <4>7
    <3>7. CASE GroupOf(tasks[1]) # g
      <4>1. InHand(g)' = InHand(g) /\ w \notin InHand(g)
        BY <2>1, <2>2, <3>7 DEF InHand, GroupOf
      <4>2. Cardinality(InQueue(g)') = Cardinality(InQueue(g))
        BY <1>3, <2>1, <3>4, <3>7, TailCount DEF InQueue
      <4>3. Counted(g)'
        BY <1>1, <3>2, <3>3, <4>1, <4>2 DEF Counted
      <4>4. \A v \in InHand(g) : at'[v] = at[v] /\ job'[v] = job[v]
        BY <2>2, <4>1 DEF InHand
      <4>5. ErrorKnown(g)'
        BY <1>1, <3>3, <4>1, <4>4 DEF ErrorKnown
      <4> QED
        BY <4>3, <4>5
    <3> QED
      BY <3>6, <3>7
  <2>5. ASSUME ~stop' PROVE OwnersWait' /\ RowsDistinct'
    <3>1. OwnersWait /\ RowsDistinct
      BY <1>1, <2>5 DEF FInv, stop
    <3>2. /\ 1 \in 1..Len(tasks)
          /\ \A i \in 1..Len(tasks') : i + 1 \in 1..Len(tasks) /\ i + 1 # 1
      BY <2>1
    <3>3. ASSUME NEW j \in CallerJobs, Pending(j)' PROVE OwnerWaits(j)'
      <4>1. Pending(j)
        BY <2>1, <2>2, <3>2, <3>3 DEF Pending
      <4>2. OwnerWaits(j) /\ j.by \in Callers
        BY <3>1, <4>1 DEF OwnersWait, CallerJobs
      <4> QED
        BY <1>1, <2>3, <4>2, OwnerElsewhere
    <3>4. ASSUME NEW i \in 1..Len(tasks'), NEW k \in 1..Len(tasks'), i # k, tasks'[i].kind \in Row
          PROVE  tasks'[i] # tasks'[k]
      <4>1. i + 1 # k + 1
        BY <3>4
      <4> QED
        BY <2>1, <3>1, <3>2, <3>4, <4>1 DEF RowsDistinct
    <3>5. ASSUME NEW i \in 1..Len(tasks'), NEW v \in Workers, Held(v)', tasks'[i].kind \in Row
          PROVE  tasks'[i] # job'[v]
      <4>1. CASE v = w
        BY <2>1, <3>1, <3>2, <3>5, <4>1 DEF RowsDistinct
      <4>2. CASE v # w
        BY <2>1, <2>2, <3>1, <3>2, <3>5, <4>2 DEF RowsDistinct
      <4> QED
        BY <4>1, <4>2
    <3>6. ASSUME NEW u \in Workers, NEW v \in Workers, u # v, Held(u)', Held(v)', job'[u].kind \in Row
          PROVE  job'[u] # job'[v]
      <4>1. CASE u = w
        BY <2>1, <2>2, <3>1, <3>2, <3>6, <4>1 DEF RowsDistinct
      <4>2. CASE v = w
        BY <2>1, <2>2, <3>1, <3>2, <3>6, <4>2 DEF RowsDistinct
      <4>3. CASE u # w /\ v # w
        BY <2>2, <3>1, <3>6, <4>3 DEF RowsDistinct
      <4> QED
        BY <4>1, <4>2, <4>3
    <3> QED
      BY <3>3, <3>4, <3>5, <3>6 DEF OwnersWait, RowsDistinct
  <2> QED
    BY <2>4, <2>5 DEF FInv, GroupsRight
<1> QED
  BY <1>1, <1>2, <1>3

\* A worker goes on with its batch job.
LEMMA BatchJobF ==
  ASSUME PInv, FInv, NEW w \in Workers, Held(w), Held(w)',
         \A t \in Threads : t # w => at'[t] = at[t],
         UNCHANGED <<tasks, dtor, remaining, frame, fut, cur, job>>,
         \A g \in CallerGroups : Live(g) => ErrorKnown(g)'
  PROVE  FInv'
<1>1. \A v \in Workers : Held(v)' <=> Held(v)
  BY ThreadFacts DEF Held
<1>2. ASSUME NEW g \in CallerGroups, Live(g)' PROVE Counted(g)' /\ ErrorKnown(g)'
  <2>1. g[1] \in Callers
    BY DEF CallerGroups
  <2>2. Live(g) /\ Coming(g)' = Coming(g) /\ InQueue(g)' = InQueue(g)
    BY <1>2, <2>1, ThreadFacts DEF Live, Coming, InQueue, stop
  <2>3. InHand(g)' = InHand(g)
    BY <1>1 DEF InHand, GroupOf
  <2> QED
    BY <2>2, <2>3 DEF FInv, GroupsRight, Counted
<1>3. ASSUME ~stop' PROVE OwnersWait' /\ RowsDistinct'
  <2>1. OwnersWait /\ RowsDistinct
    BY <1>3 DEF FInv, stop
  <2>2. ASSUME NEW j \in CallerJobs, Pending(j)' PROVE OwnerWaits(j)'
    <3>1. OwnerWaits(j) /\ j.by \in Callers
      BY <1>1, <2>1, <2>2 DEF OwnersWait, Pending, CallerJobs
    <3> QED
      BY <3>1, ThreadFacts, OwnerElsewhere
  <2>3. RowsDistinct'
    BY <1>1, <2>1, RowsKept
  <2> QED
    BY <2>2, <2>3 DEF OwnersWait
<1> QED
  BY <1>2, <1>3 DEF FInv, GroupsRight

LEMMA RunIndexedF ==
  ASSUME PInv, FInv, "product" \notin Throwing, NEW w \in Workers, RunIndexed(w)
  PROVE  FInv'
<1> DEFINE h == GroupOf(job[w])
<1>1. /\ at[w] = "run" /\ job[w].kind \in Batch
      /\ \A t \in Threads : t # w => at'[t] = at[t]
      /\ UNCHANGED <<tasks, dtor, remaining, firstError, frame, fut, cur, job>>
      /\ \/ at'[w] = "dec" /\ threw' = threw
         \/ /\ at'[w] = "record" /\ job[w].kind # "product"
            /\ threw' = [threw EXCEPT ![h] = @ \cup {job[w]}]
  BY ThreadFacts DEF RunIndexed, Goto, PInv, Shape, Batch, pool, caller
<1>2. h \in CallerGroups /\ h[2] = job[w].kind
  BY <1>1, OwnGroup DEF GroupOf
<1> HIDE DEF h
<1>3. /\ \A g \in CallerGroups : g # h => threw'[g] = threw[g]
      /\ \/ at'[w] = "dec" /\ threw'[h] = threw[h]
         \/ at'[w] = "record" /\ h[2] # "product" /\ threw'[h] = threw[h] \cup {job[w]}
  BY <1>1, <1>2, ThreadFacts DEF PInv, Shape
<1>4. ASSUME NEW g \in CallerGroups, Live(g) PROVE ErrorKnown(g)'
  <2>1. ErrorKnown(g)
    BY <1>4 DEF FInv, GroupsRight
  <2>2. InHand(g)' = InHand(g)
    BY <1>1, <1>3, ThreadFacts DEF InHand, Held, GroupOf
  <2>3. \A v \in InHand(g) : v # w => at'[v] = at[v]
    BY <1>1, ThreadFacts DEF InHand
  <2>4. g # h => w \notin InHand(g)
    BY DEF InHand, h
  <2>5. g = h => w \in InHand(g)
    BY <1>1 DEF InHand, h, Held
  <2>6. CASE g # h
    BY <1>1, <1>3, <2>1, <2>2, <2>3, <2>4, <2>6 DEF ErrorKnown
  <2>7. CASE g = h
    BY <1>1, <1>3, <2>1, <2>2, <2>3, <2>5, <2>7 DEF ErrorKnown
  <2> QED
    BY <2>6, <2>7
<1> QED
  BY <1>1, <1>4, BatchJobF DEF Held

LEMMA RecordF ==
  ASSUME PInv, FInv, NEW w \in Workers, Record(w)
  PROVE  FInv'
<1> DEFINE h == GroupOf(job[w])
<1>1. /\ at[w] = "record" /\ at'[w] = "dec"
      /\ \A t \in Threads : t # w => at'[t] = at[t]
      /\ UNCHANGED <<tasks, dtor, remaining, threw, frame, fut, cur, job>>
      /\ firstError' = [firstError EXCEPT ![h] = IF @ = NoJob THEN job[w] ELSE @]
  BY ThreadFacts DEF Record, Goto, PInv, Shape, pool, caller
<1>2. h \in CallerGroups /\ job[w] # NoJob
  BY <1>1, OwnGroup, ThreadFacts
<1> HIDE DEF h
<1>3. /\ \A g \in CallerGroups : g # h => firstError'[g] = firstError[g]
      /\ firstError'[h] = IF firstError[h] = NoJob THEN job[w] ELSE firstError[h]
  BY <1>1, <1>2, ThreadFacts DEF PInv, Shape
<1>4. ASSUME NEW g \in CallerGroups, Live(g) PROVE ErrorKnown(g)'
  <2>1. ErrorKnown(g)
    BY <1>4 DEF FInv, GroupsRight
  <2>2. InHand(g)' = InHand(g)
    BY <1>1, ThreadFacts DEF InHand, Held, GroupOf
  <2>3. \A v \in InHand(g) : v # w => at'[v] = at[v]
    BY <1>1, ThreadFacts DEF InHand
  <2>4. g # h => w \notin InHand(g)
    BY DEF InHand, h
  <2>5. g = h => w \in InHand(g)
    BY <1>1 DEF InHand, h, Held
  <2>6. CASE g # h
    BY <1>1, <1>3, <2>1, <2>2, <2>3, <2>4, <2>6 DEF ErrorKnown
  <2>7. CASE g = h
    BY <1>1, <1>2, <1>3, <2>1, <2>2, <2>3, <2>5, <2>7 DEF ErrorKnown
  <2> QED
    BY <2>6, <2>7
<1> QED
  BY <1>1, <1>4, BatchJobF DEF Held

LEMMA DecF ==
  ASSUME PInv, FInv, NEW w \in Workers, Dec(w)
  PROVE  FInv'
<1> DEFINE h == GroupOf(job[w])
<1>1. /\ at[w] = "dec" /\ at'[w] \in {"signal", "idle"}
      /\ \A t \in Threads : t # w => at'[t] = at[t]
      /\ \A v \in Workers : v # w => job'[v] = job[v]
      /\ UNCHANGED <<tasks, dtor, firstError, threw, frame, fut, cur>>
      /\ remaining' = [remaining EXCEPT ![h] = @ - 1]
  BY ThreadFacts DEF Dec, Goto, PInv, Shape, pool, caller
<1>2. h \in CallerGroups
  BY <1>1, OwnGroup
<1> HIDE DEF h
<1>3. /\ \A g \in CallerGroups : g # h => remaining'[g] = remaining[g]
      /\ remaining'[h] = remaining[h] - 1 /\ remaining[h] \in Int
  BY <1>1, <1>2, ThreadFacts DEF PInv, Shape
<1>4. /\ Held(w) /\ ~Held(w)'
      /\ \A v \in Workers : v # w => (Held(v)' <=> Held(v)) /\ at'[v] = at[v] /\ job'[v] = job[v]
  BY <1>1, ThreadFacts DEF Held
<1>5. \A c \in Callers : at'[c] = at[c]
  BY <1>1, ThreadFacts
<1>6. ASSUME NEW g \in CallerGroups, Live(g)' PROVE Counted(g)' /\ ErrorKnown(g)'
  <2>1. g[1] \in Callers
    BY DEF CallerGroups
  <2>2. Live(g) /\ Coming(g)' = Coming(g) /\ InQueue(g)' = InQueue(g)
    BY <1>1, <1>5, <1>6, <2>1 DEF Live, Coming, InQueue, stop
  <2>3. Counted(g) /\ ErrorKnown(g)
    BY <2>2 DEF FInv, GroupsRight
  <2>4. InHand(g)' = InHand(g) \ {w} /\ (w \in InHand(g) <=> g = h)
    BY <1>4 DEF InHand, GroupOf, h
  <2>5. \A v \in InHand(g)' : at'[v] = at[v] /\ job'[v] = job[v]
    BY <1>4, <2>4 DEF InHand
  <2>6. /\ IsFiniteSet(InHand(g)) /\ Cardinality(InHand(g)) \in Nat
        /\ Cardinality(InQueue(g)) \in Nat /\ Coming(g) \in Nat
    BY FiniteCounts, PoolAssumption DEF InQueue, Coming, PInv, Shape
  <2>7. Cardinality(InHand(g)') = IF g = h THEN Cardinality(InHand(g)) - 1
                                           ELSE Cardinality(InHand(g))
    BY <2>4, <2>6, FS_RemoveElement
  <2>8. Counted(g)'
    BY <1>3, <2>2, <2>3, <2>6, <2>7 DEF Counted
  <2>9. ErrorKnown(g)'
    BY <1>1, <2>3, <2>4, <2>5 DEF ErrorKnown
  <2> QED
    BY <2>8, <2>9
<1>7. ASSUME ~stop' PROVE OwnersWait' /\ RowsDistinct'
  <2>1. OwnersWait /\ RowsDistinct
    BY <1>1, <1>7 DEF FInv, stop
  <2>2. ASSUME NEW j \in CallerJobs, Pending(j)' PROVE OwnerWaits(j)'
    <3>1. Pending(j)
      BY <1>1, <1>4, <2>2 DEF Pending
    <3>2. OwnerWaits(j) /\ j.by \in Callers
      BY <2>1, <3>1 DEF OwnersWait, CallerJobs
    <3> QED
      BY <1>1, <1>5, <3>2, OwnerElsewhere
  <2>3. RowsDistinct'
    BY <1>1, <1>4, <2>1, RowsKept
  <2> QED
    BY <2>2, <2>3 DEF OwnersWait
<1> QED
  BY <1>6, <1>7 DEF FInv, GroupsRight

\* A task of a row ends: no other pending task shares its future.
LEMMA RunTaskF ==
  ASSUME PInv, FInv, NEW w \in Workers, RunTask(w)
  PROVE  FInv'
<1>1. PICK outcome \in {"ready", "error"} :
        /\ at[w] = "run" /\ at'[w] = "idle" /\ job[w].kind \notin Batch
        /\ \A t \in Threads : t # w => at'[t] = at[t]
        /\ \A v \in Workers : v # w => job'[v] = job[v]
        /\ fut' = IF InScope(job[w]) /\ job[w].kind \in Collecting
                  THEN [fut EXCEPT ![job[w].by][job[w].k] = outcome] ELSE fut
        /\ UNCHANGED <<tasks, dtor, remaining, firstError, threw, frame, cur>>
  <2>1. /\ at[w] = "run" /\ job[w].kind \in Collecting \cup {Idle}
        /\ UNCHANGED <<pool, group, frame, runs, cur>>
        /\ \E outcome \in {"ready", "error"} : FinishTask(w, outcome)
    BY DEF RunTask, OnWorkerThread
  <2> QED
    BY <2>1, ThreadFacts, PoolAssumption
    DEF FinishTask, Goto, PInv, Shape, pool, group, Batch, Idle
<1>2. /\ Held(w) /\ ~Held(w)'
      /\ \A v \in Workers : v # w => (Held(v)' <=> Held(v)) /\ at'[v] = at[v] /\ job'[v] = job[v]
  BY <1>1, ThreadFacts DEF Held
<1>3. \A c \in Callers : at'[c] = at[c]
  BY <1>1, ThreadFacts
<1>4. ASSUME NEW g \in CallerGroups, Live(g)' PROVE Counted(g)' /\ ErrorKnown(g)'
  <2>1. g[1] \in Callers /\ g[2] \in Batch
    BY DEF CallerGroups
  <2>2. Live(g) /\ Coming(g)' = Coming(g) /\ InQueue(g)' = InQueue(g)
    BY <1>1, <1>3, <1>4, <2>1 DEF Live, Coming, InQueue, stop
  <2>3. InHand(g)' = InHand(g) /\ w \notin InHand(g)
    BY <1>1, <1>2, <2>1 DEF InHand, GroupOf
  <2>4. \A v \in InHand(g) : at'[v] = at[v] /\ job'[v] = job[v]
    BY <1>2, <2>3 DEF InHand
  <2> QED
    BY <1>1, <2>2, <2>3, <2>4 DEF FInv, GroupsRight, Counted, ErrorKnown
<1>5. ASSUME ~stop' PROVE OwnersWait' /\ RowsDistinct'
  <2>1. OwnersWait /\ RowsDistinct
    BY <1>1, <1>5 DEF FInv, stop
  <2>2. ASSUME NEW m \in CallerJobs, Pending(m)' PROVE OwnerWaits(m)'
    <3>1. Pending(m) /\ (m.kind \in Row => m # job[w])
      <4>1. (\E i \in 1..Len(tasks) : tasks[i] = m)
            \/ (\E v \in Workers : v # w /\ Held(v) /\ job[v] = m)
        BY <1>1, <1>2, <2>2 DEF Pending
      <4> QED
        BY <1>2, <2>1, <4>1 DEF Pending, RowsDistinct
    <3>2. OwnerWaits(m) /\ m.by \in Callers /\ m.kind \in Kinds
      BY <2>1, <3>1 DEF OwnersWait, CallerJobs
    <3>3. CASE m.kind \in Batch
      BY <1>1, <1>3, <3>2, <3>3 DEF OwnerWaits, Batch
    <3>4. CASE m.kind \in Row /\ fut'[m.by] = fut[m.by]
      BY <1>1, <1>3, <3>2, <3>4, OwnerElsewhere
    <3>5. CASE m.kind \in Row /\ fut'[m.by] # fut[m.by]
      <4> DEFINE j == job[w]
                 c == m.by
      <4>1. /\ InScope(j) /\ j.kind \in Row
            /\ fut' = [fut EXCEPT ![j.by][j.k] = outcome]
        BY <1>1, <3>5, PoolAssumption DEF Row
      <4>2. j \in CallerJobs /\ Pending(j)
        <5>1. j \in Jobs
          BY <1>1 DEF PInv, Placed, WorkerPlaced
        <5> QED
          BY <1>2, <4>1, <5>1 DEF Jobs, EmptyTask, Idle, Row, Pending
      <4> HIDE DEF j
      <4>3. j.by = c /\ fut'[c] = [fut[c] EXCEPT ![j.k] = outcome]
        BY <3>2, <3>5, <4>1, <4>2 DEF PInv, Shape
      <4>4. at[c] # "idle" /\ frame[c] = j.frame /\ OwnerWaits(j)
        BY <2>1, <3>2, <4>1, <4>2, <4>3 DEF InScope, OwnersWait
      <4>5. cur[c] = j.kind /\ j.k \in 1..Len(fut[c])
        BY <4>1, <4>3, <4>4 DEF OwnerWaits, RowDue, Row
      <4>6. CASE RowDue(m) /\ m.frame = frame[c]
        <5>1. m.kind = j.kind
          BY <4>5, <4>6 DEF RowDue
        <5>2. m.k # j.k
          <6>1. m \in CallerJobs /\ j \in CallerJobs /\ m # j
            BY <3>1, <3>5, <4>2 DEF j
          <6> QED
            BY <4>3, <4>4, <4>6, <5>1, <6>1 DEF CallerJobs
        <5>3. fut[c] \in Seq({"pending", "ready", "error"})
          BY <3>2 DEF PInv, Shape
        <5>4. Len(fut'[c]) = Len(fut[c]) /\ fut'[c][m.k] = fut[c][m.k]
          <6>1. outcome \in {"pending", "ready", "error"}
            OBVIOUS
          <6>2. Len([fut[c] EXCEPT ![j.k] = outcome]) = Len(fut[c])
            BY <4>5, <5>3, <6>1, ExceptSeq
          <6>3. [fut[c] EXCEPT ![j.k] = outcome][m.k] = fut[c][m.k]
            BY <4>6, <5>2, <5>3, LenProperties DEF RowDue
          <6> QED
            BY <4>3, <6>2, <6>3
        <5>5. RowDue(m)'
          BY <1>1, <1>3, <3>2, <4>6, <5>4 DEF RowDue
        <5> QED
          BY <1>1, <1>3, <3>2, <3>5, <4>6, <5>5 DEF OwnerWaits, Row
      <4>7. CASE ~(RowDue(m) /\ m.frame = frame[c])
        <5>1. m.kind = "get" /\ m.frame # frame[c] /\ m.frame <= frame[c]
          BY <3>2, <3>5, <4>4, <4>7 DEF OwnerWaits, Row
        <5> QED
          BY <1>1, <3>2, <5>1 DEF OwnerWaits
      <4> QED
        BY <4>6, <4>7
    <3> QED
      BY <3>2, <3>3, <3>4, <3>5 DEF Kinds
  <2>3. RowsDistinct'
    BY <1>1, <1>2, <2>1, RowsKept
  <2> QED
    BY <2>2, <2>3 DEF OwnersWait
<1> QED
  BY <1>4, <1>5 DEF FInv, GroupsRight

LEMMA RunsF ==
  ASSUME PInv, FInv, NEW c \in Callers, RunStage(c) \/ Product(c)
  PROVE  FInv'
BY ExpectF DEF RunStage, Product, Batch

LEMMA NextF == PInv /\ FInv /\ "product" \notin Throwing /\ [Next]_vars => FInv'
<1> SUFFICES ASSUME PInv, FInv, "product" \notin Throwing, [Next]_vars PROVE FInv'
  OBVIOUS
<1>1. ASSUME NEW c \in Callers, CallerStep(c) PROVE FInv'
  <2>1. CASE \E how \in Row : Enqueue(c, how)
    BY <2>1, EnqueueF
  <2> QED
    BY <1>1, <2>1, EnterF, LeaveF, RunsF, StartWaitF, CollectF DEF CallerStep, Row
<1>2. ASSUME NEW t \in Threads, Protocol(t) \/ SpuriousWakeup(t) PROVE FInv'
  BY <1>2, ProtocolIsCallers, PushJobsF, NotifyOneF, WaitsF, WaitReturnF,
     SpuriousWakeupF DEF Protocol
<1>3. ASSUME NEW w \in Workers, WorkerStep(w) \/ Acquire(w) PROVE FInv'
  BY <1>3, TakeF, RunIndexedF, RunTaskF, DecF, RecordF, SignalF DEF WorkerStep, Acquire
<1>4. CASE Destroy
  BY <1>4, DestroyF
<1>5. CASE UNCHANGED vars
  BY <1>5, StutterF
<1> QED
  BY <1>1, <1>2, <1>3, <1>4, <1>5 DEF Next

(***************************************************************************)
(* The theorems.                                                           *)
(***************************************************************************)
LEMMA ShapeTypes == Shape => TypeOK
<1> SUFFICES ASSUME Shape PROVE TypeOK
  OBVIOUS
<1>1. at \in [Threads -> {"idle", "body", "fired", "joining", "push", "notify", "wait",
                          "blocking", "asleep", "collect", "sleeping", "run", "record",
                          "dec", "signal", "exited"}]
  BY DEF Shape, CallerPlaces, WorkerPlaces
<1>2. cur \in [Threads -> {"stage", "product", "wait", "get"}]
  BY DEF Shape, Kinds, Batch, Row
<1> QED
  BY <1>1, <1>2 DEF TypeOK, Shape

\* Types: no counter, place or mutex of the pool and its groups leaves its range,
\* whatever throws and whenever the pool is destroyed.
THEOREM TypeCorrect == Spec => []TypeOK
<1>1. PInv => TypeOK
  BY ShapeTypes DEF PInv
<1> QED
  BY <1>1, InitP, NextP, PTL DEF Spec

\* notify_one() per job outside queue_mutex, and notify_all() of the last finish()
\* under the mutex of the group, wake somebody whenever somebody has to be woken.
THEOREM NoWakeupIsLost == Spec => []NoLostWakeup
<1>1. PInv => NoLostWakeup
  BY DEF PInv
<1> QED
  BY <1>1, InitP, NextP, PTL DEF Spec

\* The jobs of a batch, and the tasks of a row that is collected with wait(), run
\* while the frame their callables captured exists, as long as no product throws
\* between run() and wait().
THEOREM JobsStayInFrame == "product" \notin Throwing => (Spec => []TasksInsideFrame)
<1> SUFFICES ASSUME "product" \notin Throwing PROVE Spec => []TasksInsideFrame
  OBVIOUS
<1>1. PInv /\ FInv => TasksInsideFrame
  <2> SUFFICES ASSUME PInv, FInv, ~stop
               PROVE  /\ \A i \in DOMAIN tasks : tasks[i].kind = "get" \/ InScope(tasks[i])
                      /\ \A w \in Workers : Held(w) => job[w].kind = "get" \/ InScope(job[w])
    BY DEF TasksInsideFrame, Held
  <2>1. ASSUME NEW j \in CallerJobs, Pending(j) PROVE j.kind = "get" \/ InScope(j)
    <3>1. OwnerWaits(j) /\ j.kind \in Kinds
      BY <2>1 DEF FInv, OwnersWait, CallerJobs
    <3> QED
      BY <3>1 DEF OwnerWaits, RowDue, InScope, Kinds, Batch, Row
  <2>2. InScope(EmptyTask)
    BY PoolAssumption DEF InScope, EmptyTask
  <2>3. \A i \in DOMAIN tasks : i \in 1..Len(tasks) /\ tasks[i] \in Jobs
    BY DEF PInv, Shape
  <2>4. \A w \in Workers : Held(w) => job[w] \in Jobs
    BY DEF PInv, Placed, WorkerPlaced, Held
  <2> QED
    BY <2>1, <2>2, <2>3, <2>4 DEF Jobs, Pending
<1>2. PInv /\ FInv /\ [Next]_vars => PInv' /\ FInv'
  BY NextP, NextF
<1> QED
  BY <1>1, <1>2, InitP, InitF, PTL DEF Spec

\* wait() rethrows an error of its own batch when there was one, and never one of
\* an earlier batch, under the same condition.
THEOREM ErrorsReported == "product" \notin Throwing => (Spec => WaitReportsErrors)
<1> SUFFICES ASSUME "product" \notin Throwing PROVE Spec => WaitReportsErrors
  OBVIOUS
<1> DEFINE Reports ==
      \A c \in Callers : at[c] = "wait" /\ at'[c] \in {"body", "joining", "idle"} =>
        IF at'[c] = "idle" THEN firstError[Waiting(c)] \in threw[Waiting(c)]
                           ELSE threw[Waiting(c)] = {}
<1>1. PInv /\ FInv /\ [Next]_vars => [Reports]_vars
  <2> SUFFICES ASSUME PInv, FInv, [Next]_vars, NEW c \in Callers, at[c] = "wait",
                      at'[c] \in {"body", "joining", "idle"}
               PROVE  IF at'[c] = "idle" THEN firstError[Waiting(c)] \in threw[Waiting(c)]
                                         ELSE threw[Waiting(c)] = {}
    OBVIOUS
  <2>1. WaitReturn(c)
    <3>1. at \in [Threads -> CallerPlaces \cup WorkerPlaces] /\ c \in Threads
      BY ThreadFacts DEF PInv, Shape
    <3>2. ASSUME NEW d \in Callers, CallerStep(d) PROVE FALSE
      BY <3>1, <3>2, ThreadFacts DEF CallerStep, Enter, Leave, RunStage, Product, Expect,
         StartWait, Collect, Enqueue, Throw, Goto
    <3>3. ASSUME NEW t \in Threads, Protocol(t) \/ SpuriousWakeup(t) PROVE WaitReturn(c)
      <4>1. CASE WaitReturn(t)
        <5>1. t \in Callers
          BY <4>1, ProtocolIsCallers DEF Protocol
        <5>2. t # c => at'[c] = at[c]
          BY <3>1, <4>1, <5>1, ThreadFacts DEF WaitReturn, Throw, Goto
        <5> QED
          BY <4>1, <5>2
      <4>2. CASE PushJobs(t)
        <5>1. t \in Callers
          BY <4>2, ProtocolIsCallers DEF Protocol
        <5> QED
          BY <3>1, <4>2, <5>1, ThreadFacts DEF PushJobs, Throw, Goto
      <4>3. CASE NotifyOne(t) \/ WaitLoad(t) \/ WaitBlock(t) \/ SpuriousWakeup(t)
        BY <3>1, <4>3, ThreadFacts DEF NotifyOne, WaitLoad, WaitBlock, SpuriousWakeup, Goto,
           Sleeping
      <4> QED
        BY <3>3, <4>1, <4>2, <4>3 DEF Protocol
    <3>4. ASSUME NEW w \in Workers, WorkerStep(w) \/ Acquire(w) PROVE FALSE
      <4>1. CASE RunTask(w)
        BY <3>1, <4>1, ThreadFacts DEF RunTask, OnWorkerThread, FinishTask, Goto
      <4>2. CASE Take(w) \/ RunIndexed(w) \/ Dec(w) \/ Record(w) \/ Signal(w)
        BY <3>1, <4>2, ThreadFacts DEF Take, RunIndexed, Dec, Record, Signal, Goto
      <4> QED
        BY <3>4, <4>1, <4>2 DEF WorkerStep, Acquire
    <3>5. CASE Destroy
      BY <3>1, <3>5, ThreadFacts DEF Destroy, SetStop, NotifyAll, Join, Sleeping
    <3>6. CASE UNCHANGED vars
      BY <3>6 DEF vars
    <3> QED
      BY <3>2, <3>3, <3>4, <3>5, <3>6 DEF Next
  <2>2. at'[c] = "idle" <=> firstError[Waiting(c)] # NoJob
    BY <2>1, ThreadFacts DEF WaitReturn, Throw, Goto, PInv, Shape
  <2> QED
    BY <2>1, <2>2, WaitReturnDone
<1>2. PInv /\ FInv /\ [Next]_vars => PInv' /\ FInv'
  BY NextP, NextF
<1>3. WaitReportsErrors <=> [][Reports]_vars
  BY DEF WaitReportsErrors
<1> QED
  BY <1>1, <1>2, <1>3, InitP, InitF, PTL DEF Spec

=============================================================================
