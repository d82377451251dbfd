----------------------------- MODULE Scheduler ------------------------------
(***************************************************************************)
(* Scheduler of ya_benchmark/include/blindrotate_serving.h: the request    *)
(* lanes between the producer and the serving workers.  "shared" has one   *)
(* lane; "affinity" and "soft" have one per worker, and a tenant's owner   *)
(* is a worker.  "soft" spills an admission to the shortest lane, and lets *)
(* an idle worker steal from the longest.                                  *)
(*                                                                         *)
(* m_ is held for one action at a time, and every worker sleeps on cv_.    *)
(***************************************************************************)
EXTENDS Integers, Sequences, FiniteSets

CONSTANTS
  Modes,        \* the values of mode_ considered
  NumWorkers,   \* workers_
  MaxDepth, Spill, Steal,   \* maxDepth_, spill_, steal_
  Tenants,
  MaxRequests   \* bound: requests the producer pushes before it closes

ASSUME SchedulerAssumption ==
  /\ Modes \subseteq {"shared", "affinity", "soft"}
  /\ NumWorkers \in Nat \ {0} /\ MaxDepth \in Nat /\ MaxRequests \in Nat
  /\ Spill \in Nat \ {0} /\ Steal \in Nat /\ Tenants \subseteq Nat

VARIABLES
  mode, lanes, peak, spilled, stolen, closed,   \* the fields of the class
  popping,  \* where each worker is: deciding in pop(), asleep, serving, or gone
  arrived,  \* requests the producer has pushed so far, which number them
  shed,     \* history: the requests push() rejected
  taken     \* history: what pop() handed out, in order

queue == <<lanes, peak, spilled, stolen, closed>>
queueVars == <<mode, queue, popping, arrived, shed, taken>>

Workers == 0..NumWorkers - 1
Lanes == IF mode = "shared" THEN {0} ELSE Workers
Depth(l) == Len(lanes[l])
Request == [id : 1..MaxRequests, tenant : Tenants]

QueueTypeOK ==
  /\ mode \in Modes
  /\ lanes \in [Lanes -> Seq(Request)] /\ peak \in 0..MaxDepth
  /\ \A l \in Lanes : Depth(l) <= peak
  /\ spilled \in 0..MaxRequests /\ stolen \in 0..MaxRequests /\ closed \in BOOLEAN
  /\ popping \in [Workers -> {"deciding", "asleep", "serving", "gone"}]
  /\ arrived \in 0..MaxRequests /\ shed \subseteq 1..MaxRequests
  /\ taken \in Seq([id : 1..MaxRequests, tenant : Tenants, by : Workers, owned : BOOLEAN])

QueueInit ==
  /\ mode \in Modes
  /\ lanes = [l \in Lanes |-> <<>>]
  /\ peak = 0 /\ spilled = 0 /\ stolen = 0 /\ closed = FALSE
  /\ popping = [w \in Workers |-> "deciding"]
  /\ arrived = 0 /\ shed = {} /\ taken = <<>>

Owner(tenant) == tenant % NumWorkers
AnyPending == \E l \in Lanes : lanes[l] # <<>>
ShortestLane ==
  CHOOSE l \in Lanes : \A m \in Lanes : Depth(l) < Depth(m) \/ (Depth(l) = Depth(m) /\ l <= m)
LongestLane ==
  CHOOSE l \in Lanes : \A m \in Lanes : Depth(l) > Depth(m) \/ (Depth(l) = Depth(m) /\ l <= m)

Wake_One ==                                 \* mutant: notify_one for notify_all
  \/ \E w \in Workers : popping[w] = "asleep" /\ popping' = [popping EXCEPT ![w] = "deciding"]
  \/ (\A w \in Workers : popping[w] # "asleep") /\ UNCHANGED popping

Wake == popping' = [w \in Workers |-> IF popping[w] = "asleep" THEN "deciding" ELSE popping[w]]

(* push(): the lane is chosen before the test of its depth.                 *)
Spills(tenant) ==
  /\ mode = "soft" /\ Depth(Owner(tenant)) >= Spill
  /\ Depth(ShortestLane) + 1 < Depth(Owner(tenant))

Admit_Late(r, l) ==                         \* mutant: a full lane takes the request too
  /\ lanes' = [lanes EXCEPT ![l] = Append(@, r)]
  /\ peak' = IF Depth(l) < MaxDepth /\ Depth(l) + 1 > peak THEN Depth(l) + 1 ELSE peak
  /\ Wake
  /\ shed' = IF Depth(l) >= MaxDepth THEN shed \cup {r.id} ELSE shed

Admit(r, l) ==
  IF Depth(l) >= MaxDepth
  THEN /\ shed' = shed \cup {r.id}
       /\ UNCHANGED <<lanes, peak, popping>>
  ELSE /\ lanes' = [lanes EXCEPT ![l] = Append(@, r)]
       /\ peak' = IF Depth(l) + 1 > peak THEN Depth(l) + 1 ELSE peak
       /\ Wake
       /\ UNCHANGED shed

Push(tenant) ==
  /\ arrived < MaxRequests /\ ~closed
  /\ arrived' = arrived + 1
  /\ spilled' = spilled + (IF Spills(tenant) THEN 1 ELSE 0)
  /\ Admit([id |-> arrived + 1, tenant |-> tenant],
           IF mode = "shared" THEN 0 ELSE IF Spills(tenant) THEN ShortestLane ELSE Owner(tenant))
  /\ UNCHANGED <<mode, stolen, closed, taken>>

(* The producer closes the queue after its last push.                       *)
Close ==
  /\ ~closed /\ arrived = MaxRequests
  /\ closed' = TRUE /\ Wake
  /\ UNCHANGED <<mode, lanes, peak, spilled, stolen, arrived, shed, taken>>

-----------------------------------------------------------------------------
(* pop().                                                                   *)
Own(w) == IF mode = "shared" THEN 0 ELSE w

Ready_StealAlways(w) ==                     \* mutant: "affinity" steals too
  lanes[Own(w)] # <<>> \/ Depth(LongestLane) >= Steal

Ready(w) ==
  \/ lanes[Own(w)] # <<>>
  \/ mode = "shared" /\ AnyPending
  \/ mode = "soft" /\ Depth(LongestLane) >= Steal

DrainOnClose_Never == FALSE                 \* mutant: close() leaves others' lanes alone
DrainOnClose == closed /\ AnyPending /\ mode # "affinity"

Sleep(w) ==
  /\ popping[w] = "deciding" /\ ~closed /\ ~Ready(w)
  /\ popping' = [popping EXCEPT ![w] = "asleep"]
  /\ UNCHANGED <<mode, queue, arrived, shed, taken>>

(* Nothing to do, or the lane picked for stealing is empty.                 *)
GiveUp(w) ==
  /\ popping[w] = "deciding" /\ (closed \/ Ready(w))
  /\ (~Ready(w) /\ ~DrainOnClose) \/ ~AnyPending
  /\ popping' = [popping EXCEPT ![w] = "gone"]
  /\ UNCHANGED <<mode, queue, arrived, shed, taken>>

StealCount(w) == IF mode = "soft" /\ lanes[Own(w)] = <<>> THEN 1 ELSE 0

Take(w) ==
  /\ popping[w] = "deciding" /\ (Ready(w) \/ DrainOnClose) /\ AnyPending
  /\ LET l == IF lanes[Own(w)] = <<>> THEN LongestLane ELSE Own(w)
         r == Head(lanes[l])
     IN  /\ lanes' = [lanes EXCEPT ![l] = Tail(@)]
         /\ stolen' = stolen + StealCount(w)
         /\ taken' = Append(taken, [id |-> r.id, tenant |-> r.tenant, by |-> w,
                                    owned |-> mode # "shared" /\ Owner(r.tenant) = w])
  /\ popping' = [popping EXCEPT ![w] = "serving"]
  /\ UNCHANGED <<mode, peak, spilled, closed, arrived, shed>>

Served(w) ==
  /\ popping[w] = "serving"
  /\ popping' = [popping EXCEPT ![w] = "deciding"]
  /\ UNCHANGED <<mode, queue, arrived, shed, taken>>

WakeUnasked(w) ==
  /\ popping[w] = "asleep"
  /\ popping' = [popping EXCEPT ![w] = "deciding"]
  /\ UNCHANGED <<mode, queue, arrived, shed, taken>>

Pop(w) == Sleep(w) \/ GiveUp(w) \/ Take(w)
Produce == Close \/ \E tenant \in Tenants : Push(tenant)

QueueNext == Produce \/ \E w \in Workers : Pop(w) \/ Served(w) \/ WakeUnasked(w)

(* The producer pushes on schedule and closes; a worker gets the mutex, and *)
(* finishes the request it serves.                                          *)
QueueSpec ==
  /\ QueueInit /\ [][QueueNext]_queueVars
  /\ WF_queueVars(Produce) /\ \A w \in Workers : WF_queueVars(Pop(w)) /\ WF_queueVars(Served(w))
-----------------------------------------------------------------------------
Waiting(l) == {lanes[l][i].id : i \in DOMAIN lanes[l]}
Taken == {taken[i].id : i \in DOMAIN taken}

(* Every arrived request is rejected, waiting in one lane or taken, and in  *)
(* only one of these: the accounting "shed_plus_completed" of the benchmark. *)
EachRequestOnce ==
  /\ 1..arrived = shed \cup Taken \cup UNION {Waiting(l) : l \in Lanes}
  /\ Cardinality(shed) + Len(taken)
       + Cardinality({p \in Lanes \X (1..MaxRequests) : p[2] <= Depth(p[1])}) = arrived

(* Requests leave a shared queue in order of arrival; with affinity those   *)
(* of one tenant do, and only their owner takes them.                       *)
OrderKept ==
  \A i, j \in DOMAIN taken : i < j =>
    /\ mode = "shared" => taken[i].id < taken[j].id
    /\ mode = "affinity" =>
         taken[i].owned /\ (taken[i].tenant = taken[j].tenant => taken[i].id < taken[j].id)

(* A worker sleeps only while pop() has nothing for it: push() and close()  *)
(* wake everybody, and a take never makes another worker ready.             *)
NoLostWakeup == \A w \in Workers : popping[w] = "asleep" => ~closed /\ ~Ready(w)

(* A worker leaves only when the queue is closed and holds nothing it may   *)
(* take, so every admitted request has somebody left to serve it.           *)
StaysWhileNeeded ==
  \A w \in Workers : popping[w] = "gone" =>
    closed /\ lanes[Own(w)] = <<>> /\ (mode # "affinity" => ~AnyPending)

(* Everything admitted is served, and every worker leaves after close().    *)
AllServed == <>[](/\ \A w \in Workers : popping[w] = "gone"
                  /\ Taken \cup shed = 1..MaxRequests)
=============================================================================
