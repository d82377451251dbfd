----------------------------- MODULE ThreadPool -----------------------------
(***************************************************************************)
(* yautil/multi_threading.h and multi_threading.cpp: a pool of workers     *)
(* serving one FIFO queue, the TaskGroup that joins a batch of indexed     *)
(* jobs, and the futures that join tasks given to enqueue().               *)
(*                                                                         *)
(* A caller is a thread outside the pool that runs one of the pipelined    *)
(* rotations: it owns a stack frame with a TaskGroup, fires batches on it, *)
(* computes an external product in between (which joins a second batch on  *)
(* the thread-local group of trgsw.cpp), and waits for the first group; or *)
(* it enqueues tasks that compute external products and collects their     *)
(* futures.  queue_mutex is held for one action at a time.  The counter    *)
(* of a group is an atomic outside the group's mutex, so that mutex is     *)
(* explicit.                                                               *)
(***************************************************************************)
EXTENDS Integers, Sequences, FiniteSets

CONSTANTS
  Callers,      \* threads that are not workers of the pool
  Workers,      \* ThreadPool::workers
  Count,        \* jobs of one run(), and tasks of one row of futures
  MaxRuns,      \* bound: run() calls and rows of futures of one caller
  Throwing,     \* kinds of job whose body may throw
  Collecting,   \* how rows of futures are collected: subset of {"wait", "get"}
  StopAnytime,  \* exit() may be called while callers are inside a rotation
  NoJob         \* no job, no error, no mutex holder

ASSUME PoolAssumption ==
  /\ Count \in Nat \ {0} /\ MaxRuns \in Nat
  /\ Throwing \subseteq {"stage", "product", "wait", "get"}
  /\ Collecting \subseteq {"wait", "get"} /\ StopAnytime \in BOOLEAN
  /\ Callers \cap Workers = {} /\ Workers # {} /\ IsFiniteSet(Workers)
  /\ NoJob \notin Callers \cup Workers
  /\ NoJob \notin [kind : {"stage", "product", "wait", "get"}, by : Callers, k : 1..Count,
                   frame : 0..MaxRuns]

VARIABLES
  tasks,        \* the queue of the pool
  dtor,         \* progress of ~ThreadPool
  at,           \* where each thread is
  cur,          \* the kind of group a thread is running or waiting for
  job,          \* the job a worker has taken
  toNotify,     \* notify_one calls a thread still has to make
  remaining, firstError, mutex,   \* the fields of each TaskGroup
  frame,        \* number of the current stack frame of a caller
  runs,         \* run() calls and rows of futures made by a caller
  fut,          \* the futures of a caller's current row
  threw         \* history: jobs of a group that threw since its last wait()

pool == <<tasks, dtor, toNotify>>
group == <<remaining, firstError, mutex, threw>>
caller == <<frame, runs, fut>>
vars == <<pool, group, caller, at, cur, job>>

Threads == Callers \cup Workers
Groups == (Callers \X {"stage"}) \cup (Threads \X {"product"})
GroupOf(j) == <<j.by, j.kind>>
Waiting(t) == <<t, cur[t]>>            \* the group of a thread in run() or wait()
stop == dtor # "alive"
Idle == "empty"                        \* the task of initThreadPool()

Job(kind, t, k) == [kind |-> kind, by |-> t, k |-> k,
                    frame |-> IF t \in Callers THEN frame[t] ELSE 0]
\* The frame a job's callable was captured in still exists.
InScope(j) == j.by \in Callers => at[j.by] # "idle" /\ frame[j.by] = j.frame

TypeOK ==
  /\ dtor \in {"alive", "stopped", "notified", "joined"}
  /\ at \in [Threads -> {"idle", "body", "fired", "joining", "push", "notify", "wait",
                         "blocking", "asleep", "collect", "sleeping", "run", "record",
                         "dec", "signal", "exited"}]
  /\ cur \in [Threads -> {"stage", "product", "wait", "get"}]
  /\ remaining \in [Groups -> Int] /\ toNotify \in [Threads -> 0..Count]
  /\ mutex \in [Groups -> Threads \cup {NoJob}]
  /\ \A c \in Callers : frame[c] \in 0..MaxRuns /\ runs[c] \in 0..MaxRuns

Init ==
  /\ tasks \in {<<>>, <<[kind |-> Idle, by |-> NoJob, k |-> 1, frame |-> 0]>>}
  /\ dtor = "alive"
  /\ at = [t \in Threads |-> "idle"] /\ cur = [t \in Threads |-> "stage"]
  /\ job = [w \in Workers |-> NoJob]
  /\ toNotify = [t \in Threads |-> 0]
  /\ remaining = [g \in Groups |-> 0] /\ firstError = [g \in Groups |-> NoJob]
  /\ mutex = [g \in Groups |-> NoJob] /\ threw = [g \in Groups |-> {}]
  /\ frame = [c \in Callers |-> 0] /\ runs = [c \in Callers |-> 0]
  /\ fut = [c \in Callers |-> <<>>]

Goto(t, p) == at' = [at EXCEPT ![t] = p]

-----------------------------------------------------------------------------
(* A rotation is entered with a fresh TaskGroup on its stack, and left.     *)
Enter(c) ==
  /\ at[c] = "idle" /\ frame[c] < MaxRuns /\ dtor # "joined"
  /\ frame' = [frame EXCEPT ![c] = @ + 1]
  /\ remaining' = [remaining EXCEPT ![<<c, "stage">>] = 0]
  /\ firstError' = [firstError EXCEPT ![<<c, "stage">>] = NoJob]
  /\ threw' = [threw EXCEPT ![<<c, "stage">>] = {}]
  /\ Goto(c, "body")
  /\ UNCHANGED <<pool, mutex, runs, fut, cur, job>>

Leave(c) ==
  /\ at[c] = "body" /\ Goto(c, "idle")
  /\ UNCHANGED <<pool, group, caller, cur, job>>

(* A packaged_task ends: its future, which outlives the frame, is ready.    *)
FinishTask(w, outcome) ==
  /\ fut' = IF InScope(job[w]) /\ job[w].kind \in Collecting
            THEN [fut EXCEPT ![job[w].by][job[w].k] = outcome] ELSE fut
  /\ job' = [job EXCEPT ![w] = NoJob]
  /\ Goto(w, "idle")

(* An exception unwinds the frame of a caller, or ends the task of a worker. *)
Throw(t) ==
  IF t \in Callers
  THEN Goto(t, "idle") /\ fut' = [fut EXCEPT ![t] = <<>>] /\ UNCHANGED job
  ELSE FinishTask(t, "error")

(* run(): expect(count) comes before the test of stop.                      *)
Expect(t, kind) ==
  /\ cur' = [cur EXCEPT ![t] = kind]
  /\ remaining' = [remaining EXCEPT ![<<t, kind>>] = @ + Count]
  /\ Goto(t, "push")
  /\ UNCHANGED <<pool, firstError, mutex, threw, frame, fut, job>>

RunStage(c) ==
  /\ at[c] \in {"body", "fired"} /\ runs[c] < MaxRuns
  /\ runs' = [runs EXCEPT ![c] = @ + 1]
  /\ Expect(c, "stage")

OnWorkerThread_Never(t) == FALSE            \* mutant: a task on a worker waits for others
OnWorkerThread(t) == t \in Workers

(* externalProductTrgswMPNttImpl, called between run() and wait().          *)
Product(c) ==
  /\ at[c] = "fired" /\ ~OnWorkerThread(c)
  /\ Expect(c, "product") /\ UNCHANGED runs

PushJobs(t) ==
  /\ at[t] = "push"
  /\ IF stop
     THEN Throw(t) /\ UNCHANGED <<tasks, toNotify>>
     ELSE /\ tasks' = tasks \o [k \in 1..Count |-> Job(cur[t], t, k)]
          /\ toNotify' = [toNotify EXCEPT ![t] = Count]
          /\ Goto(t, "notify") /\ UNCHANGED <<fut, job>>
  /\ UNCHANGED <<dtor, group, frame, runs, cur>>

Sleeping == {w \in Workers : at[w] = "sleeping"}

AfterNotify(t) ==
  CASE cur[t] = "stage" -> "fired"
    [] cur[t] = "product" -> "wait"
    [] OTHER -> "collect"

(* condition.notify_one(), once per job and outside queue_mutex.            *)
NotifyOne(t) ==
  /\ at[t] = "notify"
  /\ toNotify' = [toNotify EXCEPT ![t] = @ - 1]
  /\ LET next == IF toNotify[t] = 1 THEN AfterNotify(t) ELSE "notify"
     IN  IF Sleeping = {}
         THEN Goto(t, next)
         ELSE \E w \in Sleeping : at' = [at EXCEPT ![t] = next, ![w] = "idle"]
  /\ UNCHANGED <<tasks, dtor, group, caller, cur, job>>
-----------------------------------------------------------------------------
(* TaskGroup::wait().                                                       *)
StartWait(c) ==
  /\ at[c] \in {"fired", "joining"}
  /\ cur' = [cur EXCEPT ![c] = "stage"] /\ Goto(c, "wait")
  /\ UNCHANGED <<pool, group, caller, job>>

Done_Early(g) == remaining[g] <= 1          \* mutant: leaves with the last job running
Done(g) == remaining[g] = 0

MutexFree_Unlocked(g) == TRUE               \* mutant: finish() signals without the mutex
MutexFree(g) == mutex[g] = NoJob

(* The predicate fails: the waiter still holds the mutex and will sleep.    *)
WaitLoad(t) ==
  /\ at[t] = "wait" /\ MutexFree(Waiting(t)) /\ ~Done(Waiting(t))
  /\ mutex' = [mutex EXCEPT ![Waiting(t)] = t]
  /\ Goto(t, "blocking")
  /\ UNCHANGED <<pool, remaining, firstError, threw, caller, cur, job>>

WaitBlock(t) ==
  /\ at[t] = "blocking"
  /\ mutex' = [mutex EXCEPT ![Waiting(t)] = NoJob]
  /\ Goto(t, "asleep")
  /\ UNCHANGED <<pool, remaining, firstError, threw, caller, cur, job>>

(* The predicate holds: rethrow the first error, once.                      *)
WaitReturn(t) ==
  /\ at[t] = "wait" /\ MutexFree(Waiting(t)) /\ Done(Waiting(t))
  /\ firstError' = [firstError EXCEPT ![Waiting(t)] = NoJob]
  /\ threw' = [threw EXCEPT ![Waiting(t)] = {}]
  /\ IF firstError[Waiting(t)] # NoJob THEN Throw(t)
     ELSE IF t \in Workers THEN FinishTask(t, "ready")
     ELSE Goto(t, IF cur[t] = "product" THEN "joining" ELSE "body") /\ UNCHANGED <<fut, job>>
  /\ UNCHANGED <<pool, remaining, mutex, frame, runs, cur>>

SpuriousWakeup(t) ==
  /\ at[t] \in {"asleep", "sleeping"}
  /\ Goto(t, IF at[t] = "asleep" THEN "wait" ELSE "idle")
  /\ UNCHANGED <<pool, group, caller, cur, job>>
-----------------------------------------------------------------------------
(* enqueue(): a row of tasks, each joined through its future.               *)
Enqueue(c, how) ==
  /\ \/ at[c] = "body" /\ runs[c] < MaxRuns /\ how \in Collecting
        /\ runs' = [runs EXCEPT ![c] = @ + 1]
        /\ cur' = [cur EXCEPT ![c] = how]
     \/ at[c] = "collect" /\ cur[c] = how /\ Len(fut[c]) < Count
        /\ UNCHANGED <<runs, cur>>
  /\ IF stop
     THEN Throw(c) /\ UNCHANGED <<tasks, toNotify>>
     ELSE /\ tasks' = Append(tasks, Job(how, c, Len(fut[c]) + 1))
          /\ fut' = [fut EXCEPT ![c] = Append(@, "pending")]
          /\ toNotify' = [toNotify EXCEPT ![c] = 1]
          /\ Goto(c, "notify") /\ UNCHANGED job
  /\ UNCHANGED <<dtor, group, frame>>

(* The futures of a complete row are taken in order: get() rethrows at the  *)
(* first error, wait() drops it.                                            *)
Collect(c) ==
  /\ at[c] = "collect" /\ Len(fut[c]) = Count
  /\ LET failed == {k \in 1..Count : fut[c][k] = "error"}
         open == {k \in 1..Count : fut[c][k] = "pending"}
         throws == cur[c] = "get" /\ \E k \in failed : \A o \in open : k < o
     IN  /\ throws \/ open = {}
         /\ Goto(c, IF throws THEN "idle" ELSE "body")
  /\ fut' = [fut EXCEPT ![c] = <<>>]
  /\ UNCHANGED <<pool, group, frame, runs, cur, job>>
-----------------------------------------------------------------------------
(* The loop of a worker.                                                    *)
Exits_Undrained == stop                     \* mutant: leaves tasks in the queue
Exits == stop /\ tasks = <<>>

Take(w) ==
  /\ at[w] = "idle"
  /\ IF tasks # <<>> /\ ~Exits
     THEN /\ job' = [job EXCEPT ![w] = Head(tasks)] /\ tasks' = Tail(tasks)
          /\ Goto(w, "run")
     ELSE /\ Goto(w, IF Exits THEN "exited" ELSE "sleeping")
          /\ UNCHANGED <<job, tasks>>
  /\ UNCHANGED <<dtor, toNotify, group, caller, cur>>

(* job.indexed(): the body of a batch job, inside try/catch.                *)
RunIndexed(w) ==
  /\ at[w] = "run" /\ job[w].kind \in {"stage", "product"}
  /\ \/ Goto(w, "dec") /\ UNCHANGED threw
     \/ /\ job[w].kind \in Throwing /\ Goto(w, "record")
        /\ threw' = [threw EXCEPT ![GroupOf(job[w])] = @ \cup {job[w]}]
  /\ UNCHANGED <<pool, remaining, firstError, mutex, caller, cur, job>>

(* job.standalone(): a packaged_task whose body computes an external        *)
(* product, level by level when it is already on a worker.                  *)
RunTask(w) ==
  /\ at[w] = "run" /\ job[w].kind \in Collecting \cup {Idle}
  /\ IF job[w].kind = Idle \/ OnWorkerThread(w)
     THEN /\ \/ FinishTask(w, "ready")
             \/ job[w].kind \in Throwing /\ FinishTask(w, "error")
          /\ UNCHANGED <<pool, group, frame, runs, cur>>
     ELSE Expect(w, "product") /\ UNCHANGED runs

(* Mutant: the test of firstError is inverted, so no error is ever kept.    *)
Record_Inverted(w) ==
  /\ at[w] = "record" /\ MutexFree(GroupOf(job[w]))
  /\ firstError' = [firstError EXCEPT ![GroupOf(job[w])] = IF @ = NoJob THEN @ ELSE job[w]]
  /\ Goto(w, "dec")
  /\ UNCHANGED <<pool, remaining, mutex, threw, caller, cur, job>>

(* TaskGroup::finish(), in its three steps.                                 *)
Record(w) ==
  /\ at[w] = "record" /\ MutexFree(GroupOf(job[w]))
  /\ firstError' = [firstError EXCEPT ![GroupOf(job[w])] = IF @ = NoJob THEN job[w] ELSE @]
  /\ Goto(w, "dec")
  /\ UNCHANGED <<pool, remaining, mutex, threw, caller, cur, job>>

Dec(w) ==
  /\ at[w] = "dec"
  /\ remaining' = [remaining EXCEPT ![GroupOf(job[w])] = @ - 1]
  /\ IF remaining[GroupOf(job[w])] = 1
     THEN Goto(w, "signal") /\ UNCHANGED job
     ELSE Goto(w, "idle") /\ job' = [job EXCEPT ![w] = NoJob]
  /\ UNCHANGED <<pool, firstError, mutex, threw, caller, cur>>

Signal(w) ==
  /\ at[w] = "signal" /\ MutexFree(GroupOf(job[w]))
  /\ at' = [t \in Threads |->
              IF t = w THEN "idle"
              ELSE IF at[t] = "asleep" /\ Waiting(t) = GroupOf(job[w]) THEN "wait" ELSE at[t]]
  /\ job' = [job EXCEPT ![w] = NoJob]
  /\ UNCHANGED <<pool, group, caller, cur>>
-----------------------------------------------------------------------------
(* ~ThreadPool(): the pool is a static, destroyed by exit().                *)
SetStop ==
  /\ dtor = "alive" /\ (StopAnytime \/ \A c \in Callers : at[c] = "idle")
  /\ dtor' = "stopped"
  /\ UNCHANGED <<tasks, toNotify, group, caller, at, cur, job>>

NotifyAll ==
  /\ dtor = "stopped" /\ dtor' = "notified"
  /\ at' = [t \in Threads |-> IF t \in Sleeping THEN "idle" ELSE at[t]]
  /\ UNCHANGED <<tasks, toNotify, group, caller, cur, job>>

Join ==
  /\ dtor = "notified" /\ \A w \in Workers : at[w] = "exited"
  /\ dtor' = "joined"
  /\ UNCHANGED <<tasks, toNotify, group, caller, at, cur, job>>

CallerStep(c) ==
  \/ Enter(c) \/ Leave(c) \/ RunStage(c) \/ Product(c) \/ StartWait(c)
  \/ Collect(c) \/ \E how \in {"wait", "get"} : Enqueue(c, how)
Protocol(t) ==
  \/ PushJobs(t) \/ NotifyOne(t) \/ WaitLoad(t) \/ WaitBlock(t) \/ WaitReturn(t)
Acquire(w) == Record(w) \/ Signal(w)
WorkerStep(w) == Take(w) \/ RunIndexed(w) \/ RunTask(w) \/ Dec(w)
Destroy == SetStop \/ NotifyAll \/ Join

Next ==
  \/ \E c \in Callers : CallerStep(c)
  \/ \E t \in Threads : Protocol(t) \/ SpuriousWakeup(t)
  \/ \E w \in Workers : WorkerStep(w) \/ Acquire(w)
  \/ Destroy

(* Every thread keeps running, the process exits once, and a mutex that is  *)
(* released again and again is granted at last.                             *)
Fairness ==
  /\ \A c \in Callers : WF_vars(CallerStep(c))
  /\ \A t \in Threads : WF_vars(Protocol(t))
  /\ \A w \in Workers : WF_vars(WorkerStep(w)) /\ SF_vars(Acquire(w))
  /\ WF_vars(NotifyAll) /\ WF_vars(Join)

Spec == Init /\ [][Next]_vars /\ Fairness
-----------------------------------------------------------------------------
(* As long as nothing throws between run() and wait(), neither the product  *)
(* there nor a run() on a stopped pool, no job runs or waits in the queue   *)
(* after the frame its callable captured is gone.  A row collected with     *)
(* get() is left at its first error, and makes no such promise.             *)
TasksInsideFrame ==
  LET Outside(j) == j.kind # "get" /\ ~InScope(j)
  IN  ~stop => /\ \A i \in DOMAIN tasks : ~Outside(tasks[i])
               /\ \A w \in Workers : at[w] \in {"run", "record", "dec"} => ~Outside(job[w])

(* TaskGroup is a "join for a batch of tasks" (multi_threading.h:19): once   *)
(* wait() has returned and the group is gone, no worker touches it.         *)
GroupOutlivesFinish ==
  \A w \in Workers : at[w] \in {"record", "dec", "signal"} => InScope(job[w])

(* A worker sleeps on a non-empty queue only while a notification is due,   *)
(* and the waiter of an empty group only while its last job is to signal.   *)
NoLostWakeup ==
  /\ tasks # <<>> /\ Sleeping = Workers =>
       dtor = "stopped" \/ \E t \in Threads : toNotify[t] > 0
  /\ \A t \in Threads : at[t] \in {"blocking", "asleep"} /\ remaining[Waiting(t)] = 0 =>
       \E w \in Workers : at[w] = "signal" /\ GroupOf(job[w]) = Waiting(t)

(* wait() reports a failure of its own batch when there was one, and never  *)
(* one of an earlier batch of the same group.                               *)
WaitReportsErrors ==
  [][\A c \in Callers : at[c] = "wait" /\ at'[c] \in {"body", "joining", "idle"} =>
       IF at'[c] = "idle" THEN firstError[Waiting(c)] \in threw[Waiting(c)]
                          ELSE threw[Waiting(c)] = {}]_vars

(* Every wait() and every row of futures ends, "or wait() hangs"            *)
(* (multi_threading.cpp:88), also when a job throws and when tasks running  *)
(* on the workers compute external products themselves.                     *)
JoinReturns ==
  \A c \in Callers : at[c] \in {"wait", "collect"} ~> at[c] \in {"body", "joining", "idle"}

(* The destructor ends, and everything in the queue has run by then.        *)
DestructorReturns == dtor = "stopped" ~> dtor = "joined" /\ tasks = <<>>
=============================================================================
