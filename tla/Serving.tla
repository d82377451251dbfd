------------------------------ MODULE Serving -------------------------------
(***************************************************************************)
(* runServing of ya_benchmark/blindrotate_serving.cpp: a producer pushes   *)
(* requests into the Scheduler; each worker pops one, acquires the key of  *)
(* its tenant from the ConcurrentKeyCache, rotates, and records the        *)
(* completion.  The two components share nothing but the workers.  A       *)
(* loader that throws ends the process: nothing catches the exception of a *)
(* worker's thread.                                                        *)
(***************************************************************************)
EXTENDS Scheduler, KeyCache

VARIABLES
  acquired,     \* how each worker got the key of the request it serves
  sink,         \* perWorker: the completions
  warm          \* history: the keys the warm-up left in the cache

servingVars == <<queueVars, vars, acquired, sink, warm>>

\* The workers are the threads that acquire keys, and the tenants are the keys.
ASSUME ServingAssumption ==
  Threads = Workers /\ Keys = Tenants /\ IsFiniteSet(Keys)

Completion == [id : 1..MaxRequests, tenant : Keys, how : {"hit", "waited", "loaded"}]

ServingTypeOK ==
  /\ TypeOK /\ QueueTypeOK
  /\ acquired \in [Threads -> {"none", "hit", "waited", "loaded"}]
  /\ sink \in [Threads -> SUBSET Completion] /\ warm \subseteq Keys

(* The warm-up acquires the first requests of the pattern one by one, which *)
(* leaves the last distinct tenants of them in the cache.                   *)
Warmed ==
  {s \in UNION {[1..n -> Keys] : n \in 0..Capacity} :
     \A i, j \in DOMAIN s : s[i] = s[j] => i = j}

ServingInit ==
  /\ QueueInit
  /\ order \in Warmed /\ index = Elements(order) /\ warm = index
  /\ inflight = [k \in Keys |-> NoLoad]
  /\ done = [l \in Loads |-> FALSE] /\ value = [l \in Loads |-> NoKey]
  /\ at = [w \in Threads |-> "idle"] /\ key = [w \in Threads |-> NoKey]
  /\ state = [w \in Threads |-> NoLoad] /\ failures = 0
  /\ acquired = [w \in Threads |-> "none"] /\ sink = [w \in Threads |-> {}]

Running == failures = 0             \* no exception has ended the process

Submit ==
  /\ Running /\ Produce
  /\ UNCHANGED <<vars, acquired, sink, warm>>

Idle(w) ==
  /\ Running /\ (Sleep(w) \/ GiveUp(w))
  /\ UNCHANGED <<vars, acquired, sink, warm>>

TakenBy(w) == CHOOSE i \in DOMAIN taken : taken[i].by = w
                /\ \A j \in DOMAIN taken : taken[j].by = w => j <= i

(* pop() has returned a request: acquire() its key.                         *)
Start(w) ==
  /\ Running /\ Take(w)
  /\ Call(w, taken'[Len(taken')].tenant)
  /\ UNCHANGED <<acquired, sink, warm>>

Keep(w, how) == acquired' = [acquired EXCEPT ![w] = how]

GetKey(w) ==
  /\ Running
  /\ \/ Hit(w) /\ Keep(w, "hit")
     \/ ReturnPeerValue(w) /\ Keep(w, "waited")
     \/ LoadSucceeds(w) /\ Keep(w, "loaded")
     \/ (WaitForPeer(w) \/ StartLoad(w) \/ SleepAgain(w)) /\ UNCHANGED acquired
  /\ UNCHANGED <<queueVars, sink, warm>>

Abort(w) ==
  /\ Running /\ LoadThrows(w)
  /\ UNCHANGED <<queueVars, acquired, sink, warm>>

Complete(w) ==
  /\ Running /\ acquired[w] # "none" /\ Served(w)
  /\ sink' = [sink EXCEPT ![w] = @ \cup
                {[id |-> taken[TakenBy(w)].id, tenant |-> taken[TakenBy(w)].tenant,
                  how |-> acquired[w]]}]
  /\ Keep(w, "none")
  /\ UNCHANGED <<vars, warm>>

Wakeup(w) ==
  /\ Running
  /\ \/ WakeUnasked(w) /\ UNCHANGED vars
     \/ SpuriousWakeup(w) /\ UNCHANGED queueVars
  /\ UNCHANGED <<acquired, sink, warm>>

Worker(w) == Idle(w) \/ Start(w) \/ GetKey(w) \/ Complete(w)

ServingNext == Submit \/ \E w \in Threads : Worker(w) \/ Abort(w) \/ Wakeup(w)

(* The producer and every worker keep running; loads and rotations end.      *)
ServingSpec ==
  /\ ServingInit /\ [][ServingNext]_servingVars
  /\ WF_servingVars(Submit) /\ \A w \in Threads : WF_servingVars(Worker(w))
-----------------------------------------------------------------------------
Completed == UNION {sink[w] : w \in Threads}

(* "shed_plus_completed": the requests shed and the completions of all       *)
(* workers are the requests, none of them twice.                            *)
ShedPlusCompleted ==
  /\ shed \cup {c.id : c \in Completed} = 1..MaxRequests
  /\ Cardinality(shed) + Cardinality(Completed) = MaxRequests

(* With affinity a tenant has one worker, so no worker ever waits for the    *)
(* load of another: coalesced_loads is 0.                                    *)
AffinityNeverCoalesces ==
  mode = "affinity" => \A w \in Threads : at[w] # "asleep" /\ acquired[w] # "waited"

(* While the tenants fit into the cache, a key is loaded at most once, and   *)
(* never when the warm-up has loaded it: every other request hits or waits.  *)
LoadedOnce ==
  Cardinality(Keys) <= Capacity =>
    \A k \in Keys :
      Cardinality({c \in Completed : c.tenant = k /\ c.how = "loaded"})
        + Cardinality({w \in Threads : key[w] = k /\ at[w] = "loading"})
        + Cardinality({w \in Threads : acquired[w] = "loaded" /\ taken[TakenBy(w)].tenant = k})
      <= (IF k \in warm THEN 0 ELSE 1)

(* Unless a loader throws, every worker leaves, so that runServing joins its *)
(* threads, and every request has been shed or completed, once.              *)
AllCompleted ==
  <>[](failures > 0 \/ (ShedPlusCompleted /\ \A w \in Threads : popping[w] = "gone"))
=============================================================================
