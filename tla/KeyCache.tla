------------------------------ MODULE KeyCache ------------------------------
(***************************************************************************)
(* ConcurrentKeyCache of ya_benchmark/include/blindrotate_serving.h: an    *)
(* LRU cache of bootstrapping keys shared by the serving workers.  A miss  *)
(* loads the key outside the mutex; threads that miss the same key in the  *)
(* meantime sleep on the condition variable of its LoadState.              *)
(*                                                                         *)
(* mutex_ is held for one action at a time.  A LoadState lives as long as  *)
(* a thread holds a pointer to it, and its name is then free for a later   *)
(* one.  The value of a key is the key itself.  The flags of the Acquired  *)
(* that acquire() returns name the action that ends it: hit is Hit,        *)
(* waitedForPeer is ReturnPeerValue, loadedHere is LoadSucceeds.           *)
(***************************************************************************)
EXTENDS Integers, Sequences

CONSTANTS
  Threads,      \* threads calling acquire()
  Keys,         \* tenants
  Loads,        \* names for LoadStates
  Capacity,     \* capacity_
  MaxFailures,  \* bound: how often a loader throws
  NoKey, NoLoad, NoThread

ASSUME CacheAssumption ==
  Capacity \in Nat /\ MaxFailures \in Nat /\ NoKey \notin Keys
  /\ NoLoad \notin Loads /\ NoThread \notin Threads

VARIABLES
  order,        \* order_, the most recently used key first
  index,        \* the keys of index_
  inflight,     \* inflight_
  done, value,  \* the fields of each LoadState
  at,           \* where each thread is
  key,          \* the argument of its acquire()
  state,        \* its pointer to a LoadState
  failures

shared == <<order, index, inflight, done, value, failures>>
vars == <<shared, at, key, state>>

TypeOK ==
  /\ order \in Seq(Keys) /\ Len(order) <= Capacity /\ index \subseteq Keys
  /\ inflight \in [Keys -> Loads \cup {NoLoad}]
  /\ done \in [Loads -> BOOLEAN] /\ value \in [Loads -> Keys \cup {NoKey}]
  /\ at \in [Threads -> {"idle", "entered", "loading", "asleep", "woken"}]
  /\ key \in [Threads -> Keys \cup {NoKey}]
  /\ state \in [Threads -> Loads \cup {NoLoad}]
  /\ failures \in 0..MaxFailures

Init ==
  /\ order = <<>> /\ index = {} /\ inflight = [k \in Keys |-> NoLoad]
  /\ done = [l \in Loads |-> FALSE] /\ value = [l \in Loads |-> NoKey]
  /\ at = [t \in Threads |-> "idle"] /\ key = [t \in Threads |-> NoKey]
  /\ state = [t \in Threads |-> NoLoad] /\ failures = 0

Elements(s) == {s[i] : i \in DOMAIN s}

(* order_.splice: the element at position p moves to the front.             *)
MoveToFront(s, p) ==
  [i \in 1..Len(s) |-> IF i = 1 THEN s[p] ELSE IF i <= p THEN s[i - 1] ELSE s[i]]


(* emplace_front, then pop_back while there are more than capacity_.        *)
PushFront(s, k) ==
  [i \in 1..(IF Len(s) < Capacity THEN Len(s) + 1 ELSE Capacity) |->
     IF i = 1 THEN k ELSE s[i - 1]]

Return(t) ==
  /\ at' = [at EXCEPT ![t] = "idle"]
  /\ key' = [key EXCEPT ![t] = NoKey]
  /\ state' = [state EXCEPT ![t] = NoLoad]

Call(t, k) ==
  /\ at[t] = "idle"
  /\ at' = [at EXCEPT ![t] = "entered"]
  /\ key' = [key EXCEPT ![t] = k]
  /\ UNCHANGED <<shared, state>>

(* The thread holds the mutex at the top of the loop: it has just entered,  *)
(* or has woken from a load that produced nothing.                          *)
AtLoop_Reload(t) ==                         \* mutant: a peer's value is not taken
  \/ at[t] = "entered"
  \/ at[t] = "woken" /\ done[state[t]]

AtLoop(t) ==
  \/ at[t] = "entered"
  \/ at[t] = "woken" /\ done[state[t]] /\ value[state[t]] = NoKey

Hit(t) ==
  /\ AtLoop(t) /\ key[t] \in index
  /\ \E p \in DOMAIN order : order[p] = key[t] /\ order' = MoveToFront(order, p)
  /\ Return(t)
  /\ UNCHANGED <<index, inflight, done, value, failures>>

InFlight_Never(k) == FALSE                  \* mutant: misses are not coalesced
InFlight(k) == inflight[k] # NoLoad

WaitForPeer(t) ==
  /\ AtLoop(t) /\ key[t] \notin index /\ InFlight(key[t])
  /\ state' = [state EXCEPT ![t] = inflight[key[t]]]
  /\ at' = [at EXCEPT ![t] = "asleep"]
  /\ UNCHANGED <<shared, key>>

(* Mutant: waiters hold a plain pointer to a LoadState owned by inflight_.  *)
Free_NotShared(l) == \A t \in Threads : at[t] = "loading" => state[t] # l
Free(l) == \A t \in Threads : state[t] # l

StartLoad(t) ==
  /\ AtLoop(t) /\ key[t] \notin index /\ ~InFlight(key[t])
  /\ \E l \in Loads :
       /\ Free(l)
       /\ inflight' = [inflight EXCEPT ![key[t]] = l]
       /\ done' = [done EXCEPT ![l] = FALSE] /\ value' = [value EXCEPT ![l] = NoKey]
       /\ state' = [state EXCEPT ![t] = l]
  /\ at' = [at EXCEPT ![t] = "loading"]
  /\ UNCHANGED <<order, index, key, failures>>

InsertLocked_KeepIndex(k) ==                \* mutant: index_ keeps evicted keys
  IF k \in index THEN UNCHANGED <<order, index>>
  ELSE order' = PushFront(order, k) /\ index' = index \cup {k}

InsertLocked(k) ==
  IF k \in index
  THEN UNCHANGED <<order, index>>
  ELSE /\ order' = PushFront(order, k)
       /\ index' = {x \in index \cup {k} :
                      Len(order) < Capacity \/ (Capacity > 0 /\ x # order[Len(order)])}

Finish_NoNotify(t) ==                       \* mutant: the waiters are not notified
  /\ done' = [done EXCEPT ![state[t]] = TRUE]
  /\ inflight' = [inflight EXCEPT ![key[t]] = NoLoad]
  /\ Return(t)

(* done, erase and notify_all, as the loader's thread returns or throws.    *)
Finish(t) ==
  /\ done' = [done EXCEPT ![state[t]] = TRUE]
  /\ inflight' = [inflight EXCEPT ![key[t]] = NoLoad]
  /\ at' = [u \in Threads |-> IF u = t THEN "idle"
                              ELSE IF at[u] = "asleep" /\ state[u] = state[t] THEN "woken" ELSE at[u]]
  /\ key' = [key EXCEPT ![t] = NoKey]
  /\ state' = [state EXCEPT ![t] = NoLoad]

LoadSucceeds(t) ==
  /\ at[t] = "loading"
  /\ InsertLocked(key[t])
  /\ value' = [value EXCEPT ![state[t]] = key[t]]
  /\ Finish(t)
  /\ UNCHANGED failures

LoadThrows(t) ==
  /\ at[t] = "loading" /\ failures < MaxFailures
  /\ failures' = failures + 1
  /\ Finish(t)
  /\ UNCHANGED <<order, index, value>>

(* cv.wait returns to its predicate.                                        *)
ReturnPeerValue(t) ==
  /\ at[t] = "woken" /\ done[state[t]] /\ value[state[t]] # NoKey
  /\ Return(t)
  /\ UNCHANGED shared

SleepAgain(t) ==
  /\ at[t] = "woken" /\ ~done[state[t]]
  /\ at' = [at EXCEPT ![t] = "asleep"]
  /\ UNCHANGED <<shared, key, state>>

SpuriousWakeup(t) ==
  /\ at[t] = "asleep"
  /\ at' = [at EXCEPT ![t] = "woken"]
  /\ UNCHANGED <<shared, key, state>>

Acquire(t) ==
  \/ Hit(t) \/ WaitForPeer(t) \/ StartLoad(t) \/ LoadSucceeds(t) \/ LoadThrows(t)
  \/ ReturnPeerValue(t) \/ SleepAgain(t)

Next == \E t \in Threads : (\E k \in Keys : Call(t, k)) \/ Acquire(t) \/ SpuriousWakeup(t)

(* Loads end, and a thread that is not asleep gets the mutex.  Nobody has   *)
(* to call acquire() or to wake without a notification.                     *)
Spec == Init /\ [][Next]_vars /\ \A t \in Threads : WF_vars(Acquire(t))
-----------------------------------------------------------------------------
(* Each key is loaded by at most one thread at a time, and never while it   *)
(* is resident: acquire() coalesces misses through inflight_.               *)
SingleLoader ==
  /\ \A t, u \in Threads : at[t] = "loading" /\ at[u] = "loading" /\ key[t] = key[u] => t = u
  /\ \A t \in Threads : at[t] = "loading" => key[t] \notin index

(* index_ holds the keys of order_, and no key is twice in order_: find,    *)
(* splice, insertLocked and the eviction agree, also at capacity 0.         *)
IndexMatchesOrder ==
  /\ index = Elements(order)
  /\ \A i, j \in DOMAIN order : order[i] = order[j] => i = j

(* A thread that sleeps on a LoadState has a thread that will notify it,    *)
(* and that thread is loading the key it asked for.                         *)
SleeperHasLoader ==
  \A t \in Threads :
    at[t] = "asleep" \/ (at[t] = "woken" /\ ~done[state[t]]) =>
      \E u \in Threads : at[u] = "loading" /\ state[u] = state[t] /\ key[u] = key[t]

(* A value handed over by a peer is the value of the key that was asked     *)
(* for, even when it was evicted before the waiter woke.                    *)
PeerValueMatches ==
  \A t \in Threads : at[t] = "woken" /\ done[state[t]] => value[state[t]] \in {key[t], NoKey}

(* Every acquire() returns or throws, unless loads fail for ever.           *)
AcquireReturns == \A t \in Threads : at[t] # "idle" ~> at[t] = "idle"

-----------------------------------------------------------------------------
(* The cache implements the single-flight service; it has promised a key to *)
(* the threads that a load which produced it has notified.                  *)
LoaderOf(k) ==
  IF inflight[k] = NoLoad THEN NoThread
  ELSE CHOOSE t \in Threads : at[t] = "loading" /\ key[t] = k
Promised == {t \in Threads : at[t] = "woken" /\ value[state[t]] # NoKey}

Service == INSTANCE SingleFlight WITH
  asked <- key, loader <- [k \in Keys |-> LoaderOf(k)],
  resident <- index, promised <- Promised
ImplementsSingleFlight == Service!Spec
=============================================================================
