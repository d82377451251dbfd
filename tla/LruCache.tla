------------------------------ MODULE LruCache ------------------------------
(***************************************************************************)
(* SimpleLRUCache of yautil/lru_cache.h, with the request and hit counters *)
(* that SimpleCacheManager (yautil/cache_manager.h) keeps for each of its  *)
(* three caches, which do not interact.  One thread uses it.  A node of    *)
(* the list has a name, which is what the iterators of node_map_ hold.     *)
(***************************************************************************)
EXTENDS Integers, Sequences, FiniteSets

CONSTANTS
  Keys,         \* key ids
  Nodes,        \* names for list nodes
  Capacities,   \* values of capacity_ that resize() may choose
  MaxRequests,  \* bound: requests counted between two resets
  NoNode

ASSUME LruAssumption ==
  Capacities \subseteq Nat /\ MaxRequests \in Nat /\ NoNode \notin Nodes

VARIABLES
  capacity, list, map,   \* capacity_, node_list_, node_map_
  requests, hits,        \* the counters of the manager
  since,                 \* history: of each key used since the last clear, the keys used after it
  failed                 \* history: a loader has thrown since the last clear

counters == <<requests, hits>>
history == <<since, failed>>
vars == <<capacity, list, map, counters, history>>

Node == [node : Nodes, key : Keys, loaded : BOOLEAN]

TypeOK ==
  /\ capacity \in Capacities /\ list \in Seq(Node)
  /\ Len(list) <= capacity \/ (capacity = 0 /\ Len(list) = 1)
  /\ map \in [Keys -> Nodes \cup {NoNode}]
  /\ requests \in 0..MaxRequests /\ hits \in 0..requests
  /\ since \in UNION {[used -> SUBSET Keys] : used \in SUBSET Keys} /\ failed \in BOOLEAN

Init ==
  /\ capacity \in Capacities /\ list = <<>> /\ map = [k \in Keys |-> NoNode]
  /\ requests = 0 /\ hits = 0 /\ since = [k \in {} |-> {}] /\ failed = FALSE

Use(k) ==
  /\ since' = [e \in DOMAIN since \cup {k} |-> IF e = k THEN {} ELSE since[e] \cup {k}]
  /\ UNCHANGED failed
Cached(k) == map[k] # NoNode

(* node_list_.splice: the node of k moves to the front; put() stores into it. *)
Splice(k, stored) ==
  LET p == CHOOSE i \in DOMAIN list : list[i].node = map[k]
  IN  [i \in 1..Len(list) |->
         IF i = 1 THEN [list[p] EXCEPT !.loaded = @ \/ stored]
         ELSE IF i <= p THEN list[i - 1] ELSE list[i]]

(* evict(): the key of the last node leaves the map.                        *)
Full == Len(list) >= capacity

EvictedMap_Keep == map                      \* mutant: the map keeps the evicted key
EvictedMap ==
  IF Full /\ list # <<>> THEN [map EXCEPT ![list[Len(list)].key] = NoNode] ELSE map
EvictedList == IF Full /\ list # <<>> THEN SubSeq(list, 1, Len(list) - 1) ELSE list

Unused(n) == \A i \in DOMAIN EvictedList : EvictedList[i].node # n

Insert(k) ==
  \E n \in Nodes :
    /\ Unused(n)
    /\ list' = <<[node |-> n, key |-> k, loaded |-> TRUE]>> \o EvictedList
    /\ map' = [EvictedMap EXCEPT ![k] = n]
    /\ Use(k)

(* loadAndInsert: the node is in the list before the loader runs, and in    *)
(* the map only after it has returned.  It throws when the file is missing. *)
InsertUnloaded(k) ==
  /\ \E n \in Nodes :
       Unused(n) /\ list' = <<[node |-> n, key |-> k, loaded |-> FALSE]>> \o EvictedList
  /\ map' = EvictedMap
  /\ failed' = TRUE /\ UNCHANGED since

Touch_Stay(k, stored) == UNCHANGED <<list, map>> /\ Use(k)   \* mutant: a hit does not reorder
Touch(k, stored) == list' = Splice(k, stored) /\ UNCHANGED map /\ Use(k)

Count(hit) ==
  /\ requests < MaxRequests
  /\ requests' = requests + 1
  /\ hits' = hits + (IF hit THEN 1 ELSE 0)

(* getGinxKey, getLazyKey, getWWL24Key: get().                              *)
Get(k) ==
  /\ IF Cached(k) THEN Touch(k, FALSE) ELSE Insert(k) \/ InsertUnloaded(k)
  /\ Count(Cached(k))
  /\ UNCHANGED capacity

(* get...KeySimple: getSimple(), which never loads.                         *)
GetSimple(k) ==
  /\ IF Cached(k) THEN Touch(k, FALSE) ELSE UNCHANGED <<list, map, history>>
  /\ Count(Cached(k))
  /\ UNCHANGED capacity

(* preload...Keys: get() for one id, uncounted.                             *)
Preload(k) ==
  /\ IF Cached(k) THEN Touch(k, FALSE) ELSE Insert(k) \/ InsertUnloaded(k)
  /\ UNCHANGED <<capacity, counters>>

(* put...Key: put().                                                        *)
Put(k) ==
  /\ IF Cached(k) THEN Touch(k, TRUE) ELSE Insert(k)
  /\ UNCHANGED <<capacity, counters>>

Emptied ==
  /\ list' = <<>> /\ map' = [k \in Keys |-> NoNode]
  /\ since' = [k \in {} |-> {}] /\ failed' = FALSE
ResetStats == requests' = 0 /\ hits' = 0 /\ UNCHANGED <<capacity, list, map, history>>
ClearAll == Emptied /\ requests' = 0 /\ hits' = 0 /\ UNCHANGED capacity
Resize(c) == Emptied /\ capacity' = c /\ UNCHANGED counters

Next ==
  \/ \E k \in Keys : Get(k) \/ GetSimple(k) \/ Preload(k) \/ Put(k)
  \/ ResetStats \/ ClearAll \/ \E c \in Capacities : Resize(c)

Spec == Init /\ [][Next]_vars
-----------------------------------------------------------------------------
(* Until a loader throws, the cache holds the most recently used keys, as   *)
(* many as it has room for, in order of their last use: what is evicted is  *)
(* the least recently used.  Capacity 0 keeps one key.                      *)
Room == IF capacity = 0 THEN 1 ELSE capacity
KeysBefore(n) == {list[j].key : j \in 1..n - 1}

HoldsMostRecent ==
  ~failed =>
    /\ KeysBefore(Len(list) + 1) = {k \in DOMAIN since : Cardinality(since[k]) < Room}
    /\ \A i \in DOMAIN list : since[list[i].key] = KeysBefore(i)

(* No iterator of node_map_ dangles, whatever the loader does: a mapped     *)
(* node is in the list, under its key, and loaded.  Until a loader throws,  *)
(* no other node is listed under that key, and none under a key not mapped. *)
NoDanglingIterator ==
  \A k \in Keys :
    /\ Cached(k) =>
         \E i \in DOMAIN list : list[i].node = map[k] /\ list[i].key = k /\ list[i].loaded
    /\ ~failed =>
         \A i \in DOMAIN list : list[i].key = k => list[i].node = map[k]
=============================================================================
