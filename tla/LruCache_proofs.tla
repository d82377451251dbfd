--------------------------- MODULE LruCache_proofs ---------------------------
(***************************************************************************)
(* No iterator of node_map_ dangles, and the cache holds the most recently *)
(* used keys until a loader throws, for any set of keys, at any capacity,  *)
(* 0 included.                                                             *)
(***************************************************************************)
EXTENDS LruCache, SequenceTheorems, FiniteSetTheorems, TLAPS

(***************************************************************************)
(* The inductive invariant: a node is in the list once.                    *)
(***************************************************************************)
Shape ==
  /\ list \in Seq(Node)
  /\ map \in [Keys -> Nodes \cup {NoNode}]

Distinct(s) == \A i, j \in 1..Len(s) : s[i].node = s[j].node => i = j

IInv == Shape /\ Distinct(list) /\ NoDanglingIterator

\* NoDanglingIterator of a list and a map, and of whether a loader has thrown.
Mapped(s, m) ==
  \A k \in Keys : m[k] # NoNode =>
    \E i \in 1..Len(s) : s[i].node = m[k] /\ s[i].key = k /\ s[i].loaded
Listed(s, m) == \A k \in Keys : \A i \in 1..Len(s) : s[i].key = k => s[i].node = m[k]

LEMMA Parts == Shape => (NoDanglingIterator <=> Mapped(list, map) /\ (~failed => Listed(list, map)))
<1> SUFFICES ASSUME Shape
             PROVE  NoDanglingIterator <=> Mapped(list, map) /\ (~failed => Listed(list, map))
  OBVIOUS
<1>1. DOMAIN list = 1..Len(list)
  BY DEF Shape
<1> QED
  BY <1>1, Zenon DEF NoDanglingIterator, Mapped, Listed, Cached

LEMMA PartsNext ==
  ASSUME Shape', Mapped(list', map'), ~failed' => Listed(list', map')
  PROVE  NoDanglingIterator'
<1>1. DOMAIN list' = 1..Len(list')
  BY DEF Shape
<1> QED
  BY <1>1, Zenon DEF NoDanglingIterator, Mapped, Listed, Cached

(***************************************************************************)
(* Eviction and insertion.                                                 *)
(***************************************************************************)
LEMMA EvictedPart ==
  ASSUME Shape, Full, list # <<>>
  PROVE  /\ EvictedList \in Seq(Node) /\ Len(EvictedList) = Len(list) - 1
         /\ \A i \in 1..Len(list) - 1 : EvictedList[i] = list[i]
<1> DEFINE s == EvictedList
           q == Len(list) - 1
<1>1. Len(list) \in Nat \ {0} /\ \A i \in 1..Len(list) : list[i] \in Node
  BY EmptySeq, ElementOfSeq DEF Shape
<1>2. s = SubSeq(list, 1, q) /\ q \in Nat /\ q \in Int /\ 1 \in Int /\ \A i \in 1..q : list[i] \in Node
  BY <1>1 DEF EvictedList
<1> HIDE DEF s, q
<1>3. /\ SubSeq(list, 1, q) \in Seq(Node)
      /\ Len(SubSeq(list, 1, q)) = IF 1 <= q THEN q - 1 + 1 ELSE 0
      /\ \A i \in 1..q - 1 + 1 : SubSeq(list, 1, q)[i] = list[1 + i - 1]
  BY <1>2, SubSeqProperties
<1>4. q - 1 + 1 = q /\ (IF 1 <= q THEN q - 1 + 1 ELSE 0) = q /\ \A i \in 1..q : 1 + i - 1 = i
  BY <1>2
<1>5. \A i \in 1..q : s[i] = list[i]
  BY <1>2, <1>3, <1>4
<1> QED
  BY <1>2, <1>3, <1>4, <1>5 DEF s, q

\* What evict() leaves is as sound as what it found, and the key of a node that
\* leaves the list leaves the map.
LEMMA EvictionKeeps ==
  ASSUME IInv
  PROVE  /\ EvictedList \in Seq(Node) /\ Distinct(EvictedList)
         /\ EvictedMap \in [Keys -> Nodes \cup {NoNode}]
         /\ \A k \in Keys : map[k] = NoNode => EvictedMap[k] = NoNode
         /\ Mapped(EvictedList, EvictedMap)
         /\ ~failed => Listed(EvictedList, EvictedMap)
<1>1. list \in Seq(Node) /\ map \in [Keys -> Nodes \cup {NoNode}] /\ Distinct(list)
      /\ Mapped(list, map) /\ (~failed => Listed(list, map))
  BY Parts DEF IInv, Shape
<1>2. CASE ~(Full /\ list # <<>>)
  BY <1>1, <1>2 DEF EvictedList, EvictedMap
<1>3. CASE Full /\ list # <<>>
  <2> DEFINE n == Len(list)
             s == EvictedList
             m == EvictedMap
  <2>1. n \in Nat \ {0} /\ \A i \in 1..n : list[i] \in Node
    BY <1>1, <1>3, LenProperties, EmptySeq, ElementOfSeq
  <2>2. s = SubSeq(list, 1, n - 1) /\ m = [map EXCEPT ![list[n].key] = NoNode]
    BY <1>3 DEF EvictedList, EvictedMap
  <2>3. s \in Seq(Node) /\ Len(s) = n - 1 /\ \A i \in 1..n - 1 : s[i] = list[i]
    BY <1>1, <1>3, EvictedPart DEF IInv
  <2>4. list[n].key \in Keys
    BY <2>1 DEF Node
  <2>5. /\ m \in [Keys -> Nodes \cup {NoNode}]
        /\ m[list[n].key] = NoNode /\ \A k \in Keys : k # list[n].key => m[k] = map[k]
    BY <1>1, <2>2, <2>4
  <2> HIDE DEF s, m
  <2>6. Distinct(s)
    BY <1>1, <2>1, <2>3 DEF Distinct
  <2>7. Mapped(s, m)
    <3> SUFFICES ASSUME NEW k \in Keys, m[k] # NoNode
                 PROVE  \E i \in 1..Len(s) : s[i].node = m[k] /\ s[i].key = k /\ s[i].loaded
      BY DEF Mapped
    <3>1. k # list[n].key /\ m[k] = map[k]
      BY <2>5
    <3>2. PICK i \in 1..n : list[i].node = map[k] /\ list[i].key = k /\ list[i].loaded
      BY <1>1, <3>1 DEF Mapped
    <3>3. i \in 1..Len(s) /\ s[i] = list[i]
      BY <2>1, <2>3, <3>1, <3>2
    <3> QED
      BY <3>1, <3>2, <3>3
  <2>8. ASSUME ~failed PROVE Listed(s, m)
    <3> SUFFICES ASSUME NEW k \in Keys, NEW i \in 1..Len(s), s[i].key = k
                 PROVE  s[i].node = m[k]
      BY DEF Listed
    <3>1. i \in 1..n /\ i # n /\ s[i] = list[i]
      BY <2>1, <2>3
    <3>2. list[i].node = map[k]
      BY <1>1, <2>8, <3>1 DEF Listed
    <3>3. k # list[n].key
      BY <1>1, <2>1, <2>8, <3>1, <3>2 DEF Listed, Distinct
    <3> QED
      BY <2>5, <3>1, <3>2, <3>3
  <2> QED
    BY <2>3, <2>5, <2>6, <2>7, <2>8 DEF s, m
<1> QED
  BY <1>2, <1>3

LEMMA PushKeeps ==
  ASSUME NEW s \in Seq(Node), Distinct(s), NEW x \in Node,
         \A i \in DOMAIN s : s[i].node # x.node
  PROVE  LET r == <<x>> \o s
         IN /\ r \in Seq(Node) /\ Len(s) \in Nat /\ Len(r) = Len(s) + 1 /\ r[1] = x
            /\ \A i \in 1..Len(s) : i + 1 \in 1..Len(r) /\ r[i + 1] = s[i]
            /\ \A i \in 1..Len(r) : i = 1 \/ (i - 1 \in 1..Len(s) /\ r[i] = s[i - 1])
            /\ Distinct(r)
<1> DEFINE r == <<x>> \o s
<1>1. <<x>> \in Seq(Node) /\ Len(<<x>>) = 1 /\ <<x>>[1] = x
  OBVIOUS
<1>2. /\ Len(s) \in Nat /\ DOMAIN s = 1..Len(s)
      /\ r \in Seq(Node) /\ Len(r) = Len(s) + 1
      /\ \A i \in 1..Len(s) + 1 : r[i] = IF i <= 1 THEN <<x>>[i] ELSE s[i - 1]
  BY <1>1, ConcatProperties, LenProperties
<1> HIDE DEF r
<1>3. r[1] = x /\ \A i \in 1..Len(s) : i + 1 \in 1..Len(r) /\ r[i + 1] = s[i]
  BY <1>1, <1>2
<1>4. \A i \in 1..Len(r) : i = 1 \/ (i - 1 \in 1..Len(s) /\ r[i] = s[i - 1])
  BY <1>2
<1>5. Distinct(r)
  <2> SUFFICES ASSUME NEW i \in 1..Len(r), NEW j \in 1..Len(r), r[i].node = r[j].node
               PROVE  i = j
    BY DEF Distinct
  <2>1. CASE i = 1 /\ j # 1
    BY <1>2, <1>3, <1>4, <2>1
  <2>2. CASE j = 1 /\ i # 1
    BY <1>2, <1>3, <1>4, <2>2
  <2>3. CASE i # 1 /\ j # 1
    <3>1. i - 1 = j - 1
      BY <1>4, <2>3 DEF Distinct
    <3> QED
      BY <1>2, <3>1
  <2> QED
    BY <2>1, <2>2, <2>3
<1> QED
  BY <1>2, <1>3, <1>4, <1>5 DEF r

LEMMA InsertInductive ==
  ASSUME IInv, NEW k \in Keys, ~Cached(k), Insert(k)
  PROVE  IInv'
<1>1. PICK n \in Nodes :
        /\ Unused(n)
        /\ list' = <<[node |-> n, key |-> k, loaded |-> TRUE]>> \o EvictedList
        /\ map' = [EvictedMap EXCEPT ![k] = n]
        /\ failed' = failed
  BY DEF Insert, Use
<1> DEFINE x == [node |-> n, key |-> k, loaded |-> TRUE]
           s == EvictedList
           m == EvictedMap
<1>2. x \in Node /\ x.node = n /\ x.key = k /\ x.loaded /\ map[k] = NoNode
  BY DEF Node, Cached
<1>3. /\ s \in Seq(Node) /\ Distinct(s) /\ m \in [Keys -> Nodes \cup {NoNode}]
      /\ m[k] = NoNode /\ Mapped(s, m) /\ (~failed => Listed(s, m))
  BY <1>2, EvictionKeeps
<1> HIDE DEF x, s, m
<1>4. list' = <<x>> \o s /\ \A i \in DOMAIN s : s[i].node # x.node
  BY <1>1, <1>2 DEF Unused, s, x
<1>5. /\ list' \in Seq(Node) /\ Len(s) \in Nat /\ Len(list') = Len(s) + 1 /\ list'[1] = x
      /\ \A i \in 1..Len(s) : i + 1 \in 1..Len(list') /\ list'[i + 1] = s[i]
      /\ \A i \in 1..Len(list') : i = 1 \/ (i - 1 \in 1..Len(s) /\ list'[i] = s[i - 1])
      /\ Distinct(list')
  BY <1>2, <1>3, <1>4, PushKeeps
<1>6. /\ map' \in [Keys -> Nodes \cup {NoNode}] /\ map'[k] = n
      /\ \A h \in Keys : h # k => map'[h] = m[h]
  BY <1>1, <1>3 DEF m
<1>7. Mapped(list', map')
  <2> SUFFICES ASSUME NEW h \in Keys, map'[h] # NoNode
               PROVE  \E i \in 1..Len(list') :
                        list'[i].node = map'[h] /\ list'[i].key = h /\ list'[i].loaded
    BY DEF Mapped
  <2>1. CASE h = k
    BY <1>2, <1>5, <1>6, <2>1, 1 \in 1..Len(list')
  <2>2. CASE h # k
    BY <1>3, <1>5, <1>6, <2>2 DEF Mapped
  <2> QED
    BY <2>1, <2>2
<1>8. ASSUME ~failed PROVE Listed(list', map')
  <2> SUFFICES ASSUME NEW i \in 1..Len(list') PROVE list'[i].node = map'[list'[i].key]
    BY DEF Listed
  <2>1. CASE i = 1
    BY <1>2, <1>5, <1>6, <2>1
  <2>2. CASE i # 1
    <3>1. i - 1 \in 1..Len(s) /\ list'[i] = s[i - 1]
      BY <1>5, <2>2
    <3>2. s[i - 1] \in Node
      BY <1>3, <3>1, ElementOfSeq
    <3>3. s[i - 1].key \in Keys /\ s[i - 1].node \in Nodes
      BY <3>2 DEF Node
    <3>4. s[i - 1].node = m[s[i - 1].key]
      BY <1>3, <1>8, <3>1, <3>3 DEF Listed
    <3>5. s[i - 1].key # k
      BY <1>3, <3>3, <3>4, LruAssumption
    <3> QED
      BY <1>6, <3>1, <3>3, <3>4, <3>5
  <2> QED
    BY <2>1, <2>2
<1>9. Shape'
  BY <1>5, <1>6 DEF Shape
<1> QED
  BY <1>1, <1>5, <1>7, <1>8, <1>9, PartsNext DEF IInv

\* The node of a loader that throws stays in the list, and no key is mapped to it.
LEMMA InsertUnloadedInductive ==
  ASSUME IInv, NEW k \in Keys, ~Cached(k), InsertUnloaded(k)
  PROVE  IInv'
<1>1. PICK n \in Nodes :
        /\ Unused(n)
        /\ list' = <<[node |-> n, key |-> k, loaded |-> FALSE]>> \o EvictedList
        /\ map' = EvictedMap /\ failed' = TRUE
  BY DEF InsertUnloaded
<1> DEFINE x == [node |-> n, key |-> k, loaded |-> FALSE]
           s == EvictedList
<1>2. x \in Node /\ x.node = n
  BY DEF Node
<1>3. /\ s \in Seq(Node) /\ Distinct(s) /\ map' \in [Keys -> Nodes \cup {NoNode}]
      /\ Mapped(s, map')
  BY <1>1, EvictionKeeps
<1> HIDE DEF x, s
<1>4. list' = <<x>> \o s /\ \A i \in DOMAIN s : s[i].node # x.node
  BY <1>1, <1>2 DEF Unused, s, x
<1>5. /\ list' \in Seq(Node) /\ Len(s) \in Nat
      /\ \A i \in 1..Len(s) : i + 1 \in 1..Len(list') /\ list'[i + 1] = s[i]
      /\ Distinct(list')
  BY <1>2, <1>3, <1>4, PushKeeps
<1>6. Mapped(list', map')
  BY <1>3, <1>5 DEF Mapped
<1>7. Shape'
  BY <1>3, <1>5 DEF Shape
<1> QED
  BY <1>1, <1>5, <1>6, <1>7, PartsNext DEF IInv

(***************************************************************************)
(* Use of a cached key.                                                    *)
(***************************************************************************)
LEMMA TouchInductive ==
  ASSUME IInv, NEW k \in Keys, Cached(k), NEW stored \in BOOLEAN, Touch(k, stored)
  PROVE  IInv'
<1> DEFINE p == CHOOSE i \in DOMAIN list : list[i].node = map[k]
           x == [list[p] EXCEPT !.loaded = @ \/ stored]
           Old(i) == IF i = 1 THEN p ELSE IF i <= p THEN i - 1 ELSE i
           New(i) == IF i = p THEN 1 ELSE IF i < p THEN i + 1 ELSE i
<1>1. /\ list \in Seq(Node) /\ map \in [Keys -> Nodes \cup {NoNode}] /\ Distinct(list)
      /\ Mapped(list, map) /\ (~failed => Listed(list, map))
      /\ Len(list) \in Nat /\ DOMAIN list = 1..Len(list)
  BY Parts, LenProperties DEF IInv, Shape
<1>2. p \in 1..Len(list) /\ list[p].node = map[k]
  <2>1. \E i \in 1..Len(list) : list[i].node = map[k]
    BY <1>1 DEF Mapped, Cached
  <2> QED
    BY <1>1, <2>1
<1>3. /\ map' = map /\ failed' = failed
      /\ list' = [i \in 1..Len(list) |->
                    IF i = 1 THEN x ELSE IF i <= p THEN list[i - 1] ELSE list[i]]
  BY DEF Touch, Use, Splice
<1> HIDE DEF p
<1>4. list[p] \in Node
  BY <1>1, <1>2, ElementOfSeq
<1>5. x \in Node /\ x.node = list[p].node /\ x.key = list[p].key /\ (list[p].loaded => x.loaded)
  BY <1>4 DEF Node
<1> HIDE DEF x
<1>6. list' \in [1..Len(list) -> Node]
  <2>1. \A i \in 1..Len(list) : i # 1 /\ i <= p => i - 1 \in 1..Len(list) /\ list[i - 1] \in Node
    BY <1>1, <1>2, ElementOfSeq
  <2>2. \A i \in 1..Len(list) : list[i] \in Node
    BY <1>1, ElementOfSeq
  <2> QED
    BY <1>3, <1>5, <2>1, <2>2
<1>7. list' \in Seq(Node) /\ Len(list') = Len(list)
  BY <1>1, <1>6, LenProperties
<1>8. /\ \A i \in 1..Len(list) :
           /\ Old(i) \in 1..Len(list) /\ New(i) \in 1..Len(list) /\ Old(New(i)) = i
           /\ New(Old(i)) = i
           /\ list'[i].node = list[Old(i)].node /\ list'[i].key = list[Old(i)].key
           /\ list[Old(i)].loaded => list'[i].loaded
  <2> SUFFICES ASSUME NEW i \in 1..Len(list)
               PROVE  /\ Old(i) \in 1..Len(list) /\ New(i) \in 1..Len(list) /\ Old(New(i)) = i
                      /\ New(Old(i)) = i
                      /\ list'[i].node = list[Old(i)].node /\ list'[i].key = list[Old(i)].key
                      /\ list[Old(i)].loaded => list'[i].loaded
    OBVIOUS
  <2>1. Old(i) \in 1..Len(list) /\ New(i) \in 1..Len(list) /\ Old(New(i)) = i /\ New(Old(i)) = i
    BY <1>1, <1>2
  <2>2. list'[i] = IF i = 1 THEN x ELSE IF i <= p THEN list[i - 1] ELSE list[i]
    BY <1>3
  <2> QED
    BY <1>5, <2>1, <2>2
<1> HIDE DEF Old, New
<1>9. Distinct(list')
  <2> SUFFICES ASSUME NEW i \in 1..Len(list), NEW j \in 1..Len(list), list'[i].node = list'[j].node
               PROVE  i = j
    BY <1>7 DEF Distinct
  <2>1. /\ Old(i) \in 1..Len(list) /\ Old(j) \in 1..Len(list)
        /\ list[Old(i)].node = list[Old(j)].node /\ New(Old(i)) = i /\ New(Old(j)) = j
    BY <1>8
  <2>2. Old(i) = Old(j)
    BY <1>1, <2>1 DEF Distinct
  <2> QED
    BY <2>1, <2>2
<1>10. Mapped(list', map')
  <2> SUFFICES ASSUME NEW h \in Keys, map[h] # NoNode
               PROVE  \E i \in 1..Len(list) :
                        list'[i].node = map[h] /\ list'[i].key = h /\ list'[i].loaded
    BY <1>3, <1>7 DEF Mapped
  <2>1. PICK i \in 1..Len(list) : list[i].node = map[h] /\ list[i].key = h /\ list[i].loaded
    BY <1>1 DEF Mapped
  <2>2. PICK j \in 1..Len(list) : Old(j) = i
    BY <1>8
  <2>3. /\ list'[j].node = list[Old(j)].node /\ list'[j].key = list[Old(j)].key
        /\ list[Old(j)].loaded => list'[j].loaded
    BY <1>8
  <2> QED
    BY <2>1, <2>2, <2>3
<1>11. ~failed => Listed(list', map')
  <2> SUFFICES ASSUME ~failed, NEW i \in 1..Len(list)
               PROVE  list'[i].node = map[list'[i].key]
    BY <1>3, <1>7 DEF Listed
  <2>1. /\ Old(i) \in 1..Len(list)
        /\ list'[i].node = list[Old(i)].node /\ list'[i].key = list[Old(i)].key
    BY <1>8
  <2>2. list[Old(i)].key \in Keys
    <3>1. list[Old(i)] \in Node
      BY <1>1, <2>1, ElementOfSeq
    <3> QED
      BY <3>1 DEF Node
  <2>3. list[Old(i)].node = map[list[Old(i)].key]
    BY <1>1, <2>1, <2>2 DEF Listed
  <2> QED
    BY <2>1, <2>3
<1> QED
  BY <1>1, <1>3, <1>7, <1>9, <1>10, <1>11, PartsNext DEF IInv, Shape

(***************************************************************************)
(* Clearing, and all steps.                                                *)
(***************************************************************************)
LEMMA EmptiedInductive ==
  ASSUME list' = <<>>, map' = [k \in Keys |-> NoNode]
  PROVE  IInv'
<1>1. Shape'
  BY EmptySeq DEF Shape
<1>2. Len(list') = 0
  BY EmptySeq
<1>3. Distinct(list') /\ Mapped(list', map') /\ Listed(list', map')
  BY <1>2 DEF Distinct, Mapped, Listed
<1> QED
  BY <1>1, <1>3, PartsNext DEF IInv

LEMMA InitInductive == Init => IInv
<1> SUFFICES ASSUME Init PROVE IInv
  OBVIOUS
<1>1. Shape
  BY EmptySeq DEF Init, Shape
<1>2. Len(list) = 0
  BY EmptySeq DEF Init
<1>3. Distinct(list) /\ Mapped(list, map) /\ Listed(list, map)
  BY <1>2 DEF Init, Distinct, Mapped, Listed
<1> QED
  BY <1>1, <1>3, Parts DEF IInv

LEMMA UnchangedInductive ==
  ASSUME IInv, UNCHANGED <<list, map, failed>>
  PROVE  IInv'
BY DEF IInv, Shape, Distinct, NoDanglingIterator, Cached

LEMMA NextInductive == IInv /\ [Next]_vars => IInv'
<1> SUFFICES ASSUME IInv, [Next]_vars PROVE IInv'
  OBVIOUS
<1>1. ASSUME NEW k \in Keys, Get(k) \/ Preload(k) PROVE IInv'
  <2>1. IF Cached(k) THEN Touch(k, FALSE) ELSE Insert(k) \/ InsertUnloaded(k)
    BY <1>1 DEF Get, Preload
  <2> QED
    BY <2>1, TouchInductive, InsertInductive, InsertUnloadedInductive
<1>2. ASSUME NEW k \in Keys, GetSimple(k) PROVE IInv'
  <2>1. IF Cached(k) THEN Touch(k, FALSE) ELSE UNCHANGED <<list, map, failed>>
    BY <1>2 DEF GetSimple, history
  <2> QED
    BY <2>1, TouchInductive, UnchangedInductive
<1>3. ASSUME NEW k \in Keys, Put(k) PROVE IInv'
  <2>1. IF Cached(k) THEN Touch(k, TRUE) ELSE Insert(k)
    BY <1>3 DEF Put
  <2> QED
    BY <2>1, TouchInductive, InsertInductive
<1>4. CASE ResetStats \/ UNCHANGED vars
  BY <1>4, UnchangedInductive DEF ResetStats, vars, history
<1>5. CASE ClearAll \/ \E c \in Capacities : Resize(c)
  BY <1>5, EmptiedInductive DEF ClearAll, Resize, Emptied
<1> QED
  BY <1>1, <1>2, <1>3, <1>4, <1>5 DEF Next

(***************************************************************************)
(* Recency.  Until a loader throws, the keys before a position are those   *)
(* used since the last use of the key there, and a key that was used and   *)
(* is not listed saw a full cache of other keys used since.                *)
(***************************************************************************)
RInv ==
  /\ capacity \in Nat
  /\ \A e \in DOMAIN since : IsFiniteSet(since[e])
  /\ ~failed =>
       /\ Len(list) <= Room
       /\ \A i \in 1..Len(list) :
            list[i].key \in DOMAIN since /\ since[list[i].key] = KeysBefore(i)
       /\ \A e \in DOMAIN since \ KeysBefore(Len(list) + 1) :
            Len(list) = Room /\ KeysBefore(Len(list) + 1) \subseteq since[e]

LEMMA KeysOnce ==
  ASSUME IInv, ~failed
  PROVE  /\ Len(list) \in Nat /\ DOMAIN list = 1..Len(list)
         /\ \A i \in 1..Len(list) :
              /\ list[i].key \in Keys /\ map[list[i].key] = list[i].node
              /\ list[i].node # NoNode
         /\ \A i, j \in 1..Len(list) : list[i].key = list[j].key => i = j
<1>1. list \in Seq(Node) /\ Distinct(list) /\ Listed(list, map)
  BY Parts DEF IInv, Shape
<1>2. ASSUME NEW i \in 1..Len(list)
      PROVE  list[i].key \in Keys /\ map[list[i].key] = list[i].node /\ list[i].node # NoNode
  <2>1. list[i] \in Node
    BY <1>1, ElementOfSeq
  <2>2. list[i].key \in Keys /\ list[i].node \in Nodes
    BY <2>1 DEF Node
  <2> QED
    BY <1>1, <2>2, LruAssumption DEF Listed
<1> QED
  BY <1>1, <1>2 DEF Distinct

LEMMA KeysCounted ==
  ASSUME IInv, ~failed, NEW n \in 1..Len(list) + 1
  PROVE  IsFiniteSet(KeysBefore(n)) /\ Cardinality(KeysBefore(n)) = n - 1
<1>1. Len(list) \in Nat /\ n - 1 \in Nat /\ 1..n - 1 \subseteq 1..Len(list)
  BY KeysOnce
<1> DEFINE f == [j \in 1..n - 1 |-> list[j].key]
<1>2. f \in Bijection(1..n - 1, KeysBefore(n))
  <2>1. f \in [1..n - 1 -> KeysBefore(n)]
    BY DEF KeysBefore
  <2>2. \A i, j \in 1..n - 1 : f[i] = f[j] => i = j
    BY <1>1, KeysOnce
  <2>3. \A e \in KeysBefore(n) : \E j \in 1..n - 1 : f[j] = e
    BY DEF KeysBefore
  <2> HIDE DEF f
  <2> QED
    BY <2>1, <2>2, <2>3 DEF Bijection, Injection, Surjection, IsInjective
<1>3. ExistsBijection(1..n - 1, KeysBefore(n))
  BY <1>2 DEF ExistsBijection
<1>4. IsFiniteSet(1..n - 1) /\ Cardinality(1..n - 1) = n - 1
  <2>1. 1 \in Int /\ n - 1 \in Int /\ ((1 > n - 1) => n - 1 = 0) /\ n - 1 - 1 + 1 = n - 1
    BY <1>1
  <2> QED
    BY <2>1, FS_Interval
<1> QED
  BY <1>3, <1>4, FS_Bijection

LEMMA RInvHoldsMostRecent == IInv /\ RInv => HoldsMostRecent
<1> SUFFICES ASSUME IInv, RInv, ~failed
             PROVE  /\ KeysBefore(Len(list) + 1) = {k \in DOMAIN since : Cardinality(since[k]) < Room}
                    /\ \A i \in DOMAIN list : since[list[i].key] = KeysBefore(i)
  BY DEF HoldsMostRecent
<1>1. Len(list) \in Nat /\ DOMAIN list = 1..Len(list) /\ Room \in Nat /\ Len(list) <= Room
  BY KeysOnce DEF RInv, Room
<1>2. \A i \in DOMAIN list : since[list[i].key] = KeysBefore(i)
  BY <1>1 DEF RInv
<1>3. ASSUME NEW k \in KeysBefore(Len(list) + 1)
      PROVE  k \in DOMAIN since /\ Cardinality(since[k]) < Room
  <2>1. PICK i \in 1..Len(list) : k = list[i].key
    BY <1>1 DEF KeysBefore
  <2>2. k \in DOMAIN since /\ since[k] = KeysBefore(i)
    BY <2>1 DEF RInv
  <2>3. Cardinality(KeysBefore(i)) = i - 1
    BY <1>1, <2>1, KeysCounted
  <2> QED
    BY <1>1, <2>1, <2>2, <2>3
<1>4. ASSUME NEW k \in DOMAIN since, Cardinality(since[k]) < Room, k \notin KeysBefore(Len(list) + 1)
      PROVE  FALSE
  <2>1. Len(list) = Room /\ KeysBefore(Len(list) + 1) \subseteq since[k] /\ IsFiniteSet(since[k])
    BY <1>4 DEF RInv
  <2>2. Cardinality(KeysBefore(Len(list) + 1)) = Room
    <3>1. Len(list) + 1 \in 1..Len(list) + 1 /\ Len(list) + 1 - 1 = Len(list)
      BY <1>1
    <3> QED
      BY <2>1, <3>1, KeysCounted
  <2>3. Cardinality(since[k]) \in Nat /\ Room <= Cardinality(since[k])
    BY <2>1, <2>2, FS_CardinalityType, FS_Subset
  <2> QED
    BY <1>1, <1>4, <2>3
<1> QED
  BY <1>2, <1>3, <1>4

LEMMA UseGrows ==
  ASSUME RInv, NEW k, Use(k)
  PROVE  /\ DOMAIN since' = DOMAIN since \cup {k} /\ since'[k] = {}
         /\ \A e \in DOMAIN since : e # k => since'[e] = since[e] \cup {k}
         /\ \A e \in DOMAIN since' : IsFiniteSet(since'[e])
         /\ failed' = failed
  BY FS_EmptySet, FS_AddElement DEF RInv, Use

\* The key that is inserted comes first, and the one that is evicted was the last.
LEMMA InsertRecent ==
  ASSUME IInv, RInv, NEW k \in Keys, ~Cached(k), Insert(k), capacity' = capacity
  PROVE  RInv'
<1> DEFINE s == EvictedList
           evicts == Full /\ list # <<>>
<1>1. PICK x \in Node :
        list' = <<x>> \o s /\ x.key = k /\ \A i \in DOMAIN s : s[i].node # x.node
  <2>1. PICK n \in Nodes :
          Unused(n) /\ list' = <<[node |-> n, key |-> k, loaded |-> TRUE]>> \o EvictedList
    BY DEF Insert
  <2> DEFINE new == [node |-> n, key |-> k, loaded |-> TRUE]
  <2>2. new \in Node /\ new.key = k /\ new.node = n
    BY DEF Node
  <2> HIDE DEF new
  <2> QED
    BY <2>1, <2>2 DEF Unused, new
<1>2. s \in Seq(Node) /\ Distinct(s)
  BY EvictionKeeps
<1>3. Use(k)
  BY DEF Insert
<1>4. CASE failed
  BY <1>3, <1>4, UseGrows DEF RInv
<1>5. CASE ~failed
  <2>1. /\ Len(list) \in Nat /\ Room \in Nat /\ Room >= 1 /\ Len(list) <= Room
        /\ capacity \in Nat /\ Room' = Room
    <3>1. Len(list) \in Nat /\ Len(list) <= Room /\ capacity \in Nat
      BY <1>5, KeysOnce DEF RInv
    <3>2. Room \in Nat /\ Room >= 1 /\ Room' = Room
      BY <3>1 DEF Room
    <3> QED
      BY <3>1, <3>2
  <2>2. /\ Len(s) = IF evicts THEN Len(list) - 1 ELSE Len(list)
        /\ Len(s) \in Nat
        /\ \A i \in 1..Len(s) : s[i] = list[i] /\ i \in 1..Len(list)
        /\ ~evicts => Len(list) < Room
        /\ evicts => Len(list) = Room
    <3>1. CASE evicts
      <4>1. Len(s) = Len(list) - 1 /\ \A i \in 1..Len(list) - 1 : s[i] = list[i]
        BY <3>1, EvictedPart DEF IInv
      <4>2. Len(list) >= capacity /\ Len(list) >= 1
        BY <2>1, <3>1, EmptySeq DEF Full, IInv, Shape
      <4> HIDE DEF s, evicts
      <4> QED
        BY <2>1, <3>1, <4>1, <4>2 DEF Room
    <3>2. CASE ~evicts
      <4>1. s = list
        BY <3>2 DEF EvictedList
      <4>2. Len(list) < capacity \/ Len(list) = 0
        BY <2>1, <3>2, EmptySeq DEF Full
      <4> HIDE DEF s, evicts
      <4> QED
        BY <2>1, <3>2, <4>1, <4>2 DEF Room
    <3> QED
      BY <3>1, <3>2
  <2> HIDE DEF s, evicts
  <2>3. /\ Len(list') = Len(s) + 1 /\ list'[1] = x
        /\ \A i \in 1..Len(s) : i + 1 \in 1..Len(list') /\ list'[i + 1] = s[i]
        /\ \A i \in 1..Len(list') : i = 1 \/ (i - 1 \in 1..Len(s) /\ list'[i] = s[i - 1])
    BY <1>1, <1>2, PushKeeps
  <2>4. /\ KeysBefore(1)' = {}
        /\ \A i \in 1..Len(s) + 1 : KeysBefore(i + 1)' = {k} \cup KeysBefore(i)
    <3>1. KeysBefore(1)' = {}
      BY DEF KeysBefore
    <3>2. ASSUME NEW i \in 1..Len(s) + 1 PROVE KeysBefore(i + 1)' = {k} \cup KeysBefore(i)
      <4>1. \A e : e \in KeysBefore(i + 1)' <=> \E j \in 1..i : e = list'[j].key
        BY <2>2 DEF KeysBefore
      <4>2. \A e : e \in KeysBefore(i) <=> \E j \in 1..i - 1 : e = list[j].key
        BY DEF KeysBefore
      <4>3. list'[1].key = k /\ 1 \in 1..i
        BY <1>1, <2>2, <2>3
      <4>4. \A j \in 1..i : j = 1 \/ (j - 1 \in 1..i - 1 /\ list'[j].key = list[j - 1].key)
        <5>1. \A j \in 1..i : j \in 1..Len(list') /\ (j # 1 => j - 1 \in 1..Len(s) /\ j - 1 \in 1..i - 1)
          BY <2>2, <2>3
        <5> QED
          BY <2>2, <2>3, <5>1
      <4>5. \A j \in 1..i - 1 : j + 1 \in 1..i /\ list'[j + 1].key = list[j].key
        <5>1. \A j \in 1..i - 1 : j \in 1..Len(s) /\ j + 1 \in 1..i
          BY <2>2
        <5> QED
          BY <2>2, <2>3, <5>1
      <4>6. ASSUME NEW e \in KeysBefore(i + 1)' PROVE e \in {k} \cup KeysBefore(i)
        BY <4>1, <4>2, <4>3, <4>4
      <4>7. ASSUME NEW e \in KeysBefore(i) PROVE e \in KeysBefore(i + 1)'
        BY <4>1, <4>2, <4>5
      <4>8. k \in KeysBefore(i + 1)'
        BY <4>1, <4>3
      <4> QED
        BY <4>6, <4>7, <4>8
    <3> QED
      BY <3>1, <3>2
  <2>5. /\ DOMAIN since' = DOMAIN since \cup {k} /\ since'[k] = {}
        /\ \A e \in DOMAIN since : e # k => since'[e] = since[e] \cup {k}
        /\ \A e \in DOMAIN since' : IsFiniteSet(since'[e])
    BY <1>3, UseGrows
  <2>6. \A i \in 1..Len(list) : list[i].key # k
    BY <1>5, KeysOnce DEF Cached
  <2>7. ASSUME NEW i \in 1..Len(list')
        PROVE  list'[i].key \in DOMAIN since' /\ since'[list'[i].key] = KeysBefore(i)'
    <3>1. CASE i = 1
      BY <1>1, <2>3, <2>4, <2>5, <3>1
    <3>2. CASE i # 1
      <4>1. PICK j \in 1..Len(s) : j = i - 1 /\ list'[i] = s[j]
        BY <2>3, <3>2
      <4>2. list'[i].key = list[j].key /\ j \in 1..Len(list) /\ i = j + 1 /\ j \in 1..Len(s) + 1
        BY <2>2, <2>3, <4>1
      <4>3. list[j].key \in DOMAIN since /\ since[list[j].key] = KeysBefore(j) /\ list[j].key # k
        BY <1>5, <2>6, <4>2 DEF RInv
      <4>4. KeysBefore(j + 1)' = {k} \cup KeysBefore(j)
        BY <2>4, <4>2
      <4>5. KeysBefore(i)' = KeysBefore(j + 1)'
        BY <4>2
      <4>6. since'[list[j].key] = since[list[j].key] \cup {k} /\ list[j].key \in DOMAIN since'
        BY <2>5, <4>3
      <4> QED
        BY <4>2, <4>3, <4>4, <4>5, <4>6
    <3> QED
      BY <3>1, <3>2
  <2>8. Len(list') <= Room' /\ Len(list') + 1 = (Len(s) + 1) + 1
    BY <2>1, <2>2, <2>3
  <2>9. PICK n \in Nat : n = Len(s) + 1
    BY <2>2
  <2>10. KeysBefore(Len(list) + 1)' = {k} \cup KeysBefore(n)
    <3>1. KeysBefore(n + 1)' = {k} \cup KeysBefore(n) /\ n + 1 = Len(list') + 1
      BY <2>2, <2>3, <2>4, <2>9
    <3>2. KeysBefore(Len(list) + 1)' = KeysBefore(n + 1)'
      BY <2>3, <2>9 DEF KeysBefore
    <3> QED
      BY <3>1, <3>2
  <2>11. ASSUME NEW e \in DOMAIN since', e \notin {k} \cup KeysBefore(n)
         PROVE  Len(list') = Room' /\ {k} \cup KeysBefore(n) \subseteq since'[e]
    <3>1. e \in DOMAIN since /\ e # k /\ since'[e] = since[e] \cup {k}
      BY <2>5, <2>11
    <3>2. CASE ~evicts
      <4>1. n = Len(list) + 1
        BY <2>2, <2>9, <3>2
      <4> QED
        BY <1>5, <2>1, <2>2, <2>11, <3>1, <3>2, <4>1 DEF RInv
    <3>3. CASE evicts
      <4>1. n = Len(list) /\ n \in 1..Len(list) /\ Len(list') = Room'
        BY <2>1, <2>2, <2>3, <2>9, <3>3
      <4>2. KeysBefore(n) \subseteq since[e]
        <5>1. CASE e = list[n].key
          BY <1>5, <4>1, <5>1 DEF RInv
        <5>2. CASE e # list[n].key
          <6>1. KeysBefore(n) \subseteq KeysBefore(Len(list) + 1)
            BY <4>1 DEF KeysBefore
          <6>2. e \notin KeysBefore(Len(list) + 1)
            <7>1. \A j \in 1..Len(list) : j = n \/ j \in 1..n - 1
              BY <4>1
            <7>2. Len(list) + 1 - 1 = Len(list)
              BY <2>1
            <7> QED
              BY <2>11, <5>2, <7>1, <7>2 DEF KeysBefore
          <6> QED
            BY <1>5, <3>1, <6>1, <6>2 DEF RInv
        <5> QED
          BY <5>1, <5>2
      <4> QED
        BY <3>1, <4>1, <4>2
    <3> QED
      BY <3>2, <3>3
  <2> QED
    BY <2>1, <2>5, <2>7, <2>8, <2>10, <2>11 DEF RInv
<1> QED
  BY <1>4, <1>5

\* The key that is used again comes first, and those before it move back by one.
LEMMA TouchRecent ==
  ASSUME IInv, RInv, NEW k \in Keys, Cached(k), NEW stored \in BOOLEAN, Touch(k, stored),
         capacity' = capacity
  PROVE  RInv'
<1> DEFINE p == CHOOSE i \in DOMAIN list : list[i].node = map[k]
<1>1. Use(k)
  BY DEF Touch
<1>2. CASE failed
  BY <1>1, <1>2, UseGrows DEF RInv
<1>3. CASE ~failed
  <2>1. /\ list \in Seq(Node) /\ Distinct(list) /\ Mapped(list, map)
        /\ Len(list) \in Nat /\ DOMAIN list = 1..Len(list)
    BY Parts, LenProperties DEF IInv, Shape
  <2>2. p \in 1..Len(list) /\ list[p].node = map[k] /\ list[p].key = k
    <3>1. PICK i \in 1..Len(list) : list[i].node = map[k] /\ list[i].key = k
      BY <2>1 DEF Mapped, Cached
    <3>2. p \in 1..Len(list) /\ list[p].node = map[k]
      BY <2>1, <3>1
    <3> HIDE DEF p
    <3> QED
      BY <2>1, <3>1, <3>2 DEF Distinct
  <2>3. list' = [i \in 1..Len(list) |->
                   IF i = 1 THEN [list[p] EXCEPT !.loaded = @ \/ stored]
                   ELSE IF i <= p THEN list[i - 1] ELSE list[i]]
    BY DEF Touch, Splice
  <2> HIDE DEF p
  <2>4. PICK q \in 1..Len(list) : q = p
    BY <2>2
  <2>5. \A i \in 1..Len(list) :
          list'[i].key = IF i = 1 THEN k ELSE IF i <= q THEN list[i - 1].key ELSE list[i].key
    <3>1. list[p] \in Node
      BY <2>1, <2>2, ElementOfSeq
    <3>2. [list[p] EXCEPT !.loaded = @ \/ stored].key = k
      BY <2>2, <3>1 DEF Node
    <3> QED
      BY <2>3, <2>4, <3>2
  <2>6. Len(list') = Len(list)
    <3>1. list' \in Seq(Node)
      BY TouchInductive DEF IInv, Shape
    <3>2. Len(list') \in Nat /\ 1..Len(list') = 1..Len(list)
      BY <2>3, <3>1, LenProperties
    <3> QED
      BY <2>1, <3>2
  <2>7. /\ KeysBefore(1)' = {}
        /\ \A i \in 1..q : KeysBefore(i + 1)' = {k} \cup KeysBefore(i)
        /\ \A i \in q + 1..Len(list) + 1 : KeysBefore(i)' = KeysBefore(i) /\ k \in KeysBefore(i)
    <3>1. KeysBefore(1)' = {}
      BY DEF KeysBefore
    <3>2. ASSUME NEW i \in 1..q PROVE KeysBefore(i + 1)' = {k} \cup KeysBefore(i)
      <4>1. \A e : e \in KeysBefore(i + 1)' <=> \E j \in 1..i : e = list'[j].key
        BY <2>1 DEF KeysBefore
      <4>2. \A e : e \in KeysBefore(i) <=> \E j \in 1..i - 1 : e = list[j].key
        BY DEF KeysBefore
      <4>3. 1 \in 1..i /\ list'[1].key = k
        BY <2>1, <2>5
      <4>4. \A j \in 1..i : j = 1 \/ (j - 1 \in 1..i - 1 /\ list'[j].key = list[j - 1].key)
        BY <2>1, <2>5
      <4>5. \A j \in 1..i - 1 : j + 1 \in 1..i /\ list'[j + 1].key = list[j].key
        BY <2>1, <2>5
      <4>6. ASSUME NEW e \in KeysBefore(i + 1)' PROVE e \in {k} \cup KeysBefore(i)
        BY <4>1, <4>2, <4>3, <4>4
      <4>7. ASSUME NEW e \in KeysBefore(i) PROVE e \in KeysBefore(i + 1)'
        BY <4>1, <4>2, <4>5
      <4>8. k \in KeysBefore(i + 1)'
        BY <4>1, <4>3
      <4> QED
        BY <4>6, <4>7, <4>8
    <3>3. ASSUME NEW i \in q + 1..Len(list) + 1
          PROVE  KeysBefore(i)' = KeysBefore(i) /\ k \in KeysBefore(i)
      <4>1. \A e : e \in KeysBefore(i)' <=> \E j \in 1..i - 1 : e = list'[j].key
        BY DEF KeysBefore
      <4>2. \A e : e \in KeysBefore(i) <=> \E j \in 1..i - 1 : e = list[j].key
        BY DEF KeysBefore
      <4>3. q \in 1..i - 1 /\ list[q].key = k /\ 1 \in 1..i - 1 /\ list'[1].key = k
        BY <2>1, <2>2, <2>4, <2>5
      <4>4. ASSUME NEW j \in 1..i - 1
            PROVE  \/ j = 1 /\ list'[j].key = list[q].key
                   \/ j # 1 /\ j <= q /\ j - 1 \in 1..i - 1 /\ list'[j].key = list[j - 1].key
                   \/ j > q /\ list'[j].key = list[j].key
        BY <2>1, <2>5, <4>3
      <4>5. ASSUME NEW j \in 1..i - 1
            PROVE  \/ j = q /\ list[j].key = list'[1].key
                   \/ j < q /\ j + 1 \in 1..i - 1 /\ list[j].key = list'[j + 1].key
                   \/ j > q /\ list[j].key = list'[j].key
        BY <2>1, <2>5, <4>3
      <4>6. ASSUME NEW e \in KeysBefore(i)' PROVE e \in KeysBefore(i)
        BY <4>1, <4>2, <4>3, <4>4
      <4>7. ASSUME NEW e \in KeysBefore(i) PROVE e \in KeysBefore(i)'
        BY <4>1, <4>2, <4>3, <4>5
      <4> QED
        BY <4>2, <4>3, <4>6, <4>7
    <3> QED
      BY <3>1, <3>2, <3>3
  <2>8. /\ DOMAIN since' = DOMAIN since \cup {k} /\ since'[k] = {}
        /\ \A e \in DOMAIN since : e # k => since'[e] = since[e] \cup {k}
        /\ \A e \in DOMAIN since' : IsFiniteSet(since'[e])
    BY <1>1, UseGrows
  <2>9. \A i \in 1..Len(list) : i # q => list[i].key # k
    BY <1>3, <2>2, <2>4, KeysOnce
  <2>10. ASSUME NEW i \in 1..Len(list)
         PROVE  list'[i].key \in DOMAIN since' /\ since'[list'[i].key] = KeysBefore(i)'
    <3>1. CASE i = 1
      BY <2>5, <2>7, <2>8, <3>1
    <3>2. CASE i # 1 /\ i <= q
      <4>1. PICK j \in 1..Len(list) : i = j + 1 /\ j \in 1..q /\ j # q
        <5>1. i - 1 \in 1..Len(list) /\ i = (i - 1) + 1 /\ i - 1 \in 1..q /\ i - 1 # q
          BY <2>1, <3>2
        <5> QED
          BY <5>1
      <4>2. list'[i].key = list[j].key
        BY <2>5, <3>2, <4>1
      <4>3. list[j].key \in DOMAIN since /\ since[list[j].key] = KeysBefore(j) /\ list[j].key # k
        BY <1>3, <2>9, <4>1 DEF RInv
      <4>4. KeysBefore(j + 1)' = {k} \cup KeysBefore(j)
        BY <2>7, <4>1
      <4>5. since'[list[j].key] = since[list[j].key] \cup {k} /\ list[j].key \in DOMAIN since'
        BY <2>8, <4>3
      <4> QED
        BY <4>1, <4>2, <4>3, <4>4, <4>5
    <3>3. CASE i > q
      <4>1. list'[i].key = list[i].key /\ i \in q + 1..Len(list) + 1
        BY <2>1, <2>5, <3>3
      <4>2. list[i].key \in DOMAIN since /\ since[list[i].key] = KeysBefore(i) /\ list[i].key # k
        BY <1>3, <2>9, <3>3 DEF RInv
      <4>3. KeysBefore(i)' = KeysBefore(i) /\ k \in KeysBefore(i)
        BY <2>7, <4>1
      <4>4. since'[list[i].key] = since[list[i].key] \cup {k} /\ list[i].key \in DOMAIN since'
        BY <2>8, <4>2
      <4> QED
        BY <4>1, <4>2, <4>3, <4>4
    <3> QED
      BY <2>1, <3>1, <3>2, <3>3
  <2>11. PICK n \in Nat : n = Len(list) + 1
    BY <2>1
  <2>12. KeysBefore(n)' = KeysBefore(n) /\ k \in KeysBefore(n)
    BY <2>1, <2>7, <2>11
  <2>13. KeysBefore(Len(list) + 1)' = KeysBefore(n)'
    BY <2>6, <2>11 DEF KeysBefore
  <2>14. Room' = Room
    BY DEF Room
  <2>15. ASSUME NEW e \in DOMAIN since' \ KeysBefore(n)
         PROVE  Len(list') = Room' /\ KeysBefore(n) \subseteq since'[e]
    BY <1>3, <2>6, <2>8, <2>11, <2>12, <2>14 DEF RInv
  <2> QED
    BY <1>3, <2>6, <2>8, <2>10, <2>12, <2>13, <2>14, <2>15 DEF RInv
<1> QED
  BY <1>2, <1>3

LEMMA EmptiedRecent ==
  ASSUME list' = <<>>, since' = [k \in {} |-> {}], capacity' \in Nat
  PROVE  RInv'
<1>1. Len(list') = 0 /\ DOMAIN since' = {} /\ Room' \in Nat
  BY EmptySeq DEF Room
<1> QED
  BY <1>1 DEF RInv

LEMMA InitRecent == Init => RInv
<1> SUFFICES ASSUME Init PROVE RInv
  OBVIOUS
<1>1. Len(list) = 0 /\ DOMAIN since = {} /\ capacity \in Nat /\ Room \in Nat
  BY EmptySeq, LruAssumption DEF Init, Room
<1> QED
  BY <1>1 DEF RInv

\* The node of a loader that throws is outside of what the history speaks about.
LEMMA FailedRecent ==
  ASSUME RInv, NEW k, InsertUnloaded(k), capacity' = capacity
  PROVE  RInv'
BY DEF InsertUnloaded, RInv

LEMMA UnchangedRecent ==
  ASSUME RInv, UNCHANGED <<capacity, list, history>>
  PROVE  RInv'
BY DEF RInv, Room, KeysBefore, history

LEMMA NextRecent == IInv /\ RInv /\ [Next]_vars => RInv'
<1> SUFFICES ASSUME IInv, RInv, [Next]_vars PROVE RInv'
  OBVIOUS
<1>1. ASSUME NEW k \in Keys, Get(k) \/ Preload(k) PROVE RInv'
  <2>1. /\ IF Cached(k) THEN Touch(k, FALSE) ELSE Insert(k) \/ InsertUnloaded(k)
        /\ capacity' = capacity
    BY <1>1 DEF Get, Preload
  <2> QED
    BY <2>1, TouchRecent, InsertRecent, FailedRecent
<1>2. ASSUME NEW k \in Keys, GetSimple(k) PROVE RInv'
  <2>1. /\ IF Cached(k) THEN Touch(k, FALSE) ELSE UNCHANGED <<list, map, history>>
        /\ capacity' = capacity
    BY <1>2 DEF GetSimple
  <2> QED
    BY <2>1, TouchRecent, UnchangedRecent
<1>3. ASSUME NEW k \in Keys, Put(k) PROVE RInv'
  <2>1. /\ IF Cached(k) THEN Touch(k, TRUE) ELSE Insert(k)
        /\ capacity' = capacity
    BY <1>3 DEF Put
  <2> QED
    BY <2>1, TouchRecent, InsertRecent
<1>4. CASE ResetStats \/ UNCHANGED vars
  BY <1>4, UnchangedRecent DEF ResetStats, vars
<1>5. CASE ClearAll \/ \E c \in Capacities : Resize(c)
  <2>1. capacity' \in Nat
    BY <1>5, LruAssumption DEF ClearAll, Resize, RInv
  <2> QED
    BY <1>5, <2>1, EmptiedRecent DEF ClearAll, Resize, Emptied
<1> QED
  BY <1>1, <1>2, <1>3, <1>4, <1>5 DEF Next

(***************************************************************************)
(* The theorems.                                                           *)
(***************************************************************************)
\* A key that find() finds has its node in the list, under its own key and loaded,
\* after any sequence of calls, failed loads, evictions and changes of capacity;
\* until a loader throws, no other node is listed under any key.
THEOREM NothingDangles == Spec => []NoDanglingIterator
<1>1. IInv => NoDanglingIterator
  BY DEF IInv
<1> QED
  BY <1>1, InitInductive, NextInductive, PTL DEF Spec

\* Until a loader throws, the keys in the cache are those used last, as many as it
\* has room for, listed in the order of their last use, at any capacity.
THEOREM KeepsMostRecent == Spec => []HoldsMostRecent
BY InitInductive, NextInductive, InitRecent, NextRecent, RInvHoldsMostRecent, PTL DEF Spec

=============================================================================
