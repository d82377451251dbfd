--------------------------- MODULE Serving_proofs ---------------------------
(***************************************************************************)
(* Theorems about the Scheduler, the ConcurrentKeyCache, and runServing,   *)
(* which puts the two together.                                            *)
(*                                                                         *)
(* Scheduler: no wakeup is lost, no worker leaves too early, and no        *)
(* request is lost, served twice or out of order, for every number of      *)
(* workers, every depth and every threshold.                               *)
(*                                                                         *)
(* KeyCache: the typing invariant, the safety invariants, and that every   *)
(* step is a step of the single-flight service or leaves it unchanged, for *)
(* every number of threads, tenants and LoadStates, every capacity and     *)
(* every number of failures.                                               *)
(*                                                                         *)
(* Serving: a step of runServing is a step of the queue or leaves it       *)
(* alone, and likewise of the cache, so the invariants of both hold there; *)
(* the two invariants of the composition follow from them together.        *)
(***************************************************************************)
EXTENDS Serving, SequenceTheorems, FiniteSetTheorems, WellFoundedInduction, TLAPS

-----------------------------------------------------------------------------
(***************************************************************************)
(* SCHEDULER.                                                              *)
(***************************************************************************)
(***************************************************************************)
(* The inductive invariant.                                                *)
(***************************************************************************)
Shape ==
  /\ mode \in Modes
  /\ lanes \in [Lanes -> Seq(Request)]
  /\ \A l \in Lanes : Depth(l) <= MaxDepth
  /\ closed \in BOOLEAN
  /\ popping \in [Workers -> {"deciding", "asleep", "serving", "gone"}]
  /\ arrived \in 0..MaxRequests

\* an idle worker would leave at once where the threshold is 0
QInv == Shape /\ NoLostWakeup /\ (Steal > 0 => StaysWhileNeeded)

(***************************************************************************)
(* Lanes.                                                                  *)
(***************************************************************************)
LEMMA SmallestNumber ==
  ASSUME NEW T, T \subseteq Nat, T # {}
  PROVE  \E x \in T : \A y \in T : x <= y
<1>1. PICK x \in T : \A y \in T : <<y, x>> \notin OpToRel(<, Nat)
  BY NatLessThanWellFounded, WFMin, Zenon
<1>2. \A y \in T : ~(y < x)
  BY <1>1 DEF OpToRel
<1> QED
  BY <1>2

LEMMA LaneFacts ==
  ASSUME Shape
  PROVE  /\ Lanes # {} /\ Lanes \subseteq Nat
         /\ \A l \in Lanes : Depth(l) \in Nat /\ (lanes[l] = <<>> <=> Depth(l) = 0)
         /\ \A w \in Workers : Own(w) \in Lanes
         /\ \A tenant \in Tenants : Owner(tenant) \in Workers
<1>1. Lanes # {} /\ Lanes \subseteq Nat /\ \A w \in Workers : Own(w) \in Lanes
  <2>1. 0 \in Workers /\ Workers \subseteq Nat
    BY SchedulerAssumption DEF Workers
  <2> QED
    BY <2>1 DEF Lanes, Own
<1>2. \A l \in Lanes : lanes[l] \in Seq(Request)
  BY DEF Shape
<1>3. \A l \in Lanes : Depth(l) \in Nat /\ (lanes[l] = <<>> <=> Depth(l) = 0)
  BY <1>2, EmptySeq, LenProperties DEF Depth
<1>4. \A tenant \in Tenants : Owner(tenant) \in Workers
  BY SchedulerAssumption DEF Owner, Workers
<1> QED
  BY <1>1, <1>3, <1>4

\* The longest lane exists: of the lanes of the largest depth it is the first.
LongestKnown == LongestLane \in Lanes /\ \A m \in Lanes : Depth(m) <= Depth(LongestLane)

LEMMA LongestLaneIsLongest == Shape => LongestKnown
<1> SUFFICES ASSUME Shape PROVE LongestKnown
  OBVIOUS
<1> DEFINE Room == {MaxDepth - Depth(l) : l \in Lanes}
<1>1. Room \subseteq Nat /\ Room # {}
  BY LaneFacts, SchedulerAssumption DEF Shape
<1>2. PICK room \in Room : \A r \in Room : room <= r
  BY <1>1, SmallestNumber
<1> DEFINE Deepest == {l \in Lanes : MaxDepth - Depth(l) = room}
<1>3. Deepest \subseteq Nat /\ Deepest # {}
  BY <1>2, LaneFacts
<1>4. PICK l \in Deepest : \A m \in Deepest : l <= m
  BY <1>3, SmallestNumber
<1>5. l \in Lanes /\ \A m \in Lanes : Depth(l) > Depth(m) \/ (Depth(l) = Depth(m) /\ l <= m)
  <2>1. ASSUME NEW m \in Lanes
        PROVE  Depth(l) > Depth(m) \/ (Depth(l) = Depth(m) /\ l <= m)
    <3>1. MaxDepth - Depth(l) <= MaxDepth - Depth(m)
      BY <1>2, <1>4
    <3>2. Depth(l) \in Nat /\ Depth(m) \in Nat /\ MaxDepth \in Nat
      BY LaneFacts, SchedulerAssumption
    <3>3. CASE Depth(l) = Depth(m)
      BY <1>4, <3>3
    <3>4. CASE Depth(l) # Depth(m)
      BY <3>1, <3>2, <3>4
    <3> QED
      BY <3>3, <3>4
  <2> QED
    BY <2>1
<1>6. /\ LongestLane \in Lanes
      /\ \A m \in Lanes : \/ Depth(LongestLane) > Depth(m)
                          \/ Depth(LongestLane) = Depth(m) /\ LongestLane <= m
  BY <1>5, Zenon DEF LongestLane
<1> QED
  BY <1>6, LaneFacts DEF LongestKnown

(***************************************************************************)
(* The invariant holds first.                                              *)
(***************************************************************************)
LEMMA QueueFirst == QueueInit => QInv
<1> SUFFICES ASSUME QueueInit PROVE QInv
  OBVIOUS
<1>1. Shape
  <2>1. <<>> \in Seq(Request) /\ Len(<<>>) = 0
    BY EmptySeq
  <2>2. lanes = [l \in Lanes |-> <<>>] /\ \A l \in Lanes : Len(lanes[l]) <= MaxDepth
    BY <2>1, SchedulerAssumption DEF QueueInit
  <2>3. lanes \in [Lanes -> Seq(Request)]
    BY <2>1, <2>2
  <2>4. popping \in [Workers -> {"deciding", "asleep", "serving", "gone"}]
    BY DEF QueueInit
  <2>5. mode \in Modes /\ closed \in BOOLEAN
    BY Zenon DEF QueueInit
  <2>6. arrived \in 0 .. MaxRequests
    BY SchedulerAssumption DEF QueueInit
  <2> QED
    BY <2>2, <2>3, <2>4, <2>5, <2>6 DEF Shape, Depth
<1>2. NoLostWakeup /\ StaysWhileNeeded
  BY DEF QueueInit, NoLostWakeup, StaysWhileNeeded
<1> QED
  BY <1>1, <1>2 DEF QInv

(***************************************************************************)
(* push() and close() wake everybody.                                      *)
(***************************************************************************)
LEMMA ShortestLaneIsLane ==
  ASSUME Shape, mode # "shared"
  PROVE  ShortestLane \in Lanes
<1> DEFINE Depths == {Depth(l) : l \in Lanes}
<1>1. PICK depth \in Depths : \A d \in Depths : depth <= d
  <2>1. Depths \subseteq Nat /\ Depths # {}
    BY LaneFacts
  <2> QED
    BY <2>1, SmallestNumber
<1> DEFINE Flattest == {l \in Lanes : Depth(l) = depth}
<1>2. PICK l \in Flattest : \A m \in Flattest : l <= m
  <2>1. Flattest \subseteq Nat /\ Flattest # {}
    BY <1>1, LaneFacts
  <2> QED
    BY <2>1, SmallestNumber
<1>3. l \in Lanes /\ \A m \in Lanes : Depth(l) < Depth(m) \/ (Depth(l) = Depth(m) /\ l <= m)
  <2>1. ASSUME NEW m \in Lanes
        PROVE  Depth(l) < Depth(m) \/ (Depth(l) = Depth(m) /\ l <= m)
    <3>1. depth <= Depth(m) /\ Depth(l) = depth /\ depth \in Nat /\ Depth(m) \in Nat
      BY <1>1, <1>2, LaneFacts
    <3>2. CASE Depth(m) = depth
      BY <1>2, <3>1, <3>2
    <3>3. CASE Depth(m) # depth
      BY <3>1, <3>3
    <3> QED
      BY <3>2, <3>3
  <2> QED
    BY <2>1
<1> QED
  BY <1>3, Zenon DEF ShortestLane

LEMMA PushInductive ==
  ASSUME QInv, NEW tenant \in Tenants, Push(tenant)
  PROVE  QInv'
<1> DEFINE r == [id |-> arrived + 1, tenant |-> tenant]
           l == IF mode = "shared" THEN 0 ELSE IF Spills(tenant) THEN ShortestLane ELSE Owner(tenant)
<1>1. Shape /\ l \in Lanes /\ r \in Request
  <2>1. Shape /\ arrived + 1 \in 1 .. MaxRequests
    BY SchedulerAssumption DEF QInv, Shape, Push
  <2>2. l \in Lanes
    BY <2>1, LaneFacts, ShortestLaneIsLane DEF Lanes
  <2> QED
    BY <2>1, <2>2 DEF Request
<1>2. /\ ~closed /\ closed' = closed /\ mode' = mode /\ Lanes' = Lanes
      /\ arrived' \in 0 .. MaxRequests /\ Admit(r, l)
  BY SchedulerAssumption DEF Push, Lanes, QInv, Shape
<1>3. \A w \in Workers : popping[w] # "gone" \/ ~(Steal > 0)
  BY <1>2 DEF QInv, StaysWhileNeeded
<1>4. CASE Depth(l) >= MaxDepth
  <2>1. UNCHANGED <<lanes, popping, closed, mode>>
    BY <1>2, <1>4 DEF Admit
  <2>2. Shape'
    BY <1>1, <1>2, <2>1 DEF Shape, Depth, Lanes
  <2>3. NoLostWakeup'
    BY <2>1 DEF QInv, NoLostWakeup, Ready, Own, AnyPending, LongestLane, Depth, Lanes
  <2>4. (Steal > 0 => StaysWhileNeeded)'
    BY <1>3, <2>1 DEF StaysWhileNeeded
  <2> QED
    BY <2>2, <2>3, <2>4 DEF QInv
<1>5. CASE ~(Depth(l) >= MaxDepth)
  <2>1. lanes' = [lanes EXCEPT ![l] = Append(@, r)] /\ Wake
    BY <1>2, <1>5 DEF Admit
  <2>2. \A w \in Workers : /\ popping'[w] = IF popping[w] = "asleep" THEN "deciding" ELSE popping[w]
                           /\ popping'[w] # "asleep"
    BY <2>1 DEF Wake
  <2>3. Shape'
    <3>1. /\ lanes[l] \in Seq(Request) /\ Append(lanes[l], r) \in Seq(Request)
          /\ Len(Append(lanes[l], r)) = Len(lanes[l]) + 1 /\ Len(lanes[l]) \in Nat
      BY <1>1 DEF Shape
    <3>2. /\ lanes' \in [Lanes' -> Seq(Request)]
          /\ \A m \in Lanes : lanes'[m] = IF m = l THEN Append(lanes[l], r) ELSE lanes[m]
      BY <1>1, <1>2, <2>1, <3>1 DEF Shape
    <3>3. \A m \in Lanes' : Len(lanes'[m]) <= MaxDepth
      BY <1>1, <1>2, <1>5, <3>1, <3>2, SchedulerAssumption DEF Shape, Depth
    <3>4. popping' \in [Workers -> {"deciding", "asleep", "serving", "gone"}]
      BY <1>1, <2>1 DEF Wake, Shape
    <3> QED
      BY <1>1, <1>2, <3>2, <3>3, <3>4 DEF Shape, Depth
  <2>4. NoLostWakeup'
    BY <2>2 DEF NoLostWakeup
  <2>5. (Steal > 0 => StaysWhileNeeded)'
    BY <1>3, <2>2 DEF StaysWhileNeeded
  <2> QED
    BY <2>3, <2>4, <2>5 DEF QInv
<1> QED
  BY <1>4, <1>5

LEMMA CloseInductive ==
  ASSUME QInv, Close
  PROVE  QInv'
<1>1. /\ UNCHANGED <<mode, lanes, arrived>> /\ closed' = TRUE /\ ~closed
      /\ popping' = [w \in Workers |-> IF popping[w] = "asleep" THEN "deciding" ELSE popping[w]]
  BY DEF Close, Wake
<1>2. Shape'
  BY <1>1 DEF QInv, Shape, Lanes, Depth
<1>3. NoLostWakeup'
  BY <1>1 DEF NoLostWakeup
<1>4. (Steal > 0 => StaysWhileNeeded)'
  BY <1>1 DEF QInv, StaysWhileNeeded
<1> QED
  BY <1>2, <1>3, <1>4 DEF QInv

(***************************************************************************)
(* pop().                                                                  *)
(***************************************************************************)
\* An action that moves one worker and leaves the queue alone.
LEMMA MoveInductive ==
  ASSUME QInv, UNCHANGED <<mode, queue, arrived>>,
         NEW w \in Workers, NEW to \in {"deciding", "asleep", "serving", "gone"},
         popping' = [popping EXCEPT ![w] = to],
         to = "asleep" => ~closed /\ ~Ready(w),
         to = "gone" /\ Steal > 0 =>
            closed /\ lanes[Own(w)] = <<>> /\ (mode # "affinity" => ~AnyPending)
  PROVE  QInv'
<1>1. UNCHANGED <<mode, lanes, closed, arrived>>
  BY DEF queue
<1>2. Shape'
  BY <1>1 DEF QInv, Shape, Lanes, Depth
<1>3. \A u \in Workers : popping'[u] = IF u = w THEN to ELSE popping[u]
  BY DEF QInv, Shape
<1>4. NoLostWakeup'
  <2>1. \A u \in Workers : Ready(u)' <=> Ready(u)
    BY <1>1 DEF Ready, Own, AnyPending, LongestLane, Depth, Lanes
  <2> QED
    BY <1>1, <1>3, <2>1 DEF QInv, NoLostWakeup
<1>5. (Steal > 0 => StaysWhileNeeded)'
  <2>1. AnyPending' <=> AnyPending
    BY <1>1 DEF AnyPending, Lanes
  <2>2. \A u \in Workers : lanes'[Own(u)'] = lanes[Own(u)]
    BY <1>1 DEF Own
  <2> QED
    BY <1>1, <1>3, <2>1, <2>2 DEF QInv, StaysWhileNeeded
<1> QED
  BY <1>2, <1>4, <1>5 DEF QInv

LEMMA SleepInductive ==
  ASSUME QInv, NEW w \in Workers, Sleep(w)
  PROVE  QInv'
  BY MoveInductive DEF Sleep

\* A worker that finds nothing to take while the queue is open has no reason to
\* leave: the longest lane holds something if its depth is at the threshold.
LEMMA GiveUpInductive ==
  ASSUME QInv, NEW w \in Workers, GiveUp(w)
  PROVE  QInv'
<1>1. ASSUME Steal > 0
      PROVE  closed /\ lanes[Own(w)] = <<>> /\ (mode # "affinity" => ~AnyPending)
  <2>1. ~AnyPending => ~Ready(w)
    <3>1. ASSUME ~AnyPending, Ready(w) PROVE FALSE
      <4>1. Own(w) \in Lanes /\ LongestLane \in Lanes
        BY LaneFacts, LongestLaneIsLongest DEF QInv, LongestKnown
      <4>2. lanes[Own(w)] = <<>> /\ Depth(LongestLane) = 0
        BY <3>1, <4>1, LaneFacts DEF QInv, AnyPending
      <4> QED
        BY <1>1, <3>1, <4>2, SchedulerAssumption DEF Ready
    <3> QED
      BY <3>1
  <2>2. ~Ready(w) /\ closed
    BY <2>1 DEF GiveUp
  <2>3. lanes[Own(w)] = <<>>
    BY <2>2 DEF Ready
  <2>4. mode # "affinity" => ~AnyPending
    BY <2>2 DEF GiveUp, DrainOnClose
  <2> QED
    BY <2>2, <2>3, <2>4
<1> QED
  BY <1>1, MoveInductive DEF GiveUp

\* The lane a worker takes from: its own, or the longest if that is empty.
From(w) == IF lanes[Own(w)] = <<>> THEN LongestLane ELSE Own(w)

LEMMA FromHolds ==
  ASSUME QInv, NEW w \in Workers, Take(w)
  PROVE  From(w) \in Lanes /\ lanes[From(w)] # <<>>
<1>1. Shape /\ LongestKnown
  BY LongestLaneIsLongest DEF QInv
<1>2. Own(w) \in Lanes /\ LongestLane \in Lanes
  BY <1>1, LaneFacts DEF LongestKnown
<1>3. lanes[Own(w)] = <<>> => lanes[LongestLane] # <<>>
  <2>1. PICK m \in Lanes : lanes[m] # <<>>
    BY DEF Take, AnyPending
  <2>2. Depth(m) \in Nat \ {0} /\ Depth(m) <= Depth(LongestLane)
    BY <1>1, <2>1, LaneFacts DEF LongestKnown
  <2> QED
    BY <1>1, <1>2, <2>2, LaneFacts
<1> QED
  BY <1>2, <1>3 DEF From

\* A take shortens one lane that held something: it makes no other worker
\* ready, and fills no lane of one that has left.
LEMMA TakeInductive ==
  ASSUME QInv, NEW w \in Workers, Take(w)
  PROVE  QInv'
<1> DEFINE l == IF lanes[Own(w)] = <<>> THEN LongestLane ELSE Own(w)
<1>1. /\ UNCHANGED <<mode, closed, arrived>> /\ Lanes' = Lanes
      /\ lanes' = [lanes EXCEPT ![l] = Tail(@)]
      /\ popping' = [popping EXCEPT ![w] = "serving"]
  BY DEF Take, Lanes
<1>2. Shape /\ LongestKnown
  BY LongestLaneIsLongest DEF QInv
<1>3. l \in Lanes /\ lanes[l] # <<>>
  BY FromHolds DEF From
<1>4. \A m \in Lanes : /\ lanes'[m] = IF m = l THEN Tail(lanes[m]) ELSE lanes[m]
                       /\ lanes'[m] \in Seq(Request)
                       /\ Len(lanes'[m]) \in Nat /\ Len(lanes'[m]) <= Len(lanes[m])
                       /\ lanes[m] = <<>> => lanes'[m] = <<>>
  <2>1. \A m \in Lanes : lanes[m] \in Seq(Request) /\ Len(lanes[m]) \in Nat
    BY <1>2 DEF Shape
  <2>2. Tail(lanes[l]) \in Seq(Request) /\ Len(Tail(lanes[l])) = Len(lanes[l]) - 1
    BY <1>3, <2>1, HeadTailProperties
  <2>3. \A m \in Lanes : lanes'[m] = IF m = l THEN Tail(lanes[m]) ELSE lanes[m]
    BY <1>1, <1>2 DEF Shape
  <2>4. ASSUME NEW m \in Lanes, m # l
        PROVE  lanes'[m] = lanes[m] /\ lanes[m] \in Seq(Request) /\ Len(lanes[m]) \in Nat
    BY <2>1, <2>3, <2>4
  <2>5. /\ lanes'[l] = Tail(lanes[l]) /\ Len(Tail(lanes[l])) \in Nat
        /\ Len(Tail(lanes[l])) <= Len(lanes[l])
    <3>1. Len(lanes[l]) \in Nat \ {0}
      BY <1>3, <2>1, EmptySeq
    <3> QED
      BY <1>3, <2>2, <2>3, <3>1
  <2> HIDE DEF l
  <2>6. lanes'[l] \in Seq(Request) /\ l \in Lanes /\ lanes[l] # <<>>
    BY <1>3, <2>2, <2>5
  <2>7. \A m \in Lanes : lanes[m] = <<>> => lanes'[m] = <<>>
    BY <2>4, <2>6
  <2>8. \A m \in Lanes : /\ lanes'[m] \in Seq(Request)
                         /\ Len(lanes'[m]) \in Nat /\ Len(lanes'[m]) <= Len(lanes[m])
    <3>1. Len(lanes'[l]) \in Nat /\ Len(lanes'[l]) <= Len(lanes[l])
      BY <2>5
    <3>2. ASSUME NEW m \in Lanes, m # l
          PROVE  /\ lanes'[m] \in Seq(Request) /\ Len(lanes'[m]) \in Nat
                 /\ Len(lanes'[m]) <= Len(lanes[m])
      <4>1. lanes'[m] = lanes[m] /\ lanes[m] \in Seq(Request) /\ Len(lanes[m]) \in Nat
        BY <2>4, <3>2
      <4>2. Len(lanes'[m]) = Len(lanes[m])
        BY <4>1
      <4> QED
        BY <4>1, <4>2
    <3> QED
      BY <2>6, <3>1, <3>2
  <2> QED
    BY <2>3, <2>7, <2>8
<1>5. Shape'
  <2>1. lanes' \in [Lanes' -> Seq(Request)]
    BY <1>1, <1>2, <1>4 DEF Shape
  <2>2. \A m \in Lanes' : Len(lanes'[m]) <= MaxDepth
    BY <1>1, <1>2, <1>4, SchedulerAssumption DEF Shape, Depth
  <2>3. popping' \in [Workers -> {"deciding", "asleep", "serving", "gone"}]
    BY <1>1, <1>2 DEF Shape
  <2> QED
    BY <1>1, <1>2, <2>1, <2>2, <2>3 DEF Shape, Depth
<1>6. AnyPending' => AnyPending
  BY <1>1, <1>4 DEF AnyPending
<1>7. \A u \in Workers : Own(u)' = Own(u) /\ Own(u) \in Lanes
  BY <1>1, <1>2, LaneFacts DEF Own
<1>8. \A u \in Workers : Ready(u)' => Ready(u)
  <2>1. LongestKnown'
    BY <1>5, LongestLaneIsLongest, PTL
  <2>2. Depth(LongestLane)' <= Depth(LongestLane) /\ Depth(LongestLane)' \in Nat
        /\ Depth(LongestLane) \in Nat
    <3>1. LongestLane' \in Lanes /\ Depth(LongestLane)' = Len(lanes'[LongestLane'])
      BY <1>1, <2>1 DEF LongestKnown, Depth
    <3>2. Len(lanes[LongestLane']) <= Depth(LongestLane) /\ Depth(LongestLane) \in Nat
          /\ Len(lanes[LongestLane']) \in Nat
      BY <1>2, <3>1, LaneFacts DEF LongestKnown, Depth
    <3> QED
      BY <1>4, <3>1, <3>2
  <2>3. ASSUME NEW u \in Workers, Ready(u)' PROVE Ready(u)
    <3>1. CASE (lanes[Own(u)] # <<>>)'
      BY <1>4, <1>7, <3>1 DEF Ready
    <3>2. CASE (mode = "shared" /\ AnyPending)'
      BY <1>1, <1>6, <3>2 DEF Ready
    <3>3. CASE (mode = "soft" /\ Depth(LongestLane) >= Steal)'
      BY <1>1, <2>2, <3>3, SchedulerAssumption DEF Ready
    <3> QED
      BY <2>3, <3>1, <3>2, <3>3 DEF Ready
  <2> QED
    BY <2>3
<1>9. \A u \in Workers : popping'[u] \in {"asleep", "gone"} => popping'[u] = popping[u]
  BY <1>1, <1>2 DEF Shape
<1>10. NoLostWakeup'
  BY <1>1, <1>8, <1>9 DEF QInv, NoLostWakeup
<1>11. (Steal > 0 => StaysWhileNeeded)'
  BY <1>1, <1>4, <1>6, <1>7, <1>9 DEF QInv, StaysWhileNeeded
<1> QED
  BY <1>5, <1>10, <1>11 DEF QInv

LEMMA QueueInductive == QInv /\ [QueueNext]_queueVars => QInv'
<1> SUFFICES ASSUME QInv, [QueueNext]_queueVars PROVE QInv'
  OBVIOUS
<1>1. CASE Close
  BY <1>1, CloseInductive
<1>2. ASSUME NEW tenant \in Tenants, Push(tenant) PROVE QInv'
  BY <1>2, PushInductive
<1>3. ASSUME NEW w \in Workers, Sleep(w) PROVE QInv'
  BY <1>3, SleepInductive
<1>4. ASSUME NEW w \in Workers, GiveUp(w) PROVE QInv'
  BY <1>4, GiveUpInductive
<1>5. ASSUME NEW w \in Workers, Take(w) PROVE QInv'
  BY <1>5, TakeInductive
<1>6. ASSUME NEW w \in Workers, Served(w) \/ WakeUnasked(w) PROVE QInv'
  BY <1>6, MoveInductive DEF Served, WakeUnasked
<1>7. CASE UNCHANGED queueVars
  BY <1>7 DEF queueVars, queue, QInv, Shape, NoLostWakeup, StaysWhileNeeded, Ready, Own, AnyPending,
              LongestLane, Depth, Lanes
<1> QED
  BY <1>1, <1>2, <1>3, <1>4, <1>5, <1>6, <1>7 DEF QueueNext, Produce, Pop

(***************************************************************************)
(* Order: outside of "soft", a lane holds the requests of its tenants by   *)
(* arrival, all of them later than what was taken from it.                 *)
(***************************************************************************)
Home(tenant) == IF mode = "shared" THEN 0 ELSE Owner(tenant)

Handed == [id : Nat, tenant : Tenants, by : Workers, owned : BOOLEAN]

LanesOrdered ==
  \A l \in Lanes : \A i \in 1..Len(lanes[l]) :
    /\ Home(lanes[l][i].tenant) = l
    /\ lanes[l][i].id <= arrived
    /\ \A j \in 1..Len(lanes[l]) : i < j => lanes[l][i].id < lanes[l][j].id

TakenFirst ==
  \A k \in 1..Len(taken) : \A l \in Lanes : \A i \in 1..Len(lanes[l]) :
    Home(taken[k].tenant) = l => taken[k].id < lanes[l][i].id

TakenOrdered ==
  \A k \in 1..Len(taken) :
    /\ taken[k].id <= arrived
    /\ mode = "affinity" => taken[k].owned
    /\ \A m \in 1..Len(taken) :
          k < m /\ Home(taken[k].tenant) = Home(taken[m].tenant) => taken[k].id < taken[m].id

OInv ==
  /\ taken \in Seq(Handed)
  /\ mode # "soft" => LanesOrdered /\ TakenFirst /\ TakenOrdered

LEMMA OInvOrderKept == QInv /\ OInv => OrderKept
<1> SUFFICES ASSUME QInv, OInv, NEW i \in DOMAIN taken, NEW j \in DOMAIN taken, i < j
             PROVE  /\ mode = "shared" => taken[i].id < taken[j].id
                    /\ mode = "affinity" => /\ taken[i].owned
                                            /\ taken[i].tenant = taken[j].tenant =>
                                                 taken[i].id < taken[j].id
  BY DEF OrderKept
<1>1. i \in 1..Len(taken) /\ j \in 1..Len(taken)
  BY LenProperties DEF OInv
<1>2. CASE mode = "shared"
  BY <1>1, <1>2 DEF OInv, TakenOrdered, Home
<1>3. CASE mode = "affinity"
  BY <1>1, <1>3 DEF OInv, TakenOrdered, Home
<1> QED
  BY <1>2, <1>3

LEMMA OrderFirst == QueueInit => OInv
<1> SUFFICES ASSUME QueueInit PROVE OInv
  OBVIOUS
<1>1. taken = <<>> /\ Len(taken) = 0 /\ \A l \in Lanes : Len(lanes[l]) = 0
  BY DEF QueueInit
<1>2. taken \in Seq(Handed)
  BY <1>1
<1> QED
  BY <1>1, <1>2 DEF OInv, LanesOrdered, TakenFirst, TakenOrdered

LEMMA OrderUnmoved ==
  ASSUME OInv, UNCHANGED <<mode, lanes, arrived, taken>>
  PROVE  OInv'
  BY DEF OInv, LanesOrdered, TakenFirst, TakenOrdered, Home, Lanes

LEMMA PushOrder ==
  ASSUME QInv, OInv, NEW tenant \in Tenants, Push(tenant)
  PROVE  OInv'
<1> DEFINE r == [id |-> arrived + 1, tenant |-> tenant]
           l == IF mode = "shared" THEN 0 ELSE IF Spills(tenant) THEN ShortestLane ELSE Owner(tenant)
<1>1. /\ mode' = mode /\ taken' = taken /\ arrived' = arrived + 1 /\ arrived \in Nat /\ Admit(r, l)
      /\ Lanes' = Lanes
  BY DEF Push, QInv, Shape, Lanes
<1>2. Shape
  BY DEF QInv
<1>3. CASE mode = "soft"
  BY <1>1, <1>3 DEF OInv
<1>4. CASE mode # "soft"
  <2>1. l = Home(tenant) /\ l \in Lanes /\ LanesOrdered /\ TakenFirst /\ TakenOrdered
    BY <1>2, <1>4, LaneFacts DEF Spills, Home, OInv, Lanes
  <2>2. \A x : Home(x)' = Home(x)
    BY <1>1 DEF Home, Owner
  <2>3. /\ \A m \in Lanes : lanes[m] \in Seq(Request) /\ Len(lanes[m]) \in Nat
        /\ \A m \in Lanes : \A i \in 1..Len(lanes[m]) : lanes[m][i].id \in Nat
        /\ \A k \in 1..Len(taken) : taken[k].id \in Nat
    <3>1. \A m \in Lanes : lanes[m] \in Seq(Request) /\ Len(lanes[m]) \in Nat
      BY <1>2 DEF Shape
    <3>2. \A m \in Lanes : \A i \in 1..Len(lanes[m]) : lanes[m][i].id \in Nat
      <4>1. ASSUME NEW m \in Lanes, NEW i \in 1..Len(lanes[m])
            PROVE  lanes[m][i].id \in Nat
        <5>1. lanes[m][i] \in Request
          BY <3>1, ElementOfSeq
        <5> QED
          BY <5>1 DEF Request
      <4> QED
        BY <4>1
    <3>3. \A k \in 1..Len(taken) : taken[k].id \in Nat
      <4>1. \A k \in 1..Len(taken) : taken[k] \in Handed
        BY ElementOfSeq DEF OInv
      <4> QED
        BY <4>1 DEF Handed
    <3> QED
      BY <3>1, <3>2, <3>3
  <2>4. TakenOrdered'
    BY <1>1, <2>1, <2>2, <2>3 DEF TakenOrdered
  <2>5. CASE lanes' = lanes
    <3>1. LanesOrdered'
      BY <1>1, <2>1, <2>2, <2>3, <2>5 DEF LanesOrdered
    <3>2. TakenFirst'
      BY <1>1, <2>1, <2>2, <2>5 DEF TakenFirst
    <3> QED
      BY <1>1, <2>4, <3>1, <3>2 DEF OInv
  <2>6. CASE lanes' = [lanes EXCEPT ![l] = Append(@, r)]
    <3> HIDE DEF l, r
    <3>1. \A m \in Lanes : m # l => lanes'[m] = lanes[m]
      BY <1>2, <2>1, <2>6 DEF Shape
    <3>2. /\ lanes'[l] = Append(lanes[l], r) /\ Len(lanes'[l]) = Len(lanes[l]) + 1
          /\ \A i \in 1..Len(lanes[l]) : lanes'[l][i] = lanes[l][i]
          /\ lanes'[l][Len(lanes[l]) + 1] = r
      BY <1>2, <2>1, <2>3, <2>6 DEF Shape
    <3>3. r.id = arrived + 1 /\ r.tenant = tenant
      BY DEF r
    <3>4. \A i \in 1..Len(lanes'[l]) :
             \/ i \in 1..Len(lanes[l]) /\ lanes'[l][i] = lanes[l][i]
             \/ i = Len(lanes[l]) + 1 /\ lanes'[l][i] = r
      BY <2>1, <2>3, <3>2
    <3>5. LanesOrdered'
      <4>1. ASSUME NEW m \in Lanes, m # l, NEW i \in 1..Len(lanes'[m])
            PROVE  /\ Home(lanes'[m][i].tenant) = m /\ lanes'[m][i].id <= arrived'
                   /\ \A j \in 1..Len(lanes'[m]) : i < j => lanes'[m][i].id < lanes'[m][j].id
        <5>1. lanes'[m] = lanes[m] /\ i \in 1..Len(lanes[m])
          BY <3>1, <4>1
        <5>2. lanes[m][i].id \in Nat /\ lanes[m][i].id <= arrived /\ Home(lanes[m][i].tenant) = m
          BY <2>1, <2>3, <5>1 DEF LanesOrdered
        <5>3. \A j \in 1..Len(lanes[m]) : i < j => lanes[m][i].id < lanes[m][j].id
          BY <2>1, <5>1 DEF LanesOrdered
        <5>4. lanes[m][i].id <= arrived'
          BY <1>1, <5>2
        <5> QED
          BY <5>1, <5>2, <5>3, <5>4
      <4>2. ASSUME NEW i \in 1..Len(lanes'[l])
            PROVE  Home(lanes'[l][i].tenant) = l /\ lanes'[l][i].id <= arrived'
        <5>1. CASE i \in 1..Len(lanes[l]) /\ lanes'[l][i] = lanes[l][i]
          <6>1. lanes[l][i].id \in Nat /\ lanes[l][i].id <= arrived /\ Home(lanes[l][i].tenant) = l
            BY <2>1, <2>3, <5>1 DEF LanesOrdered
          <6> QED
            BY <1>1, <5>1, <6>1
        <5>2. CASE lanes'[l][i] = r
          BY <1>1, <2>1, <3>3, <5>2
        <5> QED
          BY <3>4, <5>1, <5>2
      <4>3. ASSUME NEW i \in 1..Len(lanes'[l]), NEW j \in 1..Len(lanes'[l]), i < j
            PROVE  lanes'[l][i].id < lanes'[l][j].id
        <5>1. i \in 1..Len(lanes[l]) /\ lanes'[l][i] = lanes[l][i]
          BY <2>1, <2>3, <3>2, <4>3
        <5>2. CASE j \in 1..Len(lanes[l])
          BY <2>1, <3>2, <4>3, <5>1, <5>2 DEF LanesOrdered
        <5>3. CASE lanes'[l][j] = r
          BY <1>1, <2>1, <2>3, <3>3, <5>1, <5>3 DEF LanesOrdered
        <5> QED
          BY <3>4, <5>2, <5>3
      <4>4. \A m \in Lanes : \A i \in 1..Len(lanes'[m]) :
              /\ Home(lanes'[m][i].tenant) = m /\ lanes'[m][i].id <= arrived'
              /\ \A j \in 1..Len(lanes'[m]) : i < j => lanes'[m][i].id < lanes'[m][j].id
        BY <4>1, <4>2, <4>3
      <4> QED
        BY <1>1, <4>4 DEF LanesOrdered, Home
    <3>6. TakenFirst'
      <4>1. ASSUME NEW k \in 1..Len(taken), NEW i \in 1..Len(lanes'[l]), Home(taken[k].tenant) = l
            PROVE  taken[k].id < lanes'[l][i].id
        <5>1. taken[k].id \in Nat /\ taken[k].id <= arrived
          BY <2>1, <2>3 DEF TakenOrdered
        <5>2. CASE i \in 1..Len(lanes[l]) /\ lanes'[l][i] = lanes[l][i]
          BY <2>1, <4>1, <5>2 DEF TakenFirst
        <5>3. CASE lanes'[l][i] = r
          BY <1>1, <3>3, <5>1, <5>3
        <5> QED
          BY <3>4, <5>2, <5>3
      <4>2. ASSUME NEW k \in 1..Len(taken), NEW m \in Lanes, m # l, NEW i \in 1..Len(lanes'[m]),
                   Home(taken[k].tenant) = m
            PROVE  taken[k].id < lanes'[m][i].id
        BY <2>1, <3>1, <4>2 DEF TakenFirst
      <4>3. \A k \in 1..Len(taken) : \A m \in Lanes : \A i \in 1..Len(lanes'[m]) :
              Home(taken[k].tenant) = m => taken[k].id < lanes'[m][i].id
        BY <4>1, <4>2
      <4> QED
        BY <1>1, <4>3 DEF TakenFirst, Home
    <3> QED
      BY <1>1, <2>4, <3>5, <3>6 DEF OInv
  <2> QED
    BY <1>1, <2>5, <2>6 DEF Admit
<1> QED
  BY <1>3, <1>4

\* Outside of "soft" a worker takes from its own lane, and what it takes is the
\* first that is left there.
LEMMA TakeOrder ==
  ASSUME QInv, OInv, NEW w \in Workers, Take(w)
  PROVE  OInv'
<1> DEFINE l == IF lanes[Own(w)] = <<>> THEN LongestLane ELSE Own(w)
           r == Head(lanes[l])
           t == [id |-> r.id, tenant |-> r.tenant, by |-> w,
                 owned |-> mode # "shared" /\ Owner(r.tenant) = w]
<1>1. /\ UNCHANGED <<mode, arrived>> /\ Lanes' = Lanes
      /\ lanes' = [lanes EXCEPT ![l] = Tail(@)]
      /\ taken' = Append(taken, t)
  BY DEF Take, Lanes
<1>2. Shape /\ arrived \in Nat
  BY DEF QInv, Shape
<1>3. l \in Lanes /\ lanes[l] # <<>> /\ (mode = "affinity" => l = w)
  <2>1. l \in Lanes /\ lanes[l] # <<>>
    BY FromHolds DEF From
  <2>2. mode = "affinity" => lanes[Own(w)] # <<>> /\ Own(w) = w
    BY DEF Take, Ready, DrainOnClose, Own
  <2> QED
    BY <2>1, <2>2
<1>4. \A m \in Lanes : lanes[m] \in Seq(Request) /\ Len(lanes[m]) \in Nat
  BY <1>2 DEF Shape
<1>5. r \in Request /\ r = lanes[l][1] /\ Len(lanes[l]) \in Nat \ {0}
  BY <1>3, <1>4, HeadTailProperties, EmptySeq
<1>6. t \in Handed /\ t.id = r.id /\ t.tenant = r.tenant /\ t.id \in Nat
  <2>1. (mode # "shared" /\ Owner(r.tenant) = w) \in BOOLEAN
    BY Zenon
  <2>2. r.id \in Nat /\ r.tenant \in Tenants
    BY <1>5 DEF Request
  <2> HIDE DEF r
  <2> QED
    BY <2>1, <2>2 DEF Handed
<1> HIDE DEF l, r, t
<1>7. taken \in Seq(Handed) /\ taken' \in Seq(Handed) /\ Len(taken) \in Nat
      /\ Len(taken') = Len(taken) + 1
  BY <1>1, <1>6, AppendProperties DEF OInv
<1>8. CASE mode = "soft"
  BY <1>1, <1>7, <1>8 DEF OInv
<1>9. CASE mode # "soft"
  <2>1. LanesOrdered /\ TakenFirst /\ TakenOrdered
    BY <1>9 DEF OInv
  <2>2. \A k \in 1..Len(taken') :
          \/ k \in 1..Len(taken) /\ taken'[k] = taken[k]
          \/ k = Len(taken) + 1 /\ taken'[k] = t
    BY <1>1, <1>6, <1>7, AppendProperties
  <2>3. Home(t.tenant) = l /\ t.id <= arrived
    BY <1>3, <1>5, <1>6, <2>1 DEF LanesOrdered
  <2>4. \A m \in Lanes : m # l => lanes'[m] = lanes[m]
    BY <1>1, <1>2 DEF Shape
  <2>5. /\ Len(lanes'[l]) = Len(lanes[l]) - 1
        /\ \A i \in 1..Len(lanes'[l]) : i + 1 \in 1..Len(lanes[l]) /\ lanes'[l][i] = lanes[l][i + 1]
    <3>1. lanes'[l] = Tail(lanes[l])
      BY <1>1, <1>2, <1>3 DEF Shape
    <3> QED
      BY <1>3, <1>4, <1>5, <3>1, HeadTailProperties
  <2>6. ASSUME NEW i \in 1..Len(lanes'[l]) PROVE t.id < lanes'[l][i].id
    <3>1. i + 1 \in 1..Len(lanes[l]) /\ lanes'[l][i] = lanes[l][i + 1] /\ 1 < i + 1
          /\ 1 \in 1..Len(lanes[l])
      BY <1>5, <2>5
    <3> QED
      BY <1>3, <1>5, <1>6, <2>1, <3>1 DEF LanesOrdered
  <2>7. \A m \in Lanes : \A i \in 1..Len(lanes'[m]) :
          /\ Home(lanes'[m][i].tenant) = m /\ lanes'[m][i].id <= arrived
          /\ \A j \in 1..Len(lanes'[m]) : i < j => lanes'[m][i].id < lanes'[m][j].id
    <3>1. ASSUME NEW m \in Lanes, m # l, NEW i \in 1..Len(lanes'[m])
          PROVE  /\ Home(lanes'[m][i].tenant) = m /\ lanes'[m][i].id <= arrived
                 /\ \A j \in 1..Len(lanes'[m]) : i < j => lanes'[m][i].id < lanes'[m][j].id
      BY <2>1, <2>4, <3>1 DEF LanesOrdered
    <3>2. ASSUME NEW i \in 1..Len(lanes'[l])
          PROVE  Home(lanes'[l][i].tenant) = l /\ lanes'[l][i].id <= arrived
      BY <1>3, <2>1, <2>5 DEF LanesOrdered
    <3>3. ASSUME NEW i \in 1..Len(lanes'[l]), NEW j \in 1..Len(lanes'[l]), i < j
          PROVE  lanes'[l][i].id < lanes'[l][j].id
      <4>1. i + 1 < j + 1 /\ i + 1 \in 1..Len(lanes[l]) /\ j + 1 \in 1..Len(lanes[l])
            /\ lanes'[l][i] = lanes[l][i + 1] /\ lanes'[l][j] = lanes[l][j + 1]
        BY <1>5, <2>5, <3>3
      <4> QED
        BY <1>3, <2>1, <4>1 DEF LanesOrdered
    <3> QED
      BY <3>1, <3>2, <3>3
  <2>8. LanesOrdered'
    BY <1>1, <2>7 DEF LanesOrdered, Home
  <2>9. \A k \in 1..Len(taken') : \A m \in Lanes : \A i \in 1..Len(lanes'[m]) :
          Home(taken'[k].tenant) = m => taken'[k].id < lanes'[m][i].id
    <3>1. ASSUME NEW k \in 1..Len(taken'), taken'[k] = t, NEW m \in Lanes,
                 NEW i \in 1..Len(lanes'[m]), Home(taken'[k].tenant) = m
          PROVE  taken'[k].id < lanes'[m][i].id
      BY <2>3, <2>6, <3>1
    <3>2. ASSUME NEW k \in 1..Len(taken), taken'[k] = taken[k], NEW m \in Lanes,
                 NEW i \in 1..Len(lanes'[m]), Home(taken'[k].tenant) = m
          PROVE  taken'[k].id < lanes'[m][i].id
      <4>1. CASE m = l
        BY <1>3, <2>1, <2>5, <3>2, <4>1 DEF TakenFirst
      <4>2. CASE m # l
        BY <2>1, <2>4, <3>2, <4>2 DEF TakenFirst
      <4> QED
        BY <4>1, <4>2
    <3> QED
      BY <2>2, <3>1, <3>2
  <2>10. TakenFirst'
    BY <1>1, <2>9 DEF TakenFirst, Home
  <2>11. \A k \in 1..Len(taken') :
           /\ taken'[k].id <= arrived
           /\ mode = "affinity" => taken'[k].owned
           /\ \A m \in 1..Len(taken') :
                 k < m /\ Home(taken'[k].tenant) = Home(taken'[m].tenant)
                   => taken'[k].id < taken'[m].id
    <3>1. mode = "affinity" => t.owned
      BY <1>3, <1>6, <2>3 DEF t, Home
    <3>2. ASSUME NEW k \in 1..Len(taken')
          PROVE  taken'[k].id <= arrived /\ (mode = "affinity" => taken'[k].owned)
      BY <2>1, <2>2, <2>3, <3>1 DEF TakenOrdered
    <3>3. ASSUME NEW k \in 1..Len(taken'), NEW m \in 1..Len(taken'),
                 k < m, Home(taken'[k].tenant) = Home(taken'[m].tenant)
          PROVE  taken'[k].id < taken'[m].id
      <4>1. k \in 1..Len(taken) /\ taken'[k] = taken[k]
        BY <1>7, <2>2, <3>3
      <4>2. CASE m \in 1..Len(taken) /\ taken'[m] = taken[m]
        BY <2>1, <3>3, <4>1, <4>2 DEF TakenOrdered
      <4>3. CASE taken'[m] = t
        <5>1. 1 \in 1..Len(lanes[l]) /\ Home(taken[k].tenant) = l
          BY <1>5, <2>3, <3>3, <4>1, <4>3
        <5>2. taken[k].id < lanes[l][1].id
          BY <1>3, <2>1, <4>1, <5>1 DEF TakenFirst
        <5> QED
          BY <1>5, <1>6, <4>1, <4>3, <5>2
      <4> QED
        BY <2>2, <4>2, <4>3
    <3> QED
      BY <3>2, <3>3
  <2>12. TakenOrdered'
    BY <1>1, <2>11 DEF TakenOrdered, Home
  <2> QED
    BY <1>1, <1>7, <2>8, <2>10, <2>12 DEF OInv
<1> QED
  BY <1>8, <1>9

LEMMA OrderInductive == QInv /\ OInv /\ [QueueNext]_queueVars => OInv'
<1> SUFFICES ASSUME QInv, OInv, [QueueNext]_queueVars PROVE OInv'
  OBVIOUS
<1>1. ASSUME NEW tenant \in Tenants, Push(tenant) PROVE OInv'
  BY <1>1, PushOrder
<1>2. ASSUME NEW w \in Workers, Take(w) PROVE OInv'
  BY <1>2, TakeOrder
<1>3. ASSUME NEW w \in Workers, Sleep(w) \/ GiveUp(w) \/ Served(w) \/ WakeUnasked(w)
      PROVE  OInv'
  BY <1>3, OrderUnmoved DEF Sleep, GiveUp, Served, WakeUnasked, queue
<1>4. CASE Close
  BY <1>4, OrderUnmoved DEF Close
<1>5. CASE UNCHANGED queueVars
  BY <1>5, OrderUnmoved DEF queueVars, queue
<1> QED
  BY <1>1, <1>2, <1>3, <1>4, <1>5 DEF QueueNext, Produce, Pop

(***************************************************************************)
(* Accounting: the requests are shed, waiting or taken, and as many are    *)
(* counted as have arrived, so that none is in two places.                 *)
(***************************************************************************)
Slots == {p \in Lanes \X (1..MaxRequests) : p[2] <= Depth(p[1])}

AllWaiting == UNION {Waiting(l) : l \in Lanes}

CInv == EachRequestOnce /\ \A l \in Lanes : Depth(l) <= arrived

LEMMA SlotsFinite ==
  ASSUME Shape
  PROVE  IsFiniteSet(Slots)
<1>1. IsFiniteSet(Workers) /\ IsFiniteSet(1..MaxRequests) /\ IsFiniteSet({0})
  <2>1. NumWorkers - 1 \in Int /\ MaxRequests \in Int
    BY SchedulerAssumption
  <2>2. IsFiniteSet(0..NumWorkers - 1) /\ IsFiniteSet(1..MaxRequests)
    BY <2>1, FS_Interval
  <2> QED
    BY <2>2, FS_Singleton DEF Workers
<1>2. IsFiniteSet(Lanes \X (1..MaxRequests))
  BY <1>1, FS_Product DEF Lanes
<1> QED
  BY <1>2, FS_Subset DEF Slots

LEMMA ShedFinite ==
  ASSUME Shape, EachRequestOnce
  PROVE  IsFiniteSet(shed) /\ shed \subseteq 1..arrived /\ arrived \in Nat
<1>1. arrived \in Nat /\ shed \subseteq 1..arrived
  BY DEF Shape, EachRequestOnce
<1>2. IsFiniteSet(1..arrived)
  BY <1>1, FS_Interval
<1> QED
  BY <1>1, <1>2, FS_Subset

LEMMA AccountsFirst == QueueInit => CInv
<1> SUFFICES ASSUME QueueInit PROVE CInv
  OBVIOUS
<1>1. /\ arrived = 0 /\ shed = {} /\ taken = <<>>
      /\ \A l \in Lanes : lanes[l] = <<>> /\ Depth(l) = 0
  BY DEF QueueInit, Depth
<1>2. Taken = {} /\ \A l \in Lanes : Waiting(l) = {}
  BY <1>1 DEF Taken, Waiting
<1>3. Slots = {}
  BY <1>1 DEF Slots
<1>4. Cardinality({}) = 0 /\ Len(<<>>) = 0
  BY FS_EmptySet
<1>5. 1..0 = {}
  OBVIOUS
<1>6. EachRequestOnce
  <2>1. AllWaiting = {}
    BY <1>2 DEF AllWaiting
  <2>2. 1..arrived = shed \cup Taken \cup AllWaiting
    BY <1>1, <1>2, <1>5, <2>1
  <2>3. Cardinality(shed) + Len(taken) + Cardinality(Slots) = arrived
    BY <1>1, <1>3, <1>4
  <2> QED
    BY <2>2, <2>3 DEF EachRequestOnce, Slots, AllWaiting
<1> QED
  BY <1>1, <1>6 DEF CInv

LEMMA AccountsUnmoved ==
  ASSUME CInv, UNCHANGED <<mode, lanes, arrived, taken, shed>>
  PROVE  CInv'
  BY DEF CInv, EachRequestOnce, Waiting, Taken, Depth, Lanes

\* A request that arrives is shed, or takes the next place of its lane.
LEMMA PushAccounts ==
  ASSUME QInv, CInv, NEW tenant \in Tenants, Push(tenant)
  PROVE  CInv'
<1>1. PICK l, r :
        /\ l \in Lanes
        /\ mode' = mode /\ taken' = taken /\ arrived' = arrived + 1 /\ Admit(r, l)
        /\ Lanes' = Lanes /\ arrived < MaxRequests /\ Shape
        /\ r.id = arrived + 1
  <2> DEFINE new == [id |-> arrived + 1, tenant |-> tenant]
             lane == IF mode = "shared" THEN 0 ELSE IF Spills(tenant) THEN ShortestLane ELSE Owner(tenant)
  <2>1. /\ mode' = mode /\ taken' = taken /\ arrived' = arrived + 1 /\ Admit(new, lane)
        /\ Lanes' = Lanes /\ arrived < MaxRequests /\ Shape
        /\ new.id = arrived + 1
    BY DEF Push, QInv, Shape, Lanes
  <2>2. lane \in Lanes
    BY <2>1, LaneFacts, ShortestLaneIsLane DEF Lanes
  <2> HIDE DEF new, lane
  <2> QED
    BY <2>1, <2>2
<1>2. PICK id : id = arrived + 1
  OBVIOUS
<1>3. /\ \A m \in Lanes : lanes[m] \in Seq(Request) /\ Len(lanes[m]) \in Nat /\ Depth(m) = Len(lanes[m])
      /\ arrived \in Nat /\ MaxRequests \in Nat
  BY <1>1, SchedulerAssumption DEF Shape, Depth
<1>4. IsFiniteSet(shed) /\ shed \subseteq 1..arrived /\ IsFiniteSet(Slots)
  BY <1>1, ShedFinite, SlotsFinite DEF CInv
<1>5. /\ 1..arrived = shed \cup Taken \cup AllWaiting
      /\ Cardinality(shed) + Len(taken) + Cardinality(Slots) = arrived
  BY DEF CInv, EachRequestOnce, Slots, AllWaiting
<1>6. Taken' = Taken /\ 1..arrived' = (1..arrived) \cup {arrived + 1} /\ arrived + 1 \notin shed
  BY <1>1, <1>3, <1>4 DEF Taken
<1>7. Cardinality(shed) \in Nat /\ Cardinality(Slots) \in Nat
  BY <1>4, FS_CardinalityType
<1>8. Len(taken) \in Int
  BY <1>3, <1>5, <1>7
<1>9. CASE Depth(l) >= MaxDepth
  <2>1. shed' = shed \cup {arrived + 1} /\ lanes' = lanes
    BY <1>1, <1>9 DEF Admit
  <2>2. Cardinality(shed') = Cardinality(shed) + 1
    BY <1>4, <1>6, <2>1, FS_AddElement
  <2>3. Slots' = Slots /\ AllWaiting' = AllWaiting
    BY <1>1, <2>1 DEF Slots, AllWaiting, Waiting, Depth
  <2>4. Cardinality(shed') + Len(taken') + Cardinality(Slots') = arrived'
    <3>1. Cardinality(shed') + Len(taken) + Cardinality(Slots) = arrived + 1
      BY <1>3, <1>5, <1>7, <1>8, <2>2
    <3> QED
      BY <1>1, <2>3, <3>1
  <2>5. 1..arrived' = shed' \cup Taken' \cup AllWaiting'
    BY <1>5, <1>6, <2>1, <2>3
  <2>6. \A m \in Lanes' : Depth(m)' <= arrived'
    BY <1>1, <1>3, <2>1 DEF CInv, Depth
  <2> QED
    BY <1>1, <2>4, <2>5, <2>6 DEF CInv, EachRequestOnce, Slots, AllWaiting
<1>10. CASE ~(Depth(l) >= MaxDepth)
  <2>1. shed' = shed /\ lanes' = [lanes EXCEPT ![l] = Append(@, r)]
    BY <1>1, <1>10 DEF Admit
  <2>2. /\ \A m \in Lanes : m # l => lanes'[m] = lanes[m]
        /\ lanes'[l] = Append(lanes[l], r)
    BY <1>1, <1>2, <2>1 DEF Shape
  <2>3. /\ Len(lanes'[l]) = Len(lanes[l]) + 1
        /\ \A i \in 1..Len(lanes[l]) : lanes'[l][i] = lanes[l][i]
        /\ lanes'[l][Len(lanes[l]) + 1] = r
        /\ DOMAIN lanes'[l] = 1..Len(lanes[l]) + 1 /\ DOMAIN lanes[l] = 1..Len(lanes[l])
    BY <1>2, <1>3, <2>2
  <2>4. Waiting(l)' = Waiting(l) \cup {id}
    <3>1. \A x : x \in Waiting(l) <=> \E i \in 1..Len(lanes[l]) : x = lanes[l][i].id
      BY <2>3 DEF Waiting
    <3>2. \A x : x \in Waiting(l)' <=> \E i \in 1..Len(lanes[l]) + 1 : x = lanes'[l][i].id
      BY <2>3 DEF Waiting
    <3>3. Len(lanes[l]) \in Nat /\ lanes'[l][Len(lanes[l]) + 1].id = id
      BY <1>1, <1>2, <1>3, <2>3
    <3>4. \A i \in 1..Len(lanes[l]) + 1 : i \in 1..Len(lanes[l]) \/ i = Len(lanes[l]) + 1
      BY <3>3
    <3>5. ASSUME NEW x \in Waiting(l)' PROVE x \in Waiting(l) \cup {id}
      BY <2>3, <3>1, <3>2, <3>3, <3>4
    <3>6. ASSUME NEW x \in Waiting(l) PROVE x \in Waiting(l)'
      <4>1. PICK i \in 1..Len(lanes[l]) : x = lanes[l][i].id
        BY <3>1
      <4>2. x = lanes'[l][i].id /\ i \in 1..Len(lanes[l]) + 1
        BY <2>3, <3>3, <4>1
      <4> QED
        BY <3>2, <4>2
    <3>7. id \in Waiting(l)'
      BY <3>2, <3>3
    <3> QED
      BY <3>5, <3>6, <3>7
  <2>5. \A m \in Lanes : m # l => Waiting(m)' = Waiting(m)
    BY <2>2 DEF Waiting
  <2>6. AllWaiting' = AllWaiting \cup {id}
    BY <1>1, <2>4, <2>5 DEF AllWaiting
  <2>7. 1..arrived' = shed' \cup Taken' \cup AllWaiting'
    BY <1>2, <1>5, <1>6, <2>1, <2>6
  <2>8. \A m \in Lanes : Depth(m)' = IF m = l THEN Depth(m) + 1 ELSE Depth(m)
    BY <1>2, <1>3, <2>2, <2>3 DEF Depth
  <2>9. \A m \in Lanes' : Depth(m)' <= arrived'
    BY <1>1, <1>3, <2>8 DEF CInv
  <2>10. Depth(l) + 1 \in 1..MaxRequests
    BY <1>1, <1>2, <1>3 DEF CInv
  <2> DEFINE new == <<l, Depth(l) + 1>>
  <2>11. new \notin Slots /\ Slots' = Slots \cup {new}
    <3>1. new \notin Slots
      BY <1>2, <1>3 DEF Slots
    <3>2. ASSUME NEW m \in Lanes, NEW k \in 1..MaxRequests
          PROVE  k <= Depth(m)' <=> k <= Depth(m) \/ (m = l /\ k = Depth(l) + 1)
      BY <1>2, <1>3, <2>8
    <3>3. Slots' = {p \in Lanes \X (1..MaxRequests) : p[2] <= Depth(p[1])'}
      BY <1>1 DEF Slots
    <3> QED
      BY <1>1, <1>2, <2>10, <3>1, <3>2, <3>3 DEF Slots
  <2> HIDE DEF new
  <2>12. Cardinality(Slots') = Cardinality(Slots) + 1
    BY <1>4, <2>11, FS_AddElement
  <2>13. Cardinality(shed') + Len(taken') + Cardinality(Slots') = arrived'
    BY <1>1, <1>3, <1>5, <1>7, <1>8, <2>1, <2>12
  <2> QED
    BY <1>1, <2>7, <2>9, <2>13 DEF CInv, EachRequestOnce, Slots, AllWaiting
<1> QED
  BY <1>9, <1>10

\* What a worker takes leaves its place in the lane.
LEMMA TakeAccounts ==
  ASSUME QInv, OInv, OInv', CInv, NEW w \in Workers, Take(w)
  PROVE  CInv'
<1>1. PICK l, t :
        /\ l \in Lanes
        /\ UNCHANGED <<mode, arrived, shed>> /\ Lanes' = Lanes
        /\ lanes[l] # <<>> /\ lanes' = [lanes EXCEPT ![l] = Tail(@)]
        /\ taken' = Append(taken, t) /\ t.id = Head(lanes[l]).id
  <2> DEFINE lane == From(w)
             req == Head(lanes[lane])
             new == [id |-> req.id, tenant |-> req.tenant, by |-> w,
                     owned |-> mode # "shared" /\ Owner(req.tenant) = w]
  <2>1. /\ UNCHANGED <<mode, arrived, shed>> /\ Lanes' = Lanes
        /\ lanes' = [lanes EXCEPT ![lane] = Tail(@)]
        /\ taken' = Append(taken, new) /\ new.id = Head(lanes[lane]).id
    BY DEF Take, Lanes, From
  <2>2. lane \in Lanes /\ lanes[lane] # <<>>
    BY FromHolds
  <2> HIDE DEF lane, new
  <2> QED
    BY <2>1, <2>2
<1>2. Shape
  BY DEF QInv
<1>3. /\ \A m \in Lanes : lanes[m] \in Seq(Request) /\ Len(lanes[m]) \in Nat /\ Depth(m) = Len(lanes[m])
      /\ arrived \in Nat /\ MaxRequests \in Nat /\ arrived <= MaxRequests
  BY <1>2, SchedulerAssumption DEF Shape, Depth
<1>4. IsFiniteSet(Slots)
  BY <1>2, SlotsFinite
<1>5. /\ 1..arrived = shed \cup Taken \cup AllWaiting
      /\ Cardinality(shed) + Len(taken) + Cardinality(Slots) = arrived
  BY DEF CInv, EachRequestOnce, Slots, AllWaiting
<1>6. /\ \A m \in Lanes : m # l => lanes'[m] = lanes[m]
      /\ lanes'[l] = Tail(lanes[l])
  BY <1>1, <1>2 DEF Shape
<1>7. /\ Len(lanes[l]) \in Nat \ {0} /\ Len(lanes'[l]) = Len(lanes[l]) - 1
      /\ t.id = lanes[l][1].id /\ DOMAIN lanes[l] = 1..Len(lanes[l])
      /\ DOMAIN lanes'[l] = 1..Len(lanes[l]) - 1
      /\ \A i \in 1..Len(lanes[l]) - 1 : lanes'[l][i] = lanes[l][i + 1]
  <2>1. lanes[l] \in Seq(Request) /\ lanes[l] # <<>>
    BY <1>1, <1>3
  <2>2. Len(lanes[l]) \in Nat \ {0} /\ DOMAIN lanes[l] = 1..Len(lanes[l])
    BY <2>1, EmptySeq
  <2>3. /\ Tail(lanes[l]) \in Seq(Request) /\ Len(Tail(lanes[l])) = Len(lanes[l]) - 1
        /\ \A i \in 1..Len(Tail(lanes[l])) : Tail(lanes[l])[i] = lanes[l][i + 1]
    BY <2>1, HeadTailProperties
  <2>4. Head(lanes[l]) = lanes[l][1] /\ DOMAIN Tail(lanes[l]) = 1..Len(Tail(lanes[l]))
    BY <2>1, <2>3
  <2> QED
    BY <1>1, <1>6, <2>2, <2>3, <2>4
<1>8. Waiting(l) = Waiting(l)' \cup {t.id}
  <2>1. \A x : x \in Waiting(l) <=> \E i \in 1..Len(lanes[l]) : x = lanes[l][i].id
    BY <1>7 DEF Waiting
  <2>2. \A x : x \in Waiting(l)' <=> \E i \in 1..Len(lanes[l]) - 1 : x = lanes[l][i + 1].id
    BY <1>1, <1>7 DEF Waiting
  <2>3. \A i \in 1..Len(lanes[l]) : i = 1 \/ (i - 1 \in 1..Len(lanes[l]) - 1 /\ i = (i - 1) + 1)
    BY <1>7
  <2>4. 1 \in 1..Len(lanes[l]) /\ \A i \in 1..Len(lanes[l]) - 1 : i + 1 \in 1..Len(lanes[l])
    BY <1>7
  <2>5. ASSUME NEW x \in Waiting(l) PROVE x \in Waiting(l)' \cup {t.id}
    <3>1. PICK i \in 1..Len(lanes[l]) : x = lanes[l][i].id
      BY <2>1
    <3>2. CASE i = 1
      BY <1>7, <3>1, <3>2
    <3>3. CASE i # 1
      BY <2>2, <2>3, <3>1, <3>3
    <3> QED
      BY <3>2, <3>3
  <2>6. ASSUME NEW x \in Waiting(l)' PROVE x \in Waiting(l)
    BY <2>1, <2>2, <2>4
  <2>7. t.id \in Waiting(l)
    BY <1>7, <2>1, <2>4
  <2> QED
    BY <2>5, <2>6, <2>7
<1>9. \A m \in Lanes : m # l => Waiting(m)' = Waiting(m)
  BY <1>6 DEF Waiting
<1>10. AllWaiting = AllWaiting' \cup {t.id}
  BY <1>1, <1>2, <1>8, <1>9 DEF AllWaiting
<1>11. Taken' = Taken \cup {t.id} /\ Len(taken') = Len(taken) + 1 /\ Len(taken) \in Nat
  <2>1. /\ taken \in Seq(Handed) /\ Len(taken) \in Nat
        /\ DOMAIN taken = 1..Len(taken) /\ Len(taken') = Len(taken) + 1
        /\ DOMAIN taken' = 1..Len(taken) + 1
        /\ \A k \in 1..Len(taken) : taken'[k] = taken[k]
        /\ taken'[Len(taken) + 1] = t
    BY <1>1 DEF OInv
  <2> QED
    BY <1>1, <2>1 DEF Taken
<1>12. 1..arrived' = shed' \cup Taken' \cup AllWaiting'
  BY <1>1, <1>5, <1>10, <1>11
<1>13. \A m \in Lanes : Depth(m)' = IF m = l THEN Depth(m) - 1 ELSE Depth(m)
  BY <1>2, <1>3, <1>6, <1>7 DEF Depth
<1>14. \A m \in Lanes' : Depth(m)' <= arrived'
  BY <1>1, <1>3, <1>13 DEF CInv
<1> DEFINE old == <<l, Depth(l)>>
<1>15. old \in Slots /\ Slots' = Slots \ {old}
  <2>1. Depth(l) \in 1..MaxRequests
    BY <1>1, <1>2, <1>3, <1>7 DEF CInv
  <2>2. old \in Slots
    BY <1>1, <1>2, <2>1 DEF Slots
  <2>3. ASSUME NEW m \in Lanes, NEW k \in 1..MaxRequests
        PROVE  k <= Depth(m)' <=> k <= Depth(m) /\ ~(m = l /\ k = Depth(l))
    BY <1>2, <1>3, <1>13
  <2>4. Slots' = {p \in Lanes \X (1..MaxRequests) : p[2] <= Depth(p[1])'}
    BY <1>1 DEF Slots
  <2> QED
    BY <1>2, <2>1, <2>2, <2>3, <2>4 DEF Slots
<1> HIDE DEF old
<1>16. Cardinality(Slots') = Cardinality(Slots) - 1 /\ Cardinality(Slots) \in Nat
  BY <1>4, <1>15, FS_RemoveElement, FS_CardinalityType
<1>17. Cardinality(shed) \in Nat
  BY <1>2, ShedFinite, FS_CardinalityType DEF CInv
<1>18. Cardinality(shed') + Len(taken') + Cardinality(Slots') = arrived'
  BY <1>1, <1>3, <1>5, <1>11, <1>16, <1>17
<1> QED
  BY <1>1, <1>12, <1>14, <1>18 DEF CInv, EachRequestOnce, Slots, AllWaiting

LEMMA AccountsInductive == QInv /\ OInv /\ OInv' /\ CInv /\ [QueueNext]_queueVars => CInv'
<1> SUFFICES ASSUME QInv, OInv, OInv', CInv, [QueueNext]_queueVars PROVE CInv'
  OBVIOUS
<1>1. ASSUME NEW tenant \in Tenants, Push(tenant) PROVE CInv'
  BY <1>1, PushAccounts
<1>2. ASSUME NEW w \in Workers, Take(w) PROVE CInv'
  BY <1>2, TakeAccounts
<1>3. ASSUME NEW w \in Workers, Sleep(w) \/ GiveUp(w) \/ Served(w) \/ WakeUnasked(w)
      PROVE  CInv'
  BY <1>3, AccountsUnmoved DEF Sleep, GiveUp, Served, WakeUnasked, queue
<1>4. CASE Close
  BY <1>4, AccountsUnmoved DEF Close
<1>5. CASE UNCHANGED queueVars
  BY <1>5, AccountsUnmoved DEF queueVars, queue
<1> QED
  BY <1>1, <1>2, <1>3, <1>4, <1>5 DEF QueueNext, Produce, Pop

(***************************************************************************)
(* The theorems.                                                           *)
(***************************************************************************)
\* Whatever the mode and however many the workers, none sleeps while pop() has
\* something for it: no take by one of them makes another one ready.
THEOREM NoWakeupIsLost == QueueSpec => []NoLostWakeup
<1>1. QInv => NoLostWakeup
  BY DEF QInv
<1> QED
  BY <1>1, QueueFirst, QueueInductive, PTL DEF QueueSpec

\* With a threshold above 0 a worker leaves only when the queue is closed and
\* nothing is left that it may take, and it stays so.
THEOREM LeavesLast == QueueSpec => [](Steal > 0 => StaysWhileNeeded)
<1>1. QInv => (Steal > 0 => StaysWhileNeeded)
  BY DEF QInv
<1> QED
  BY <1>1, QueueFirst, QueueInductive, PTL DEF QueueSpec

\* Requests leave a shared queue in order of arrival, and with affinity those of
\* one tenant do, taken by their owner only, however many wait and are shed.
THEOREM OrderIsKept == QueueSpec => []OrderKept
<1>1. QueueInit => QInv /\ OInv
  BY QueueFirst, OrderFirst
<1>2. (QInv /\ OInv) /\ [QueueNext]_queueVars => (QInv /\ OInv)'
  BY QueueInductive, OrderInductive
<1> QED
  BY <1>1, <1>2, OInvOrderKept, PTL DEF QueueSpec

\* Every request that arrived is shed, waiting in one lane or taken, and in only one
\* of these, whatever is spilled, stolen and shed and whenever the queue is closed.
THEOREM RequestsAccounted == QueueSpec => []EachRequestOnce
<1>1. QueueInit => QInv /\ OInv /\ CInv
  BY QueueFirst, OrderFirst, AccountsFirst
<1>2. (QInv /\ OInv /\ CInv) /\ [QueueNext]_queueVars => (QInv /\ OInv /\ CInv)'
  BY QueueInductive, OrderInductive, AccountsInductive
<1>3. CInv => EachRequestOnce
  BY DEF CInv
<1> QED
  BY <1>1, <1>2, <1>3, PTL DEF QueueSpec

-----------------------------------------------------------------------------
(***************************************************************************)
(* KEY CACHE.                                                              *)
(***************************************************************************)
Injective(s) == \A i, j \in DOMAIN s : s[i] = s[j] => i = j


(* A function on 1..n is a sequence of length n.                            *)
LEMMA FunctionIsSeq ==
  ASSUME NEW S, NEW n \in Nat, NEW f \in [1..n -> S]
  PROVE  f \in Seq(S) /\ Len(f) = n /\ DOMAIN f = 1..n
<1>1. f \in Seq(S)
  BY SeqDef
<1> QED
  BY <1>1, LenProperties

(* A hit moves one element of order_ to the front and loses none.           *)
LEMMA MoveToFrontKeeps ==
  ASSUME NEW S, NEW s \in Seq(S), NEW p \in DOMAIN s
  PROVE  /\ MoveToFront(s, p) \in Seq(S)
         /\ Len(MoveToFront(s, p)) = Len(s)
         /\ Elements(MoveToFront(s, p)) = Elements(s)
         /\ Injective(s) => Injective(MoveToFront(s, p))
<1> DEFINE r == MoveToFront(s, p)
<1>1. Len(s) \in Nat /\ DOMAIN s = 1..Len(s) /\ \A i \in 1..Len(s) : s[i] \in S
  BY LenProperties, ElementOfSeq
<1>2. r \in [1..Len(s) -> S]
  BY <1>1 DEF MoveToFront
<1>3. r \in Seq(S) /\ Len(r) = Len(s) /\ DOMAIN r = 1..Len(s)
  BY <1>1, <1>2, FunctionIsSeq
<1>4. \A i \in 1..Len(s) : r[i] = IF i = 1 THEN s[p] ELSE IF i <= p THEN s[i - 1] ELSE s[i]
  BY DEF MoveToFront
<1> HIDE DEF r
<1>5. Elements(r) \subseteq Elements(s)
  <2> SUFFICES ASSUME NEW i \in 1..Len(s)
               PROVE  \E j \in 1..Len(s) : r[i] = s[j]
    BY <1>1, <1>3 DEF Elements
  <2>1. CASE i = 1
    BY <2>1, <1>1, <1>4
  <2>2. CASE i # 1 /\ i <= p
    BY <2>2, <1>1, <1>4, i - 1 \in 1..Len(s)
  <2>3. CASE i # 1 /\ ~(i <= p)
    BY <2>3, <1>1, <1>4
  <2> QED
    BY <2>1, <2>2, <2>3
<1>6. Elements(s) \subseteq Elements(r)
  <2> SUFFICES ASSUME NEW j \in 1..Len(s)
               PROVE  \E i \in 1..Len(s) : s[j] = r[i]
    BY <1>1, <1>3 DEF Elements
  <2>1. CASE j = p
    BY <2>1, <1>1, <1>4, 1 \in 1..Len(s)
  <2>2. CASE j < p
    <3>1. j + 1 \in 1..Len(s) /\ j + 1 # 1 /\ j + 1 <= p /\ (j + 1) - 1 = j
      BY <2>2, <1>1
    <3> QED
      BY <3>1, <1>4
  <2>3. CASE j > p
    BY <2>3, <1>1, <1>4, j # 1, ~(j <= p)
  <2> QED
    BY <2>1, <2>2, <2>3, <1>1
<1>7. ASSUME Injective(s) PROVE Injective(r)
  <2> SUFFICES ASSUME NEW i \in 1..Len(s), NEW j \in 1..Len(s), r[i] = r[j]
               PROVE  i = j
    BY <1>3 DEF Injective
  <2> DEFINE Source(x) == IF x = 1 THEN p ELSE IF x <= p THEN x - 1 ELSE x
  <2>1. Source(i) \in 1..Len(s) /\ Source(j) \in 1..Len(s)
    BY <1>1
  <2>2. r[i] = s[Source(i)] /\ r[j] = s[Source(j)]
    BY <1>4
  <2>3. Source(i) = Source(j)
    BY <1>1, <1>7, <2>1, <2>2 DEF Injective
  <2> QED
    BY <1>1, <2>3
<1> QED
  BY <1>3, <1>5, <1>6, <1>7 DEF r

(* Storing a key that is not in order_ evicts the last one when it is full.  *)
LEMMA PushFrontKeeps ==
  ASSUME NEW S, NEW s \in Seq(S), NEW k \in S, Capacity \in Nat, Len(s) <= Capacity,
         Injective(s), k \notin Elements(s)
  PROVE  /\ PushFront(s, k) \in Seq(S)
         /\ Len(PushFront(s, k)) <= Capacity
         /\ Injective(PushFront(s, k))
         /\ Elements(PushFront(s, k)) =
              {x \in Elements(s) \cup {k} :
                 Len(s) < Capacity \/ (Capacity > 0 /\ x # s[Len(s)])}
<1> DEFINE n == IF Len(s) < Capacity THEN Len(s) + 1 ELSE Capacity
           r == PushFront(s, k)
<1>1. Len(s) \in Nat /\ DOMAIN s = 1..Len(s) /\ \A i \in 1..Len(s) : s[i] \in S
  BY LenProperties, ElementOfSeq
<1>2. n \in Nat /\ n <= Len(s) + 1 /\ n <= Capacity
  BY <1>1
<1>3. r \in [1..n -> S]
  BY <1>1, <1>2 DEF PushFront
<1>4. r \in Seq(S) /\ Len(r) = n /\ DOMAIN r = 1..n
  BY <1>2, <1>3, FunctionIsSeq
<1>5. \A i \in 1..n : r[i] = IF i = 1 THEN k ELSE s[i - 1]
  BY DEF PushFront
<1>6. \A j \in 1..Len(s) : s[j] # k
  BY <1>1 DEF Elements
<1> HIDE DEF r
<1>7. Injective(r)
  <2> SUFFICES ASSUME NEW i \in 1..n, NEW j \in 1..n, r[i] = r[j]
               PROVE  i = j
    BY <1>4 DEF Injective
  <2>1. \A x \in 1..n : x # 1 => x - 1 \in 1..Len(s)
    BY <1>1, <1>2
  <2>2. CASE i = 1 \/ j = 1
    BY <2>1, <2>2, <1>5, <1>6
  <2>3. CASE i # 1 /\ j # 1
    <3>1. s[i - 1] = s[j - 1]
      BY <2>3, <1>5
    <3>2. i - 1 = j - 1
      BY <2>1, <2>3, <3>1, <1>1 DEF Injective
    <3> QED
      BY <3>2, <1>2
  <2> QED
    BY <2>2, <2>3
<1>8. Elements(r) = {x \in Elements(s) \cup {k} :
                       Len(s) < Capacity \/ (Capacity > 0 /\ x # s[Len(s)])}
  <2>1. Elements(r) = {r[i] : i \in 1..n} /\ Elements(s) = {s[j] : j \in 1..Len(s)}
    BY <1>1, <1>4 DEF Elements
  <2>2. CASE Len(s) < Capacity
    <3>1. \A j \in 1..Len(s) : j + 1 \in 1..n /\ r[j + 1] = s[j]
      BY <1>1, <1>5, <2>2
    <3>2. 1 \in 1..n /\ r[1] = k
      BY <1>1, <1>5, <2>2
    <3>3. \A i \in 1..n : i # 1 => i - 1 \in 1..Len(s) /\ r[i] = s[i - 1]
      BY <1>1, <1>2, <1>5
    <3> QED
      BY <2>1, <2>2, <3>1, <3>2, <3>3
  <2>3. CASE Len(s) = Capacity /\ Capacity = 0
    BY <2>1, <2>3, <1>1
  <2>4. CASE Len(s) = Capacity /\ Capacity > 0
    <3>1. \A j \in 1..Len(s) : j # Len(s) => j + 1 \in 1..n /\ r[j + 1] = s[j]
      BY <1>1, <1>5, <2>4
    <3>2. 1 \in 1..n /\ r[1] = k /\ k # s[Len(s)]
      BY <1>1, <1>5, <1>6, <2>4
    <3>3. \A i \in 1..n : i # 1 =>
            i - 1 \in 1..Len(s) /\ i - 1 # Len(s) /\ r[i] = s[i - 1]
      BY <1>1, <1>2, <1>5, <2>4
    <3>4. \A j \in 1..Len(s) : s[j] = s[Len(s)] => j = Len(s)
      BY <1>1, <2>4 DEF Injective
    <3> QED
      BY <2>1, <2>4, <3>1, <3>2, <3>3, <3>4
  <2>5. Len(s) < Capacity \/ (Len(s) = Capacity /\ Capacity = 0) \/ (Len(s) = Capacity /\ Capacity > 0)
    <3>1. Len(s) \in Nat
      BY LenProperties
    <3> QED
      BY <3>1
  <2> QED
    BY <2>2, <2>3, <2>4, <2>5
<1> QED
  BY <1>2, <1>4, <1>7, <1>8 DEF r


(* The inductive invariant.                                                 *)

(* A thread that is not in acquire() holds nothing; one that is has a key.  *)
Arguments ==
  \A t \in Threads :
    /\ at[t] = "idle" => key[t] = NoKey
    /\ at[t] # "idle" => key[t] \in Keys
    /\ at[t] \in {"idle", "entered"} => state[t] = NoLoad
    /\ at[t] \notin {"idle", "entered"} => state[t] \in Loads

(* A loading thread owns the entry of its key in inflight_, and no other    *)
(* does; the key is not in the cache.                                       *)
Loading ==
  \A t \in Threads : at[t] = "loading" =>
    /\ inflight[key[t]] = state[t] /\ ~done[state[t]] /\ value[state[t]] = NoKey
    /\ key[t] \notin index
    /\ \A u \in Threads : at[u] = "loading" /\ key[u] = key[t] => u = t

(* Each entry of inflight_ has its loading thread and its own LoadState.    *)
Inflight ==
  \A k \in Keys : inflight[k] # NoLoad =>
    /\ \E t \in Threads : at[t] = "loading" /\ key[t] = k /\ state[t] = inflight[k]
    /\ \A j \in Keys : inflight[j] = inflight[k] => j = k

(* A waiting thread holds the LoadState of its key: the one in inflight_    *)
(* until it is done, and then one with a value of that key or without one.  *)
WaitingInv ==
  \A t \in Threads : at[t] \in {"asleep", "woken"} =>
    IF done[state[t]] THEN at[t] = "woken" /\ value[state[t]] \in {key[t], NoKey}
                      ELSE inflight[key[t]] = state[t]

CacheInv == TypeOK /\ IndexMatchesOrder /\ Arguments /\ Loading /\ Inflight /\ WaitingInv

(* An empty cache that nobody is using satisfies the invariant.             *)
THEOREM CacheFirst == Init => CacheInv
<1> SUFFICES ASSUME Init PROVE CacheInv
  OBVIOUS
<1> USE CacheAssumption
<1>1. order \in Seq(Keys) /\ Len(order) = 0 /\ DOMAIN order = {}
  BY EmptySeq DEF Init
<1>2. TypeOK
  BY <1>1 DEF Init, TypeOK
<1>3. IndexMatchesOrder
  BY <1>1 DEF Init, IndexMatchesOrder, Elements
<1>4. Arguments /\ Loading /\ Inflight /\ WaitingInv
  BY DEF Init, Arguments, Loading, Inflight, WaitingInv
<1> QED
  BY <1>2, <1>3, <1>4 DEF CacheInv

(* A thread that enters acquire() keeps the invariant.                      *)
LEMMA CallKeeps ==
  ASSUME CacheInv, NEW t \in Threads, NEW k \in Keys, Call(t, k)
  PROVE  CacheInv'
<1> USE CacheAssumption DEF CacheInv
<1>1. TypeOK'
  BY DEF Call, shared, TypeOK
<1>2. IndexMatchesOrder'
  BY DEF Call, shared, IndexMatchesOrder, Elements
<1>3. Arguments'
  BY DEF Call, shared, Arguments, TypeOK
<1>4. Loading' /\ Inflight' /\ WaitingInv'
  BY DEF Call, shared, Loading, Inflight, WaitingInv, TypeOK
<1> QED
  BY <1>1, <1>2, <1>3, <1>4

(* A hit, which reorders order_ under the mutex, keeps the invariant.       *)
LEMMA HitKeeps ==
  ASSUME CacheInv, NEW t \in Threads, Hit(t)
  PROVE  CacheInv'
<1> USE CacheAssumption DEF CacheInv
<1>1. PICK p \in DOMAIN order : order[p] = key[t] /\ order' = MoveToFront(order, p)
  BY DEF Hit
<1>2. /\ order' \in Seq(Keys) /\ Len(order') = Len(order)
      /\ Elements(order') = Elements(order)
      /\ Injective(order) => Injective(order')
  BY <1>1, MoveToFrontKeeps DEF TypeOK
<1>3. TypeOK'
  BY <1>2 DEF Hit, Return, TypeOK
<1>4. IndexMatchesOrder'
  BY <1>2 DEF Hit, IndexMatchesOrder, Injective, Elements
<1>5. Arguments'
  BY DEF Hit, AtLoop, Return, Arguments, TypeOK
<1>6. Loading' /\ Inflight' /\ WaitingInv'
  BY DEF Hit, AtLoop, Return, Loading, Inflight, WaitingInv, TypeOK
<1> QED
  BY <1>3, <1>4, <1>5, <1>6

(* A thread that joins the load in flight keeps the invariant.              *)
LEMMA WaitForPeerKeeps ==
  ASSUME CacheInv, NEW t \in Threads, WaitForPeer(t)
  PROVE  CacheInv'
<1> USE CacheAssumption DEF CacheInv
<1>1. TypeOK'
  BY DEF WaitForPeer, AtLoop, Arguments, shared, TypeOK
<1>2. IndexMatchesOrder'
  BY DEF WaitForPeer, shared, IndexMatchesOrder, Elements
<1>3. Arguments'
  BY DEF WaitForPeer, AtLoop, InFlight, shared, Arguments, TypeOK
<1>4. Loading' /\ Inflight'
  BY DEF WaitForPeer, AtLoop, shared, Loading, Inflight, TypeOK
<1>5. WaitingInv'
  <2>1. key[t] \in Keys /\ inflight[key[t]] # NoLoad
    BY DEF WaitForPeer, AtLoop, InFlight, Arguments
  <2>2. ~done[inflight[key[t]]]
    BY <2>1 DEF Inflight, Loading
  <2> QED
    BY <2>1, <2>2 DEF WaitForPeer, shared, WaitingInv, TypeOK
<1> QED
  BY <1>1, <1>2, <1>3, <1>4, <1>5

(* Registering a load under a name no thread points to keeps the invariant. *)
LEMMA StartLoadKeeps ==
  ASSUME CacheInv, NEW t \in Threads, StartLoad(t)
  PROVE  CacheInv'
<1> USE CacheAssumption DEF CacheInv
<1>1. PICK l \in Loads :
        /\ Free(l)
        /\ inflight' = [inflight EXCEPT ![key[t]] = l]
        /\ done' = [done EXCEPT ![l] = FALSE] /\ value' = [value EXCEPT ![l] = NoKey]
        /\ state' = [state EXCEPT ![t] = l]
  BY DEF StartLoad
<1>2. /\ key[t] \in Keys /\ key[t] \notin index /\ inflight[key[t]] = NoLoad
      /\ at[t] # "loading" /\ at' = [at EXCEPT ![t] = "loading"]
      /\ UNCHANGED <<order, index, key, failures>>
  BY DEF StartLoad, AtLoop, InFlight, Arguments
<1>3. \A u \in Threads : state[u] # l
  BY <1>1 DEF Free
<1>4. \A j \in Keys : inflight[j] # l
  BY <1>3 DEF Inflight
<1>5. TypeOK'
  BY <1>1, <1>2 DEF TypeOK
<1>6. IndexMatchesOrder'
  BY <1>2 DEF IndexMatchesOrder, Elements
<1>7. Arguments'
  BY <1>1, <1>2 DEF Arguments, TypeOK
<1>8. Loading'
  <2> SUFFICES ASSUME NEW u \in Threads, at'[u] = "loading"
               PROVE  /\ inflight'[key'[u]] = state'[u] /\ ~done'[state'[u]]
                      /\ value'[state'[u]] = NoKey /\ key'[u] \notin index'
                      /\ \A v \in Threads : at'[v] = "loading" /\ key'[v] = key'[u] => v = u
    BY DEF Loading
  <2>1. \A v \in Threads : at[v] = "loading" => key[v] # key[t]
    BY <1>2 DEF Loading, Arguments
  <2>2. CASE u = t
    BY <2>1, <2>2, <1>1, <1>2 DEF TypeOK
  <2>3. CASE u # t
    BY <2>1, <2>3, <1>1, <1>2, <1>3 DEF TypeOK, Loading, Arguments
  <2> QED
    BY <2>2, <2>3
<1>9. Inflight'
  <2> SUFFICES ASSUME NEW k \in Keys, inflight'[k] # NoLoad
               PROVE  /\ \E u \in Threads : at'[u] = "loading" /\ key'[u] = k /\ state'[u] = inflight'[k]
                      /\ \A j \in Keys : inflight'[j] = inflight'[k] => j = k
    BY DEF Inflight
  <2>1. CASE k = key[t]
    BY <2>1, <1>1, <1>2, <1>4 DEF TypeOK
  <2>2. CASE k # key[t]
    BY <2>2, <1>1, <1>2, <1>4 DEF TypeOK, Inflight
  <2> QED
    BY <2>1, <2>2
<1>10. WaitingInv'
  <2> SUFFICES ASSUME NEW u \in Threads, at'[u] \in {"asleep", "woken"}
               PROVE  IF done'[state'[u]]
                      THEN at'[u] = "woken" /\ value'[state'[u]] \in {key'[u], NoKey}
                      ELSE inflight'[key'[u]] = state'[u]
    BY DEF WaitingInv
  <2>1. u # t /\ at[u] = at'[u] /\ state'[u] = state[u] /\ state[u] # l /\ state[u] \in Loads
    BY <1>1, <1>2, <1>3 DEF TypeOK, Arguments
  <2>2. done'[state[u]] = done[state[u]] /\ value'[state[u]] = value[state[u]]
    BY <2>1, <1>1 DEF TypeOK
  <2>3. inflight[key[u]] = state[u] => key[u] # key[t]
    BY <2>1, <1>2
  <2> QED
    BY <2>1, <2>2, <2>3, <1>1, <1>2 DEF TypeOK, WaitingInv, Arguments
<1> QED
  BY <1>5, <1>6, <1>7, <1>8, <1>9, <1>10

(* insertLocked keeps order_ and index_ together, at every capacity.         *)
LEMMA InsertLockedKeeps ==
  ASSUME TypeOK, IndexMatchesOrder, NEW k \in Keys, k \notin index, InsertLocked(k)
  PROVE  /\ order' \in Seq(Keys) /\ Len(order') <= Capacity
         /\ index' \subseteq index \cup {k}
         /\ IndexMatchesOrder'
<1>1. /\ Capacity \in Nat /\ order \in Seq(Keys) /\ Len(order) <= Capacity
      /\ Injective(order) /\ k \notin Elements(order) /\ index = Elements(order)
  BY CacheAssumption DEF TypeOK, IndexMatchesOrder, Injective
<1>2. /\ order' = PushFront(order, k)
      /\ index' = {x \in index \cup {k} :
                     Len(order) < Capacity \/ (Capacity > 0 /\ x # order[Len(order)])}
  BY DEF InsertLocked
<1>3. /\ order' \in Seq(Keys) /\ Len(order') <= Capacity /\ Injective(order')
      /\ Elements(order') = index'
  BY <1>1, <1>2, PushFrontKeeps
<1> QED
  BY <1>2, <1>3 DEF IndexMatchesOrder, Injective, Elements

(* The end of a load leaves what the other threads rely on, provided that    *)
(* the LoadState gets the value of its key or none.                          *)
LEMMA FinishKeeps ==
  ASSUME CacheInv, NEW t \in Threads, at[t] = "loading", Finish(t),
         index' \subseteq index \cup {key[t]},
         \/ value' = [value EXCEPT ![state[t]] = key[t]]
         \/ value' = value
  PROVE  /\ inflight' \in [Keys -> Loads \cup {NoLoad}]
         /\ done' \in [Loads -> BOOLEAN] /\ value' \in [Loads -> Keys \cup {NoKey}]
         /\ at' \in [Threads -> {"idle", "entered", "loading", "asleep", "woken"}]
         /\ key' \in [Threads -> Keys \cup {NoKey}]
         /\ state' \in [Threads -> Loads \cup {NoLoad}]
         /\ Arguments' /\ Loading' /\ Inflight' /\ WaitingInv'
<1> USE CacheAssumption DEF CacheInv
<1> DEFINE l == state[t]
           k == key[t]
<1>1. k \in Keys /\ l \in Loads /\ inflight[k] = l /\ l # NoLoad /\ ~done[l]
  BY DEF Arguments, Loading
<1>2. /\ done' = [done EXCEPT ![l] = TRUE] /\ inflight' = [inflight EXCEPT ![k] = NoLoad]
      /\ at' = [u \in Threads |-> IF u = t THEN "idle"
                  ELSE IF at[u] = "asleep" /\ state[u] = l THEN "woken" ELSE at[u]]
      /\ key' = [key EXCEPT ![t] = NoKey] /\ state' = [state EXCEPT ![t] = NoLoad]
      /\ value' = [value EXCEPT ![l] = k] \/ value' = value
  BY DEF Finish
<1>3. \A u \in Threads : u # t /\ at[u] = "loading" => key[u] # k /\ state[u] # l
  <2>1. \A u \in Threads : u # t /\ at[u] = "loading" => key[u] # k /\ key[u] \in Keys
    BY DEF Loading, Arguments
  <2> QED
    BY <1>1, <2>1 DEF Loading, Inflight
<1> HIDE DEF l, k
<1>4. /\ inflight' \in [Keys -> Loads \cup {NoLoad}]
      /\ done' \in [Loads -> BOOLEAN] /\ value' \in [Loads -> Keys \cup {NoKey}]
      /\ at' \in [Threads -> {"idle", "entered", "loading", "asleep", "woken"}]
      /\ key' \in [Threads -> Keys \cup {NoKey}]
      /\ state' \in [Threads -> Loads \cup {NoLoad}]
  BY <1>1, <1>2 DEF TypeOK
<1>5. Arguments'
  BY <1>1, <1>2 DEF Arguments, TypeOK
<1>6. Loading'
  <2> SUFFICES ASSUME NEW u \in Threads, at'[u] = "loading"
               PROVE  /\ inflight'[key'[u]] = state'[u] /\ ~done'[state'[u]]
                      /\ value'[state'[u]] = NoKey /\ key'[u] \notin index'
                      /\ \A v \in Threads : at'[v] = "loading" /\ key'[v] = key'[u] => v = u
    BY DEF Loading
  <2>1. u # t /\ at[u] = "loading" /\ key'[u] = key[u] /\ state'[u] = state[u]
    BY <1>2 DEF TypeOK
  <2>2. key[u] \in Keys /\ key[u] # k /\ state[u] \in Loads /\ state[u] # l
    BY <2>1, <1>3 DEF Arguments
  <2>3. /\ inflight'[key[u]] = inflight[key[u]] /\ done'[state[u]] = done[state[u]]
        /\ value'[state[u]] = value[state[u]]
    BY <2>2, <1>2 DEF TypeOK
  <2>4. key[u] \notin index'
    BY <2>1, <2>2 DEF Loading, k
  <2>5. ASSUME NEW v \in Threads, at'[v] = "loading", key'[v] = key'[u] PROVE v = u
    BY <2>1, <2>5, <1>2 DEF Loading, TypeOK
  <2> QED
    BY <2>1, <2>3, <2>4, <2>5 DEF Loading
<1>7. Inflight'
  <2> SUFFICES ASSUME NEW j \in Keys, inflight'[j] # NoLoad
               PROVE  /\ \E u \in Threads : at'[u] = "loading" /\ key'[u] = j /\ state'[u] = inflight'[j]
                      /\ \A i \in Keys : inflight'[i] = inflight'[j] => i = j
    BY DEF Inflight
  <2>1. j # k /\ inflight'[j] = inflight[j]
    BY <1>1, <1>2 DEF TypeOK
  <2>2. PICK u \in Threads : at[u] = "loading" /\ key[u] = j /\ state[u] = inflight[j]
    BY <2>1 DEF Inflight
  <2>3. u # t
    BY <2>1, <2>2 DEF k
  <2>4. at'[u] = "loading" /\ key'[u] = j /\ state'[u] = inflight'[j]
    BY <2>1, <2>2, <2>3, <1>2 DEF TypeOK
  <2>5. \A i \in Keys : inflight'[i] = inflight'[j] => i = j
    BY <2>1, <1>2 DEF Inflight, TypeOK
  <2> QED
    BY <2>4, <2>5
<1>8. WaitingInv'
  <2> SUFFICES ASSUME NEW u \in Threads, at'[u] \in {"asleep", "woken"}
               PROVE  IF done'[state'[u]]
                      THEN at'[u] = "woken" /\ value'[state'[u]] \in {key'[u], NoKey}
                      ELSE inflight'[key'[u]] = state'[u]
    BY DEF WaitingInv
  <2>1. /\ u # t /\ at[u] \in {"asleep", "woken"} /\ key'[u] = key[u] /\ state'[u] = state[u]
        /\ key[u] \in Keys /\ state[u] \in Loads
    BY <1>2 DEF TypeOK, Arguments
  <2>2. CASE state[u] = l
    <3>1. inflight[key[u]] = l
      BY <2>1, <2>2, <1>1 DEF WaitingInv
    <3>2. key[u] = k
      BY <3>1, <2>1, <1>1 DEF Inflight
    <3>3. value[l] = NoKey
      BY DEF Loading, l
    <3>4. done'[l] /\ value'[l] \in {k, NoKey} /\ at'[u] = "woken"
      BY <2>1, <2>2, <3>3, <1>1, <1>2 DEF TypeOK
    <3> QED
      BY <2>1, <2>2, <3>2, <3>4
  <2>3. CASE state[u] # l
    <3>1. done'[state[u]] = done[state[u]] /\ value'[state[u]] = value[state[u]] /\ at'[u] = at[u]
      BY <2>1, <2>3, <1>2 DEF TypeOK
    <3>2. inflight[key[u]] = state[u] => inflight'[key[u]] = state[u]
      BY <2>1, <2>3, <1>1, <1>2 DEF TypeOK
    <3> QED
      BY <2>1, <3>1, <3>2 DEF WaitingInv
  <2> QED
    BY <2>2, <2>3
<1> QED
  BY <1>4, <1>5, <1>6, <1>7, <1>8

(* The end of a load that produced the key keeps the invariant.             *)
LEMMA LoadSucceedsKeeps ==
  ASSUME CacheInv, NEW t \in Threads, LoadSucceeds(t)
  PROVE  CacheInv'
<1>1. key[t] \in Keys /\ key[t] \notin index
  BY DEF CacheInv, LoadSucceeds, Arguments, Loading
<1>2. /\ order' \in Seq(Keys) /\ Len(order') <= Capacity
      /\ index' \subseteq index \cup {key[t]} /\ IndexMatchesOrder'
  BY <1>1, InsertLockedKeeps DEF CacheInv, LoadSucceeds
<1>3. failures' \in 0..MaxFailures /\ index' \subseteq Keys
  BY <1>1, <1>2 DEF CacheInv, LoadSucceeds, TypeOK
<1> QED
  BY <1>2, <1>3, FinishKeeps DEF CacheInv, LoadSucceeds, TypeOK

(* The end of a load that failed keeps the invariant.                       *)
LEMMA LoadThrowsKeeps ==
  ASSUME CacheInv, NEW t \in Threads, LoadThrows(t)
  PROVE  CacheInv'
<1>1. UNCHANGED <<order, index, value>> /\ failures' \in 0..MaxFailures
  BY CacheAssumption DEF CacheInv, LoadThrows, TypeOK
<1>2. IndexMatchesOrder'
  BY <1>1 DEF CacheInv, IndexMatchesOrder, Elements
<1> QED
  BY <1>1, <1>2, FinishKeeps DEF CacheInv, LoadThrows, TypeOK

(* A waiter that returns the value of its peer keeps the invariant.         *)
LEMMA ReturnPeerValueKeeps ==
  ASSUME CacheInv, NEW t \in Threads, ReturnPeerValue(t)
  PROVE  CacheInv'
<1> USE CacheAssumption DEF CacheInv
<1>1. TypeOK' /\ IndexMatchesOrder'
  BY DEF ReturnPeerValue, Return, shared, TypeOK, IndexMatchesOrder, Elements
<1>2. Arguments'
  BY DEF ReturnPeerValue, Return, shared, Arguments, TypeOK
<1>3. Loading' /\ Inflight' /\ WaitingInv'
  BY DEF ReturnPeerValue, Return, shared, Loading, Inflight, WaitingInv, TypeOK
<1> QED
  BY <1>1, <1>2, <1>3

(* Going back to sleep, and waking without a notification.                  *)
LEMMA RestKeeps ==
  ASSUME CacheInv, NEW t \in Threads, SleepAgain(t) \/ SpuriousWakeup(t)
  PROVE  CacheInv'
<1> USE CacheAssumption DEF CacheInv
<1>1. TypeOK' /\ IndexMatchesOrder'
  BY DEF SleepAgain, SpuriousWakeup, shared, TypeOK, IndexMatchesOrder, Elements
<1>2. Arguments' /\ Loading' /\ Inflight'
  BY DEF SleepAgain, SpuriousWakeup, shared, Arguments, Loading, Inflight, TypeOK
<1>3. WaitingInv'
  BY DEF SleepAgain, SpuriousWakeup, shared, WaitingInv, TypeOK
<1> QED
  BY <1>1, <1>2, <1>3

(* Every step of acquire(), by any thread, keeps the invariant.             *)
THEOREM CacheInductive == CacheInv /\ [Next]_vars => CacheInv'
<1> SUFFICES ASSUME CacheInv, [Next]_vars PROVE CacheInv'
  OBVIOUS
<1>1. CASE UNCHANGED vars
  BY <1>1 DEF vars, shared, CacheInv, TypeOK, IndexMatchesOrder, Elements, Arguments, Loading,
              Inflight, WaitingInv
<1>2. ASSUME NEW t \in Threads, NEW k \in Keys, Call(t, k) PROVE CacheInv'
  BY <1>2, CallKeeps
<1>3. ASSUME NEW t \in Threads, Acquire(t) PROVE CacheInv'
  BY <1>3, HitKeeps, WaitForPeerKeeps, StartLoadKeeps, LoadSucceedsKeeps, LoadThrowsKeeps,
     ReturnPeerValueKeeps, RestKeeps DEF Acquire
<1>4. ASSUME NEW t \in Threads, SpuriousWakeup(t) PROVE CacheInv'
  BY <1>4, RestKeeps
<1> QED
  BY <1>1, <1>2, <1>3, <1>4 DEF Next

(* The invariant holds in every reachable state of the cache.               *)
THEOREM CacheHolds == Spec => []CacheInv
<1>1. Init => CacheInv
  BY CacheFirst
<1>2. CacheInv /\ [Next]_vars => CacheInv'
  BY CacheInductive
<1> QED
  BY <1>1, <1>2, PTL DEF Spec


(* The invariants that the runs check, for every value of the constants.    *)

(* The variables keep their types and order_ never exceeds the capacity:     *)
(* insertLocked() evicts as it stores.                                       *)
THEOREM TypeCorrect == Spec => []TypeOK
<1>1. CacheInv => TypeOK
  BY DEF CacheInv
<1> QED
  BY <1>1, CacheHolds, PTL

(* The safety invariants follow from the inductive one.                     *)
LEMMA CacheInvSafe ==
  CacheInv => SingleLoader /\ IndexMatchesOrder /\ SleeperHasLoader /\ PeerValueMatches
<1>1. CacheInv => IndexMatchesOrder
  BY DEF CacheInv
<1>2. CacheInv => SingleLoader
  BY DEF CacheInv, Loading, SingleLoader
<1>3. CacheInv => PeerValueMatches
  BY DEF CacheInv, WaitingInv, PeerValueMatches
<1>4. CacheInv => SleeperHasLoader
  <2> SUFFICES ASSUME CacheInv, NEW t \in Threads,
                      at[t] = "asleep" \/ (at[t] = "woken" /\ ~done[state[t]])
               PROVE  \E u \in Threads : at[u] = "loading" /\ state[u] = state[t] /\ key[u] = key[t]
    BY DEF SleeperHasLoader
  <2>1. key[t] \in Keys /\ state[t] \in Loads /\ inflight[key[t]] = state[t]
    BY DEF CacheInv, Arguments, WaitingInv
  <2>2. inflight[key[t]] # NoLoad
    BY <2>1, CacheAssumption
  <2> QED
    BY <2>1, <2>2 DEF CacheInv, Inflight
<1> QED
  BY <1>1, <1>2, <1>3, <1>4

(* acquire() loads a key once however many threads miss it, and never loads  *)
(* one that is cached.                                                       *)
THEOREM LoadsOnce == Spec => []SingleLoader
BY CacheHolds, CacheInvSafe, PTL

(* order_ and index_ describe the same keys, each of them once, through      *)
(* find, splice, insertLocked and its evictions.                             *)
THEOREM OrderIndexed == Spec => []IndexMatchesOrder
BY CacheHolds, CacheInvSafe, PTL

(* A thread that waits in acquire() always has another one that will notify  *)
(* it: the entry of inflight_ and the LoadState in hand are the same.        *)
THEOREM SleeperWakes == Spec => []SleeperHasLoader
BY CacheHolds, CacheInvSafe, PTL

(* What a waiter gets from the load of a peer is the key it asked for, or    *)
(* nothing, and then it tries again.                                         *)
THEOREM PeerValueRight == Spec => []PeerValueMatches
BY CacheHolds, CacheInvSafe, PTL

-----------------------------------------------------------------------------

(* The refinement.                                                          *)

(* LoaderOf names the thread that loads a key, if there is one.              *)
LoaderNamed ==
  \A k \in Keys :
    /\ inflight[k] = NoLoad => LoaderOf(k) = NoThread
    /\ inflight[k] # NoLoad =>
         LoaderOf(k) \in Threads /\ at[LoaderOf(k)] = "loading" /\ key[LoaderOf(k)] = k
    /\ \A t \in Threads : at[t] = "loading" /\ key[t] = k => LoaderOf(k) = t

(* LoaderOf names the only thread that is loading a key, if there is one.   *)
LEMMA LoaderIsLoading == CacheInv => LoaderNamed
<1> SUFFICES ASSUME CacheInv, NEW k \in Keys
             PROVE  /\ inflight[k] = NoLoad => LoaderOf(k) = NoThread
                    /\ inflight[k] # NoLoad =>
                         /\ LoaderOf(k) \in Threads
                         /\ at[LoaderOf(k)] = "loading" /\ key[LoaderOf(k)] = k
                    /\ \A t \in Threads : at[t] = "loading" /\ key[t] = k => LoaderOf(k) = t
  BY DEF LoaderNamed
<1>1. inflight[k] = NoLoad => LoaderOf(k) = NoThread
  BY DEF LoaderOf
<1>2. inflight[k] # NoLoad => \E t \in Threads : at[t] = "loading" /\ key[t] = k
  BY DEF CacheInv, Inflight
<1>3. inflight[k] # NoLoad =>
        LoaderOf(k) \in Threads /\ at[LoaderOf(k)] = "loading" /\ key[LoaderOf(k)] = k
  BY <1>2 DEF LoaderOf
<1>4. ASSUME NEW t \in Threads, at[t] = "loading", key[t] = k
      PROVE  LoaderOf(k) = t
  <2>1. inflight[k] # NoLoad
    BY <1>4, CacheAssumption DEF CacheInv, Loading, Arguments
  <2> QED
    BY <1>3, <1>4, <2>1 DEF CacheInv, Loading
<1> QED
  BY <1>1, <1>3, <1>4

(* A step that neither starts nor ends a load keeps the loaders.             *)
LEMMA SameLoaders ==
  ASSUME LoaderNamed, LoaderNamed', UNCHANGED inflight,
         \A t \in Threads : at[t] = "loading" => at'[t] = "loading" /\ key'[t] = key[t]
  PROVE  UNCHANGED [k \in Keys |-> LoaderOf(k)]
<1> SUFFICES ASSUME NEW k \in Keys PROVE LoaderOf(k)' = LoaderOf(k)
  OBVIOUS
<1>1. CASE inflight[k] = NoLoad
  BY <1>1 DEF LoaderNamed
<1>2. CASE inflight[k] # NoLoad
  <2>1. LoaderOf(k) \in Threads /\ at'[LoaderOf(k)] = "loading" /\ key'[LoaderOf(k)] = k
    BY <1>2 DEF LoaderNamed
  <2> QED
    BY <2>1 DEF LoaderNamed
<1> QED
  BY <1>1, <1>2

(* A load that is not done has not set the value of its LoadState.           *)
LEMMA UnfinishedHasNoValue ==
  ASSUME CacheInv, NEW t \in Threads, at[t] \in {"asleep", "woken"}, ~done[state[t]]
  PROVE  value[state[t]] = NoKey
<1>1. key[t] \in Keys /\ inflight[key[t]] = state[t] /\ state[t] # NoLoad
  BY CacheAssumption DEF CacheInv, WaitingInv, Arguments
<1>2. \E u \in Threads : at[u] = "loading" /\ state[u] = state[t]
  BY <1>1 DEF CacheInv, Inflight
<1> QED
  BY <1>2 DEF CacheInv, Loading

(* The initial states of the cache are initial states of the service.        *)
THEOREM InitImplements == Init => Service!Init
<1> SUFFICES ASSUME Init PROVE Service!Init
  OBVIOUS
<1>1. \A k \in Keys : LoaderOf(k) = NoThread
  BY DEF Init, LoaderOf
<1>2. Promised = {}
  BY DEF Init, Promised
<1> QED
  BY <1>1, <1>2 DEF Init, Service!Init

(* Every step of the cache is a step of the service, or changes nothing the  *)
(* service sees.                                                             *)
THEOREM NextImplements ==
  CacheInv /\ CacheInv' /\ [Next]_vars => [Service!Next]_Service!vars
<1> DEFINE loader == [k \in Keys |-> LoaderOf(k)]
<1> SUFFICES ASSUME CacheInv, CacheInv', [Next]_vars
             PROVE  Service!Next \/ UNCHANGED <<key, loader, index, Promised>>
  BY DEF Service!vars
<1>1. LoaderNamed
  BY LoaderIsLoading
<1>2. LoaderNamed'
  <2>1. (CacheInv => LoaderNamed)'
    BY LoaderIsLoading, PTL
  <2> QED
    BY <2>1
<1>3. TypeOK /\ Arguments
  BY DEF CacheInv
<1>4. CASE UNCHANGED vars
  BY <1>4 DEF vars, shared, LoaderOf, Promised
<1>5. ASSUME NEW t \in Threads, NEW k \in Keys, Call(t, k)
      PROVE  Service!Ask(t, k)
  <2>1. at[t] = "idle" /\ key[t] = NoKey /\ key' = [key EXCEPT ![t] = k] /\ UNCHANGED <<shared, state>>
        /\ at' = [at EXCEPT ![t] = "entered"]
    BY <1>5, <1>3 DEF Call, Arguments
  <2>2. UNCHANGED loader
    BY <2>1, <1>1, <1>2, <1>3, SameLoaders DEF shared, TypeOK
  <2>3. UNCHANGED Promised
    BY <2>1, <1>3 DEF Promised, shared, TypeOK
  <2> QED
    BY <2>1, <2>2, <2>3 DEF Service!Ask, shared
<1>6. ASSUME NEW t \in Threads, Hit(t) \/ ReturnPeerValue(t)
      PROVE  Service!Answer(t, key[t]) /\ key[t] \in Keys
  <2>1. /\ at[t] \in {"entered", "woken"} /\ at' = [at EXCEPT ![t] = "idle"]
        /\ key' = [key EXCEPT ![t] = NoKey] /\ UNCHANGED <<index, inflight, value>>
        /\ state' = [state EXCEPT ![t] = NoLoad] /\ key[t] \in Keys
    BY <1>6, <1>3 DEF Hit, AtLoop, ReturnPeerValue, Return, shared, Arguments
  <2>2. UNCHANGED loader
    BY <2>1, <1>1, <1>2, <1>3, SameLoaders DEF TypeOK
  <2>3. Promised' = Promised \ {t}
    BY <2>1, <1>3 DEF Promised, TypeOK
  <2>4. key[t] \in index \/ t \in Promised
    BY <1>6 DEF Hit, ReturnPeerValue, Promised
  <2> QED
    BY <2>1, <2>2, <2>3, <2>4 DEF Service!Answer
<1>7. ASSUME NEW t \in Threads, WaitForPeer(t) \/ SleepAgain(t) \/ SpuriousWakeup(t)
      PROVE  UNCHANGED <<key, loader, index, Promised>>
  <2>1. UNCHANGED <<key, index, inflight, value>>
    BY <1>7 DEF WaitForPeer, SleepAgain, SpuriousWakeup, shared
  <2>2. \A u \in Threads : at[u] = "loading" => at'[u] = "loading"
    BY <1>7, <1>3 DEF WaitForPeer, AtLoop, SleepAgain, SpuriousWakeup, TypeOK
  <2>3. UNCHANGED loader
    BY <2>1, <2>2, <1>1, <1>2, SameLoaders
  <2>4. UNCHANGED Promised
    <3>1. t \notin Promised
      BY <1>7, UnfinishedHasNoValue DEF WaitForPeer, AtLoop, SleepAgain, SpuriousWakeup, Promised
    <3>2. t \notin Promised'
      <4>1. CASE WaitForPeer(t) \/ SleepAgain(t)
        BY <4>1, <1>3 DEF WaitForPeer, SleepAgain, Promised, TypeOK
      <4>2. CASE SpuriousWakeup(t)
        <5>1. at[t] = "asleep" /\ state'[t] = state[t] /\ ~done[state[t]]
          BY <4>2 DEF SpuriousWakeup, CacheInv, WaitingInv
        <5> QED
          BY <5>1, <2>1, UnfinishedHasNoValue DEF Promised
      <4> QED
        BY <4>1, <4>2, <1>7
    <3>3. \A u \in Threads : u # t => at'[u] = at[u] /\ state'[u] = state[u]
      BY <1>7, <1>3 DEF WaitForPeer, SleepAgain, SpuriousWakeup, TypeOK
    <3> QED
      BY <2>1, <3>1, <3>2, <3>3 DEF Promised
  <2> QED
    BY <2>1, <2>3, <2>4
<1>8. ASSUME NEW t \in Threads, StartLoad(t)
      PROVE  Service!StartLoad(t, key[t]) /\ key[t] \in Keys
  <2>1. PICK l \in Loads :
          /\ Free(l)
          /\ inflight' = [inflight EXCEPT ![key[t]] = l]
          /\ value' = [value EXCEPT ![l] = NoKey]
          /\ state' = [state EXCEPT ![t] = l]
    BY <1>8 DEF StartLoad
  <2>2. /\ key[t] \in Keys /\ key[t] \notin index /\ inflight[key[t]] = NoLoad
        /\ at' = [at EXCEPT ![t] = "loading"] /\ UNCHANGED <<key, index>>
        /\ at[t] # "loading" /\ t \notin Promised
    BY <1>8, <1>3 DEF StartLoad, AtLoop, InFlight, Arguments, Promised
  <2>3. loader' = [loader EXCEPT ![key[t]] = t]
    <3> SUFFICES ASSUME NEW k \in Keys
                 PROVE  LoaderOf(k)' = IF k = key[t] THEN t ELSE LoaderOf(k)
      BY <2>2
    <3>1. CASE k = key[t]
      BY <3>1, <2>2, <1>2, <1>3 DEF LoaderNamed, TypeOK
    <3>2. CASE k # key[t] /\ inflight[k] = NoLoad
      BY <3>2, <2>1, <1>1, <1>2, <1>3 DEF LoaderNamed, TypeOK
    <3>3. CASE k # key[t] /\ inflight[k] # NoLoad
      <4>1. LoaderOf(k) \in Threads /\ at'[LoaderOf(k)] = "loading" /\ key'[LoaderOf(k)] = k
        BY <3>3, <2>2, <1>1, <1>3 DEF LoaderNamed, TypeOK
      <4> QED
        BY <3>3, <4>1, <1>2 DEF LoaderNamed
    <3> QED
      BY <3>1, <3>2, <3>3
  <2>4. Promised' = Promised
    BY <2>1, <2>2, <1>3 DEF Promised, Free, TypeOK, Arguments
  <2>5. loader[key[t]] = NoThread
    BY <2>2, <1>1 DEF LoaderNamed
  <2> QED
    BY <2>2, <2>3, <2>4, <2>5 DEF Service!StartLoad
<1>9. ASSUME NEW t \in Threads, LoadSucceeds(t) \/ LoadThrows(t)
      PROVE  Service!EndLoad(t, key[t]) /\ key[t] \in Keys
  <2> DEFINE waiters == {u \in Threads : at[u] \in {"asleep", "woken"} /\ state[u] = state[t]}
  <2>1. /\ at[t] = "loading" /\ inflight' = [inflight EXCEPT ![key[t]] = NoLoad]
        /\ at' = [u \in Threads |-> IF u = t THEN "idle"
                    ELSE IF at[u] = "asleep" /\ state[u] = state[t] THEN "woken" ELSE at[u]]
        /\ key' = [key EXCEPT ![t] = NoKey] /\ state' = [state EXCEPT ![t] = NoLoad]
    BY <1>9 DEF LoadSucceeds, LoadThrows, Finish
  <2>2. key[t] \in Keys /\ state[t] \in Loads /\ ~done[state[t]] /\ inflight[key[t]] = state[t]
    BY <2>1, <1>3 DEF CacheInv, Loading, Arguments
  <2>3. loader[key[t]] = t
    BY <2>1, <2>2, <1>1 DEF LoaderNamed
  <2>4. loader' = [loader EXCEPT ![key[t]] = NoThread]
    <3> SUFFICES ASSUME NEW k \in Keys
                 PROVE  LoaderOf(k)' = IF k = key[t] THEN NoThread ELSE LoaderOf(k)
      BY <2>2
    <3>1. CASE k = key[t]
      BY <3>1, <2>1, <1>2, <1>3 DEF LoaderNamed, TypeOK
    <3>2. CASE k # key[t] /\ inflight[k] = NoLoad
      BY <3>2, <2>1, <1>1, <1>2, <1>3 DEF LoaderNamed, TypeOK
    <3>3. CASE k # key[t] /\ inflight[k] # NoLoad
      <4>1. LoaderOf(k) \in Threads /\ at'[LoaderOf(k)] = "loading" /\ key'[LoaderOf(k)] = k
        BY <3>3, <2>1, <1>1, <1>3 DEF LoaderNamed, TypeOK
      <4> QED
        BY <3>3, <4>1, <1>2 DEF LoaderNamed
    <3> QED
      BY <3>1, <3>2, <3>3
  <2>5. \A u \in waiters : u # t /\ key[u] = key[t] /\ value[state[u]] = NoKey
    <3>1. \A u \in waiters : u # t /\ inflight[key[u]] = inflight[key[t]] /\ key[u] \in Keys
      BY <2>1, <2>2, <1>3 DEF CacheInv, WaitingInv, Arguments
    <3>2. value[state[t]] = NoKey /\ state[t] # NoLoad
      BY <2>1, <2>2, CacheAssumption DEF CacheInv, Loading
    <3> QED
      BY <3>1, <3>2, <2>2 DEF CacheInv, Inflight
  <2>6. CASE LoadSucceeds(t)
    <3>1. value' = [value EXCEPT ![state[t]] = key[t]]
      BY <2>6 DEF LoadSucceeds
    <3>2. Promised' = Promised \cup waiters
      <4> SUFFICES ASSUME NEW u \in Threads
                   PROVE  (at'[u] = "woken" /\ value'[state'[u]] # NoKey) <=>
                          ((at[u] = "woken" /\ value[state[u]] # NoKey) \/ u \in waiters)
        BY DEF Promised
      <4>1. CASE u = t
        BY <4>1, <2>1, <2>5, <1>3 DEF TypeOK
      <4>2. CASE u # t /\ state[u] = state[t]
        BY <4>2, <2>1, <2>2, <3>1, <1>3, CacheAssumption DEF TypeOK
      <4>3. CASE u # t /\ state[u] # state[t] /\ at[u] = "woken"
        BY <4>3, <2>1, <2>2, <3>1, <1>3 DEF TypeOK, Arguments
      <4>4. CASE u # t /\ state[u] # state[t] /\ at[u] # "woken"
        BY <4>4, <2>1, <1>3 DEF TypeOK
      <4> QED
        BY <4>1, <4>2, <4>3, <4>4
    <3>3. index' \subseteq index \cup {key[t]}
      BY <2>6 DEF LoadSucceeds, InsertLocked
    <3> QED
      BY <2>1, <2>2, <2>3, <2>4, <2>5, <3>2, <3>3 DEF Service!EndLoad
  <2>7. CASE LoadThrows(t)
    <3>1. UNCHANGED <<index, value>>
      BY <2>7 DEF LoadThrows
    <3>2. Promised' = Promised
      <4> SUFFICES ASSUME NEW u \in Threads
                   PROVE  (at'[u] = "woken" /\ value'[state'[u]] # NoKey) <=>
                          (at[u] = "woken" /\ value[state[u]] # NoKey)
        BY DEF Promised
      <4>1. CASE u = t
        BY <4>1, <2>1, <1>3 DEF TypeOK
      <4>2. CASE u # t /\ u \in waiters
        BY <4>2, <2>1, <2>5, <3>1, <1>3 DEF TypeOK
      <4>3. CASE u # t /\ u \notin waiters
        BY <4>3, <2>1, <3>1, <1>3 DEF TypeOK
      <4> QED
        BY <4>1, <4>2, <4>3
    <3> QED
      BY <2>1, <2>2, <2>3, <2>4, <3>1, <3>2 DEF Service!EndLoad
  <2> QED
    BY <2>2, <2>6, <2>7, <1>9
<1> QED
  BY <1>4, <1>5, <1>6, <1>7, <1>8, <1>9 DEF Next, Acquire, Service!Next

(* acquire() implements the single-flight service.                          *)
THEOREM Implements == Spec => ImplementsSingleFlight
<1>1. Init => Service!Init
  BY InitImplements
<1>2. CacheInv /\ CacheInv' /\ [Next]_vars => [Service!Next]_Service!vars
  BY NextImplements
<1> QED
  BY <1>1, <1>2, CacheHolds, PTL DEF Spec, ImplementsSingleFlight, Service!Spec

-----------------------------------------------------------------------------
(***************************************************************************)
(* SERVING.  What it adds to the invariants of the queue and of the cache: *)
(* which request a worker serves, and where the loads went.                *)
(***************************************************************************)
QueueInv == QInv /\ OInv /\ CInv

Ways == {"none", "hit", "waited", "loaded"}
Entry == [id : Nat, tenant : Keys, how : Ways]

Recorded ==
  /\ acquired \in [Threads -> Ways]
  /\ sink \in [Threads -> SUBSET Entry] /\ warm \subseteq Keys

Latest(w, i) ==
  /\ i \in DOMAIN taken /\ taken[i].by = w
  /\ \A j \in DOMAIN taken : taken[j].by = w => j <= i

Given(w) == taken[TakenBy(w)].tenant

(* A worker acquires the key of the request it popped last, once.            *)
Linked ==
  \A w \in Threads :
    /\ popping[w] = "serving" => \E i \in DOMAIN taken : Latest(w, i)
    /\ at[w] # "idle" => popping[w] = "serving" /\ acquired[w] = "none" /\ key[w] = Given(w)
    /\ acquired[w] # "none" => popping[w] = "serving"

(* With affinity a worker acquires the keys of the tenants it owns only.     *)
Affine ==
  mode = "affinity" =>
    /\ \A w \in Threads : key[w] # NoKey => Owner(key[w]) = w
    /\ \A w \in Threads : at[w] \notin {"asleep", "woken"} /\ acquired[w] # "waited"

(* A key that was loaded stays, and its load belongs to one completion or to *)
(* one worker that has yet to complete.                                      *)
Loaded(k) == {c \in Completed : c.tenant = k /\ c.how = "loaded"}
Holders(k) == {w \in Threads : acquired[w] = "loaded" /\ Given(w) = k}

OneLoad ==
  /\ warm \subseteq index
  /\ \A k \in Keys :
       /\ \A c, d \in Loaded(k) : c = d
       /\ \A v, w \in Holders(k) : v = w
       /\ Loaded(k) = {} \/ Holders(k) = {}
       /\ k \in warm \/ k \notin index => Loaded(k) = {} /\ Holders(k) = {}

Once == Cardinality(Keys) <= Capacity => OneLoad

SInv == QueueInv /\ CacheInv /\ Recorded /\ Linked /\ Affine /\ Once

LEMMA WorkersAreThreads ==
  Workers = Threads /\ 0 \in Threads /\ Threads \subseteq Nat /\ Tenants = Keys
BY ServingAssumption, SchedulerAssumption DEF Workers

(* Every step of runServing is one of the queue's or leaves the queue alone. *)
LEMMA ServingIsQueue == [ServingNext]_servingVars => [QueueNext]_queueVars
<1> SUFFICES ASSUME [ServingNext]_servingVars PROVE [QueueNext]_queueVars
  OBVIOUS
<1> USE WorkersAreThreads
<1>1. ASSUME NEW w \in Threads, Worker(w) \/ Abort(w) \/ Wakeup(w) PROVE [QueueNext]_queueVars
  BY <1>1 DEF Worker, Idle, Start, GetKey, Complete, Abort, Wakeup, QueueNext, Pop
<1>2. CASE Submit
  BY <1>2 DEF Submit, QueueNext
<1>3. CASE UNCHANGED servingVars
  BY <1>3 DEF servingVars
<1> QED
  BY <1>1, <1>2, <1>3 DEF ServingNext

LEMMA QueueInvFirst == QueueInit => QueueInv
BY QueueFirst, OrderFirst, AccountsFirst DEF QueueInv

LEMMA QueueInvKept == QueueInv /\ [ServingNext]_servingVars => QueueInv'
BY ServingIsQueue, QueueInductive, OrderInductive, AccountsInductive DEF QueueInv

(* What a worker pops goes to the end of what was taken; with affinity it is *)
(* the request of a tenant the worker owns.                                  *)
LEMMA PopTakes ==
  ASSUME QueueInv, NEW w \in Threads, Take(w)
  PROVE  \E e \in Handed :
           /\ taken' = Append(taken, e) /\ e.by = w
           /\ mode = "affinity" => Owner(e.tenant) = w
<1> DEFINE l == From(w)
           r == Head(lanes[l])
           e == [id |-> r.id, tenant |-> r.tenant, by |-> w,
                 owned |-> mode # "shared" /\ Owner(r.tenant) = w]
<1>1. taken' = Append(taken, e)
  BY DEF Take, From
<1>2. w \in Workers /\ QInv /\ Shape
  BY WorkersAreThreads DEF QueueInv, QInv
<1>3. l \in Lanes /\ lanes[l] # <<>> /\ lanes[l] \in Seq(Request)
  BY <1>2, FromHolds DEF Shape
<1>4. r \in Request /\ r = lanes[l][1] /\ Len(lanes[l]) \in Nat \ {0}
  BY <1>3, HeadTailProperties, EmptySeq
<1>5. mode = "affinity" => l = w /\ Owner(r.tenant) = w
  <2>1. mode = "affinity" => lanes[Own(w)] # <<>> /\ Own(w) = w
    BY DEF Take, Ready, DrainOnClose, Own
  <2>2. mode = "affinity" => Home(r.tenant) = l
    BY <1>3, <1>4 DEF QueueInv, OInv, LanesOrdered
  <2> QED
    BY <2>1, <2>2 DEF From, Home
<1>6. e \in Handed /\ e.by = w /\ e.tenant = r.tenant
  <2>1. (mode # "shared" /\ Owner(r.tenant) = w) \in BOOLEAN
    BY Zenon
  <2>2. r.id \in Nat /\ r.tenant \in Tenants
    BY <1>4 DEF Request
  <2> HIDE DEF r
  <2> QED
    BY <1>2, <2>1, <2>2 DEF Handed
<1> HIDE DEF e
<1> QED
  BY <1>1, <1>5, <1>6

(* Every step of runServing is one of the cache's or leaves the cache alone. *)
LEMMA ServingIsCache == QueueInv /\ [ServingNext]_servingVars => [Next]_vars
<1> SUFFICES ASSUME QueueInv, [ServingNext]_servingVars PROVE [Next]_vars
  OBVIOUS
<1>1. ASSUME NEW w \in Threads, Start(w) PROVE Next
  <2>1. PICK e \in Handed : taken' = Append(taken, e)
    BY <1>1, PopTakes DEF Start
  <2>2. taken'[Len(taken')] = e
    BY <2>1 DEF QueueInv, OInv
  <2>3. e.tenant \in Keys
    BY WorkersAreThreads DEF Handed
  <2> QED
    BY <1>1, <2>2, <2>3 DEF Start, Next
<1>2. ASSUME NEW w \in Threads, Idle(w) \/ GetKey(w) \/ Complete(w) \/ Abort(w) \/ Wakeup(w)
      PROVE  [Next]_vars
  BY <1>2 DEF Idle, GetKey, Complete, Abort, Wakeup, Next, Acquire
<1>3. CASE Submit \/ UNCHANGED servingVars
  BY <1>3 DEF Submit, servingVars
<1> QED
  BY <1>1, <1>2, <1>3 DEF ServingNext, Worker

(* The warm-up leaves distinct tenants, no more than the cache holds.        *)
LEMMA WarmedFits ==
  ASSUME NEW s \in Warmed
  PROVE  s \in Seq(Keys) /\ Len(s) <= Capacity /\ Injective(s)
<1>1. PICK n \in 0..Capacity : s \in [1..n -> Keys]
  BY DEF Warmed
<1>2. n \in Nat
  BY <1>1, CacheAssumption
<1> QED
  BY <1>1, <1>2, FunctionIsSeq, CacheAssumption DEF Warmed, Injective

LEMMA WarmCache == ServingInit => CacheInv
<1> SUFFICES ASSUME ServingInit PROVE CacheInv
  OBVIOUS
<1> USE CacheAssumption
<1>1. order \in Seq(Keys) /\ Len(order) <= Capacity /\ Injective(order)
  BY WarmedFits DEF ServingInit
<1>2. index = Elements(order) /\ index \subseteq Keys
  BY <1>1, LenProperties, ElementOfSeq DEF ServingInit, Elements
<1>3. TypeOK
  BY <1>1, <1>2 DEF ServingInit, TypeOK
<1>4. IndexMatchesOrder
  BY <1>1, <1>2 DEF IndexMatchesOrder, Injective
<1>5. Arguments /\ Loading /\ Inflight /\ WaitingInv
  BY DEF ServingInit, Arguments, Loading, Inflight, WaitingInv
<1> QED
  BY <1>3, <1>4, <1>5 DEF CacheInv

LEMMA ServingFirst == ServingInit => SInv
<1> SUFFICES ASSUME ServingInit PROVE SInv
  OBVIOUS
<1>1. CacheInv /\ QueueInv
  BY WarmCache, QueueInvFirst DEF ServingInit
<1>2. /\ acquired = [w \in Threads |-> "none"] /\ sink = [w \in Threads |-> {}]
      /\ warm = index /\ \A w \in Threads : at[w] = "idle" /\ key[w] = NoKey
  BY DEF ServingInit
<1>3. Recorded
  BY <1>1, <1>2 DEF Recorded, Ways, CacheInv, TypeOK
<1>4. Linked
  BY <1>2, WorkersAreThreads DEF ServingInit, QueueInit, Linked
<1>5. Affine
  BY <1>2 DEF Affine
<1>6. Once
  BY <1>2 DEF Once, OneLoad, Loaded, Holders, Completed
<1> QED
  BY <1>1, <1>3, <1>4, <1>5, <1>6 DEF SInv

(* What the queue does while no worker takes a request.                      *)
LEMMA QueueMoves ==
  ASSUME SInv, QueueInv', CacheInv',
         UNCHANGED <<mode, taken, vars, acquired, sink, warm>>,
         \A w \in Threads : popping[w] = "serving" <=> popping'[w] = "serving"
  PROVE  SInv'
<1>1. Recorded' /\ Affine'
  BY DEF SInv, Recorded, Affine, Owner, vars
<1>2. Linked'
  BY DEF SInv, vars, Linked, Latest, Given, TakenBy
<1>3. Once'
  <2>1. \A w \in Threads : Given(w)' = Given(w)
    BY DEF Given, TakenBy
  <2>2. \A k \in Keys : Loaded(k)' = Loaded(k) /\ Holders(k)' = Holders(k)
    BY <2>1, Zenon DEF Loaded, Holders, Completed
  <2> QED
    BY <2>2 DEF SInv, vars, shared, Once, OneLoad
<1> QED
  BY <1>1, <1>2, <1>3 DEF SInv

(* push() and close(), a worker that finds nothing to do, and one that wakes. *)
LEMMA SubmitKeeps ==
  ASSUME SInv, QueueInv', CacheInv', Submit
  PROVE  SInv'
<1>1. UNCHANGED <<mode, taken, vars, acquired, sink, warm>>
  BY DEF Submit, Produce, Close, Push
<1>2. \A w \in Threads : popping[w] = "serving" <=> popping'[w] = "serving"
  <2>1. \/ UNCHANGED popping
        \/ popping' = [w \in Threads |-> IF popping[w] = "asleep" THEN "deciding" ELSE popping[w]]
    BY WorkersAreThreads DEF Submit, Produce, Close, Push, Admit, Wake
  <2> QED
    BY <2>1
<1> QED
  BY <1>1, <1>2, QueueMoves

LEMMA IdleKeeps ==
  ASSUME SInv, QueueInv', CacheInv', NEW w \in Threads,
         \/ Idle(w)
         \/ WakeUnasked(w) /\ UNCHANGED <<vars, acquired, sink, warm>>
  PROVE  SInv'
<1>1. UNCHANGED <<mode, taken, vars, acquired, sink, warm>>
  BY DEF Idle, Sleep, GiveUp, WakeUnasked
<1>2. \A v \in Threads : popping[v] = "serving" <=> popping'[v] = "serving"
  <2>1. popping \in [Threads -> {"deciding", "asleep", "serving", "gone"}]
    BY WorkersAreThreads DEF SInv, QueueInv, QInv, Shape
  <2> QED
    BY <2>1 DEF Idle, Sleep, GiveUp, WakeUnasked
<1> QED
  BY <1>1, <1>2, QueueMoves

(* The last request a worker popped is the one it serves, also when others   *)
(* pop theirs.                                                               *)
LatestTaken == \A w \in Threads : \A i \in DOMAIN taken : Latest(w, i) => TakenBy(w) = i

LEMMA LatestIsTaken == OInv => LatestTaken
<1> SUFFICES ASSUME OInv, NEW w \in Threads, NEW i \in DOMAIN taken, Latest(w, i)
             PROVE  TakenBy(w) = i
  BY DEF LatestTaken
<1>1. DOMAIN taken \subseteq Nat
  BY LenProperties DEF OInv
<1>2. \A j \in DOMAIN taken :
        taken[j].by = w /\ (\A m \in DOMAIN taken : taken[m].by = w => m <= j) => j = i
  BY <1>1 DEF Latest
<1> QED
  BY <1>2, Zenon DEF TakenBy, Latest

LEMMA TakenGrows ==
  ASSUME OInv, OInv', Linked, NEW w \in Threads, NEW e \in Handed, e.by = w,
         popping[w] # "serving", taken' = Append(taken, e)
  PROVE  /\ \E i \in DOMAIN taken' : Latest(w, i)'
         /\ Given(w)' = e.tenant /\ taken'[Len(taken')].tenant = e.tenant
         /\ \A v \in Threads : popping[v] = "serving" =>
              Given(v)' = Given(v) /\ \E i \in DOMAIN taken' : Latest(v, i)'
<1>1. PICK n \in Nat :
      /\ DOMAIN taken = 1..n /\ Len(taken') = n + 1 /\ DOMAIN taken' = 1..n + 1
      /\ \A i \in 1..n : taken'[i] = taken[i]
      /\ taken'[n + 1] = e
  BY AppendProperties, LenProperties DEF OInv
<1>2. Latest(w, n + 1)' /\ n + 1 \in DOMAIN taken'
  BY <1>1 DEF Latest
<1>3. LatestTaken /\ LatestTaken'
  <2>1. (OInv => LatestTaken)'
    BY LatestIsTaken, PTL
  <2> QED
    BY <2>1, LatestIsTaken
<1>4. ASSUME NEW v \in Threads, popping[v] = "serving"
      PROVE  Given(v)' = Given(v) /\ \E i \in DOMAIN taken' : Latest(v, i)'
  <2>1. PICK i \in DOMAIN taken : Latest(v, i)
    BY <1>4 DEF Linked
  <2>2. i \in 1..n /\ Latest(v, i)'
    BY <2>1, <1>1, <1>4 DEF Latest
  <2>3. TakenBy(v) = i /\ TakenBy(v)' = i
    BY <2>1, <2>2, <1>1, <1>3 DEF LatestTaken
  <2> QED
    BY <2>2, <2>3, <1>1 DEF Given
<1>5. TakenBy(w)' = n + 1
  BY <1>1, <1>2, <1>3 DEF LatestTaken
<1> QED
  BY <1>1, <1>2, <1>4, <1>5 DEF Given

(* A worker pops a request and asks for its key.                             *)
LEMMA StartKeeps ==
  ASSUME SInv, QueueInv', CacheInv', NEW w \in Threads, Start(w)
  PROVE  SInv'
<1>1. PICK e \in Handed : /\ taken' = Append(taken, e) /\ e.by = w
                          /\ mode = "affinity" => Owner(e.tenant) = w
  BY PopTakes DEF Start, SInv
<1>2. /\ popping[w] = "deciding" /\ popping' = [popping EXCEPT ![w] = "serving"]
      /\ UNCHANGED <<mode, acquired, sink, warm>>
  BY DEF Start, Take
<1>3. popping \in [Threads -> {"deciding", "asleep", "serving", "gone"}]
  BY WorkersAreThreads DEF SInv, QueueInv, QInv, Shape
<1>4. Recorded'
  BY <1>2 DEF SInv, Recorded
<1>5. /\ \E i \in DOMAIN taken' : Latest(w, i)'
      /\ Given(w)' = e.tenant /\ taken'[Len(taken')].tenant = e.tenant
      /\ \A v \in Threads : popping[v] = "serving" =>
           Given(v)' = Given(v) /\ \E i \in DOMAIN taken' : Latest(v, i)'
  BY <1>1, <1>2, TakenGrows DEF SInv, QueueInv
<1>6. e.tenant \in Keys /\ Call(w, e.tenant)
  BY <1>5, WorkersAreThreads DEF Start, Handed
<1>7. /\ at' = [at EXCEPT ![w] = "entered"] /\ key' = [key EXCEPT ![w] = e.tenant]
      /\ at \in [Threads -> {"idle", "entered", "loading", "asleep", "woken"}]
      /\ key \in [Threads -> Keys \cup {NoKey}] /\ UNCHANGED index
  BY <1>6 DEF Call, shared, SInv, CacheInv, TypeOK
<1>8. Linked'
  <2> SUFFICES ASSUME NEW v \in Threads
               PROVE  /\ popping'[v] = "serving" => \E i \in DOMAIN taken' : Latest(v, i)'
                      /\ at'[v] # "idle" => /\ popping'[v] = "serving" /\ acquired'[v] = "none"
                                            /\ key'[v] = Given(v)'
                      /\ acquired'[v] # "none" => popping'[v] = "serving"
    BY DEF Linked
  <2>1. /\ popping'[w] = "serving" /\ acquired'[w] = "none" /\ key'[w] = e.tenant
        /\ \A u \in Threads : u # w => popping'[u] = popping[u] /\ at'[u] = at[u] /\ key'[u] = key[u]
    BY <1>2, <1>3, <1>7 DEF SInv, Linked
  <2> QED
    BY <1>2, <1>5, <2>1 DEF SInv, Linked
<1>9. Affine'
  <2> SUFFICES ASSUME mode = "affinity" PROVE Affine'
    BY <1>2 DEF Affine
  <2>1. \A v \in Threads : key'[v] # NoKey => Owner(key'[v]) = v
    BY <1>1, <1>7 DEF SInv, Affine
  <2>2. \A v \in Threads : at'[v] \notin {"asleep", "woken"} /\ acquired'[v] # "waited"
    BY <1>2, <1>7 DEF SInv, Affine
  <2> QED
    BY <2>1, <2>2 DEF Affine, Owner
<1>10. Once'
  <2>1. \A k \in Keys : Loaded(k)' = Loaded(k)
    BY <1>2, Zenon DEF Loaded, Completed
  <2>2. \A v \in Threads : acquired[v] = "loaded" => Given(v)' = Given(v)
    BY <1>5 DEF SInv, Linked
  <2>3. \A k \in Keys : Holders(k)' = Holders(k)
    BY <1>2, <2>2 DEF Holders
  <2> QED
    BY <1>2, <1>7, <2>1, <2>3 DEF SInv, Once, OneLoad
<1> QED
  BY <1>4, <1>8, <1>9, <1>10 DEF SInv

(* While the tenants fit into the cache, storing one evicts nothing.         *)
LEMMA RoomForAll ==
  ASSUME CacheInv, Cardinality(Keys) <= Capacity, NEW k \in Keys, k \notin index, InsertLocked(k)
  PROVE  index' = index \cup {k}
<1>1. /\ Len(order) \in Nat /\ order \in [1..Len(order) -> Keys \ {k}]
      /\ \A i, j \in 1..Len(order) : order[i] = order[j] => i = j
  <2>1. order \in Seq(Keys) /\ index = Elements(order)
        /\ \A i, j \in DOMAIN order : order[i] = order[j] => i = j
    BY DEF CacheInv, TypeOK, IndexMatchesOrder
  <2>2. Len(order) \in Nat /\ DOMAIN order = 1..Len(order) /\ order \in [1..Len(order) -> Keys]
    BY <2>1, LenProperties
  <2>3. \A i \in 1..Len(order) : order[i] # k
    BY <2>1, <2>2 DEF Elements
  <2> QED
    BY <2>1, <2>2, <2>3
<1>2. order \in Injection(1..Len(order), Keys \ {k})
  BY <1>1 DEF Injection, IsInjective
<1>3. /\ IsFiniteSet(Keys \ {k}) /\ Cardinality(Keys \ {k}) = Cardinality(Keys) - 1
      /\ Cardinality(Keys) \in Nat
  BY FS_RemoveElement, FS_CardinalityType, ServingAssumption
<1>4. Cardinality(1..Len(order)) <= Cardinality(Keys) - 1
  BY <1>2, <1>3, FS_Injection
<1>5. Cardinality(1..Len(order)) = Len(order)
  <2>1. Len(order) \in Int /\ 1 \in Int
    BY <1>1
  <2>2. Cardinality(1..Len(order)) = IF 1 > Len(order) THEN 0 ELSE Len(order) - 1 + 1
    BY <2>1, FS_Interval
  <2> QED
    BY <1>1, <2>2
<1>6. Len(order) < Capacity
  BY <1>1, <1>3, <1>4, <1>5, CacheAssumption
<1> QED
  BY <1>6 DEF InsertLocked

(* What a step of acquire() leaves alone.                                    *)
CacheMoves(w) ==
  /\ UNCHANGED <<queueVars, sink, warm>> /\ at[w] # "idle"
  /\ \A v \in Threads : v # w =>
       key'[v] = key[v] /\ acquired'[v] = acquired[v] /\ (at'[v] = "idle" <=> at[v] = "idle")
  /\ at'[w] # "idle" => key'[w] = key[w] /\ acquired'[w] = acquired[w]

LEMMA CacheMovesKeep ==
  ASSUME SInv, NEW w \in Threads, CacheMoves(w),
         acquired' \in [Threads -> Ways]
  PROVE  /\ Recorded' /\ Linked' /\ \A v \in Threads : Given(v)' = Given(v)
         /\ acquired[w] = "none" /\ key[w] = Given(w) /\ key[w] \in Keys
<1>1. UNCHANGED <<taken, popping, mode, lanes, arrived, sink, warm>>
  BY DEF CacheMoves, queueVars, queue
<1>2. Recorded'
  BY <1>1 DEF SInv, Recorded
<1>3. \A v \in Threads : Given(v)' = Given(v)
  BY <1>1 DEF Given, TakenBy
<1>4. \A v \in Threads : \A i : Latest(v, i)' <=> Latest(v, i)
  BY <1>1 DEF Latest
<1>5. acquired[w] = "none" /\ key[w] = Given(w) /\ popping[w] = "serving" /\ key[w] \in Keys
  BY DEF CacheMoves, SInv, Linked, CacheInv, TypeOK, Arguments
<1>6. Linked'
  <2> SUFFICES ASSUME NEW v \in Threads
               PROVE  /\ popping'[v] = "serving" => \E i \in DOMAIN taken' : Latest(v, i)'
                      /\ at'[v] # "idle" => /\ popping'[v] = "serving" /\ acquired'[v] = "none"
                                            /\ key'[v] = Given(v)'
                      /\ acquired'[v] # "none" => popping'[v] = "serving"
    BY DEF Linked
  <2>1. popping'[v] = "serving" => \E i \in DOMAIN taken' : Latest(v, i)'
    BY <1>1, <1>4 DEF SInv, Linked
  <2>2. CASE v = w
    BY <2>1, <2>2, <1>1, <1>3, <1>5 DEF CacheMoves
  <2>3. CASE v # w
    BY <2>1, <2>3, <1>1, <1>3 DEF CacheMoves, SInv, Linked
  <2> QED
    BY <2>2, <2>3
<1> QED
  BY <1>2, <1>3, <1>5, <1>6

(* With affinity the worker that misses a key is the only one that ever asks *)
(* for it, so it finds no load of it in flight.                              *)
LEMMA OwnersDoNotMeet ==
  ASSUME SInv, mode = "affinity", NEW w \in Threads
  PROVE  ~WaitForPeer(w)
<1> SUFFICES ASSUME WaitForPeer(w) PROVE FALSE
  OBVIOUS
<1>1. at[w] = "entered" /\ key[w] \in Keys /\ inflight[key[w]] # NoLoad
  BY DEF WaitForPeer, AtLoop, InFlight, SInv, Affine, CacheInv, Arguments, TypeOK
<1>2. PICK t \in Threads : at[t] = "loading" /\ key[t] = key[w]
  BY <1>1 DEF SInv, CacheInv, Inflight
<1>3. key[w] # NoKey
  BY <1>1, CacheAssumption
<1>4. t = w
  BY <1>2, <1>3 DEF SInv, Affine
<1> QED
  BY <1>1, <1>2, <1>4

(* A step of acquire(): the hit, the wait, the load and its end.             *)
LEMMA StepOfAcquire ==
  ASSUME SInv, NEW w \in Threads,
         GetKey(w) \/ Abort(w) \/ (SpuriousWakeup(w) /\ UNCHANGED <<queueVars, acquired, sink, warm>>)
  PROVE  CacheMoves(w) /\ acquired' \in [Threads -> Ways]
<1>2. acquired' \in [Threads -> Ways]
  BY DEF GetKey, Abort, Keep, SInv, Recorded, Ways
<1>3. UNCHANGED <<queueVars, sink, warm>>
  BY DEF GetKey, Abort
<1>4. at[w] # "idle"
  BY DEF GetKey, Abort, Hit, AtLoop, ReturnPeerValue, LoadSucceeds, WaitForPeer, StartLoad,
         SleepAgain, LoadThrows, SpuriousWakeup
<1>5. ASSUME Hit(w) \/ ReturnPeerValue(w) \/ LoadSucceeds(w) \/ LoadThrows(w)
      PROVE  /\ at'[w] = "idle"
             /\ \A v \in Threads : v # w => key'[v] = key[v] /\ (at'[v] = "idle" <=> at[v] = "idle")
  BY <1>5 DEF Hit, ReturnPeerValue, LoadSucceeds, LoadThrows, Return, Finish, SInv, CacheInv, TypeOK
<1>6. ASSUME WaitForPeer(w) \/ StartLoad(w) \/ SleepAgain(w) \/ SpuriousWakeup(w)
      PROVE  /\ at'[w] # "idle" /\ UNCHANGED key
             /\ \A v \in Threads : v # w => at'[v] = at[v]
  BY <1>6 DEF WaitForPeer, StartLoad, SleepAgain, SpuriousWakeup, shared, SInv, CacheInv, TypeOK
<1>7. ASSUME Hit(w) \/ ReturnPeerValue(w) \/ LoadSucceeds(w) \/ LoadThrows(w)
      PROVE  \A v \in Threads : v # w => acquired'[v] = acquired[v]
  BY DEF GetKey, Abort, Keep, SInv, Recorded
<1>8. ASSUME WaitForPeer(w) \/ StartLoad(w) \/ SleepAgain(w) \/ SpuriousWakeup(w)
      PROVE  UNCHANGED acquired
  <2>1. at'[w] # "idle"
    BY <1>6, <1>8
  <2> QED
    BY <2>1, <1>5 DEF GetKey, Abort
<1>9. CASE Hit(w) \/ ReturnPeerValue(w) \/ LoadSucceeds(w) \/ LoadThrows(w)
  BY <1>2, <1>3, <1>4, <1>5, <1>7, <1>9 DEF CacheMoves
<1>10. CASE WaitForPeer(w) \/ StartLoad(w) \/ SleepAgain(w) \/ SpuriousWakeup(w)
  BY <1>2, <1>3, <1>4, <1>6, <1>8, <1>10 DEF CacheMoves
<1> QED
  BY <1>9, <1>10 DEF GetKey, Abort

LEMMA AcquireKeeps ==
  ASSUME SInv, QueueInv', CacheInv', NEW w \in Threads,
         GetKey(w) \/ Abort(w) \/ (SpuriousWakeup(w) /\ UNCHANGED <<queueVars, acquired, sink, warm>>)
  PROVE  SInv'
<1>1. CacheMoves(w) /\ acquired' \in [Threads -> Ways]
  BY StepOfAcquire
<1>2. /\ Recorded' /\ Linked' /\ \A v \in Threads : Given(v)' = Given(v)
      /\ acquired[w] = "none" /\ key[w] = Given(w) /\ key[w] \in Keys
  BY <1>1, CacheMovesKeep
<1>3. UNCHANGED <<mode, sink, warm>>
  BY <1>1 DEF CacheMoves, queueVars
<1>4. Affine'
  <2> SUFFICES ASSUME mode = "affinity" PROVE Affine'
    BY <1>3 DEF Affine
  <2>1. \A v \in Threads : at[v] \notin {"asleep", "woken"} /\ acquired[v] # "waited"
    BY DEF SInv, Affine
  <2>2. ~WaitForPeer(w) /\ ~ReturnPeerValue(w) /\ ~SleepAgain(w) /\ ~SpuriousWakeup(w)
    BY <2>1, OwnersDoNotMeet DEF ReturnPeerValue, SleepAgain, SpuriousWakeup
  <2>3. Hit(w) \/ LoadSucceeds(w) \/ LoadThrows(w) \/ StartLoad(w)
    BY <2>2 DEF GetKey, Abort
  <2>4. \A v \in Threads : at'[v] \notin {"asleep", "woken"}
    BY <2>1, <2>3 DEF Hit, LoadSucceeds, LoadThrows, StartLoad, Return, Finish, SInv, CacheInv, TypeOK
  <2>5. \A v \in Threads : acquired'[v] # "waited"
    BY <2>1, <2>2 DEF GetKey, Abort, Keep, SInv, Recorded
  <2>6. \A v \in Threads : key'[v] # NoKey => key'[v] = key[v]
    BY <1>1 DEF CacheMoves, CacheInv, Arguments
  <2>7. \A v \in Threads : key'[v] # NoKey => Owner(key'[v]) = v
    BY <2>6 DEF SInv, Affine
  <2> QED
    BY <1>3, <2>4, <2>5, <2>7 DEF Affine, Owner
<1>5. Once'
  <2> SUFFICES ASSUME Cardinality(Keys) <= Capacity PROVE OneLoad'
    BY DEF Once
  <2>1. OneLoad
    BY DEF SInv, Once
  <2>2. \A k \in Keys : Loaded(k)' = Loaded(k)
    BY <1>3, Zenon DEF Loaded, Completed
  <2>3. CASE LoadSucceeds(w)
    <3>1. PICK j \in Keys : j = key[w]
      BY <1>2
    <3>2. j \notin index /\ InsertLocked(j)
      BY <2>3, <3>1 DEF LoadSucceeds, SInv, CacheInv, Loading
    <3>3. index' = index \cup {j}
      BY <3>2, RoomForAll DEF SInv
    <3>4. Loaded(j) = {} /\ Holders(j) = {} /\ j \notin warm
      BY <2>1, <3>2 DEF OneLoad
    <3>5. \A v \in Threads : v # w => acquired'[v] = acquired[v]
      BY <1>1 DEF CacheMoves
    <3>6. Holders(j)' \subseteq {w}
      BY <3>4, <3>5, <1>2 DEF Holders
    <3>7. \A k \in Keys : k # j => Holders(k)' = Holders(k)
      BY <3>1, <3>5, <1>2 DEF Holders
    <3> QED
      BY <1>3, <2>1, <2>2, <3>3, <3>4, <3>6, <3>7 DEF OneLoad
  <2>4. CASE ~LoadSucceeds(w)
    <3>1. UNCHANGED index
      BY <2>4 DEF GetKey, Abort, Hit, ReturnPeerValue, WaitForPeer, StartLoad, SleepAgain,
                  LoadThrows, SpuriousWakeup, shared
    <3>2. \A v \in Threads : acquired'[v] = "loaded" <=> acquired[v] = "loaded"
      BY <2>4, <1>2 DEF GetKey, Abort, Keep, SInv, Recorded
    <3>3. \A k \in Keys : Holders(k)' = Holders(k)
      BY <3>2, <1>2 DEF Holders
    <3> QED
      BY <1>3, <2>1, <2>2, <3>1, <3>3 DEF OneLoad
  <2> QED
    BY <2>3, <2>4
<1> QED
  BY <1>1, <1>2, <1>4, <1>5 DEF SInv

(* A worker records its completion and goes back to pop().                   *)
LEMMA CompleteKeeps ==
  ASSUME SInv, QueueInv', CacheInv', NEW w \in Threads, Complete(w)
  PROVE  SInv'
<1> DEFINE c == [id |-> taken[TakenBy(w)].id, tenant |-> Given(w), how |-> acquired[w]]
<1>1. /\ popping[w] = "serving" /\ popping' = [popping EXCEPT ![w] = "deciding"]
      /\ acquired[w] # "none" /\ acquired' = [acquired EXCEPT ![w] = "none"]
      /\ sink' = [sink EXCEPT ![w] = @ \cup {c}]
      /\ UNCHANGED <<mode, taken, vars, warm>>
  BY DEF Complete, Served, queue, Keep, Given
<1>2. c \in Entry /\ Given(w) \in Keys
  <2>1. PICK i \in DOMAIN taken : Latest(w, i)
    BY <1>1 DEF SInv, Linked
  <2>2. TakenBy(w) = i
    BY <2>1, LatestIsTaken DEF SInv, QueueInv, LatestTaken
  <2>3. taken[i] \in Handed
    BY ElementOfSeq, LenProperties DEF SInv, QueueInv, OInv
  <2>4. acquired[w] \in Ways
    BY DEF SInv, Recorded
  <2> QED
    BY <2>2, <2>3, <2>4, WorkersAreThreads DEF Given, Handed, Entry
<1>3. c.tenant = Given(w) /\ c.how = acquired[w]
  OBVIOUS
<1> HIDE DEF c
<1>4. \A v \in Threads : Given(v)' = Given(v)
  BY <1>1 DEF Given, TakenBy
<1>5. popping \in [Threads -> {"deciding", "asleep", "serving", "gone"}]
  BY WorkersAreThreads DEF SInv, QueueInv, QInv, Shape
<1>6. Recorded'
  BY <1>1, <1>2 DEF SInv, Recorded, Ways
<1>7. Linked'
  <2> SUFFICES ASSUME NEW v \in Threads
               PROVE  /\ popping'[v] = "serving" => \E i \in DOMAIN taken' : Latest(v, i)'
                      /\ at'[v] # "idle" => /\ popping'[v] = "serving" /\ acquired'[v] = "none"
                                            /\ key'[v] = Given(v)'
                      /\ acquired'[v] # "none" => popping'[v] = "serving"
    BY DEF Linked
  <2>1. at[w] = "idle" /\ UNCHANGED <<at, key>>
    BY <1>1 DEF SInv, Linked, vars
  <2>2. \A i : Latest(v, i)' <=> Latest(v, i)
    BY <1>1 DEF Latest
  <2>3. CASE v = w
    BY <2>1, <2>3, <1>1, <1>5 DEF SInv, Recorded
  <2>4. CASE v # w
    <3>1. popping'[v] = popping[v] /\ acquired'[v] = acquired[v]
      BY <2>4, <1>1, <1>5 DEF SInv, Recorded
    <3> QED
      BY <2>1, <2>2, <3>1, <1>1, <1>4 DEF SInv, Linked
  <2> QED
    BY <2>3, <2>4
<1>8. Affine'
  BY <1>1 DEF SInv, Recorded, Affine, Owner, vars
<1>9. Once'
  <2> SUFFICES ASSUME Cardinality(Keys) <= Capacity PROVE OneLoad'
    BY DEF Once
  <2>1. OneLoad /\ UNCHANGED <<index, warm>>
    BY <1>1 DEF SInv, Once, vars, shared
  <2>2. Completed' = Completed \cup {c}
    BY <1>1 DEF Completed, SInv, Recorded
  <2>3. \A k \in Keys : Loaded(k)' = Loaded(k) \cup {d \in {c} : d.tenant = k /\ d.how = "loaded"}
    BY <2>2 DEF Loaded
  <2>4. \A k \in Keys : Holders(k)' = Holders(k) \ {w}
    BY <1>1, <1>4 DEF Holders, SInv, Recorded
  <2>5. CASE acquired[w] = "loaded"
    <3>1. PICK j \in Keys : j = Given(w)
      BY <1>2
    <3>2. Holders(j) = {w} /\ Loaded(j) = {} /\ j \in index /\ j \notin warm
      <4>1. w \in Holders(j)
        BY <2>5, <3>1 DEF Holders
      <4> QED
        BY <4>1, <2>1 DEF OneLoad
    <3>3. Holders(j)' = {} /\ Loaded(j)' = {d \in {c} : d.tenant = j /\ d.how = "loaded"}
      BY <2>3, <2>4, <3>2
    <3>4. \A k \in Keys : k # j => Holders(k)' = Holders(k) /\ Loaded(k)' = Loaded(k)
      BY <2>3, <2>4, <3>1, <1>3 DEF Holders
    <3> QED
      BY <2>1, <3>2, <3>3, <3>4 DEF OneLoad
  <2>6. CASE acquired[w] # "loaded"
    <3>1. \A k \in Keys : Holders(k)' = Holders(k) /\ Loaded(k)' = Loaded(k)
      BY <2>3, <2>4, <2>6, <1>3 DEF Holders
    <3> QED
      BY <2>1, <3>1 DEF OneLoad
  <2> QED
    BY <2>5, <2>6
<1> QED
  BY <1>6, <1>7, <1>8, <1>9 DEF SInv

LEMMA ServingKeeps == SInv /\ [ServingNext]_servingVars => SInv'
<1> SUFFICES ASSUME SInv, [ServingNext]_servingVars PROVE SInv'
  OBVIOUS
<1>1. QueueInv' /\ CacheInv'
  BY QueueInvKept, ServingIsCache, CacheInductive DEF SInv
<1>2. CASE UNCHANGED servingVars
  <2>1. UNCHANGED <<mode, popping, taken, vars, acquired, sink, warm>>
    BY <1>2 DEF servingVars, queueVars
  <2> QED
    BY <1>1, <2>1, QueueMoves
<1>3. ASSUME NEW w \in Threads, Worker(w) \/ Abort(w) \/ Wakeup(w) PROVE SInv'
  BY <1>1, <1>3, IdleKeeps, StartKeeps, AcquireKeeps, CompleteKeeps DEF Worker, Wakeup
<1> QED
  BY <1>1, <1>2, <1>3, SubmitKeeps DEF ServingNext

LEMMA ServingHolds == ServingSpec => []SInv
BY ServingFirst, ServingKeeps, PTL DEF ServingSpec

(* runServing keeps every invariant of the Scheduler and of the cache it is  *)
(* built from, with a cache that starts warm and workers that go back to     *)
(* pop() only with their key: no request is lost, taken twice or out of      *)
(* order, no wakeup is lost, and list and index of the cache agree.          *)
THEOREM PartsStayCorrect ==
  ServingSpec => [](/\ EachRequestOnce /\ OrderKept /\ NoLostWakeup
                    /\ (Steal > 0 => StaysWhileNeeded)
                    /\ IndexMatchesOrder /\ SingleLoader /\ SleeperHasLoader /\ PeerValueMatches)
<1>1. SInv => /\ EachRequestOnce /\ OrderKept /\ NoLostWakeup
              /\ (Steal > 0 => StaysWhileNeeded)
  BY OInvOrderKept DEF SInv, QueueInv, CInv, QInv
<1>2. SInv => IndexMatchesOrder /\ SingleLoader /\ SleeperHasLoader /\ PeerValueMatches
  BY CacheInvSafe DEF SInv
<1> QED
  BY <1>1, <1>2, ServingHolds, PTL

(* With affinity the owner of a tenant is the only worker that ever asks for *)
(* its key, so nobody waits for a load of another worker.                    *)
THEOREM NothingCoalesced == ServingSpec => []AffinityNeverCoalesces
<1>1. SInv => AffinityNeverCoalesces
  BY DEF SInv, Affine, AffinityNeverCoalesces
<1> QED
  BY <1>1, ServingHolds, PTL

LEMMA AtMostOne ==
  ASSUME NEW S, \A x, y \in S : x = y
  PROVE  Cardinality(S) \in {0, 1} /\ (S = {} => Cardinality(S) = 0)
<1>1. S = {} \/ \E x : S = {x}
  OBVIOUS
<1> QED
  BY <1>1, FS_EmptySet, FS_Singleton

(* When every tenant fits into the cache, the completions name at most one   *)
(* load of each key, and none of a key that the warm-up has loaded.          *)
THEOREM KeysLoadedOnce == ServingSpec => []LoadedOnce
<1>1. SInv => LoadedOnce
  <2> SUFFICES ASSUME SInv, Cardinality(Keys) <= Capacity, NEW k \in Keys
               PROVE  Cardinality({c \in Completed : c.tenant = k /\ c.how = "loaded"})
                        + Cardinality({w \in Threads : key[w] = k /\ at[w] = "loading"})
                        + Cardinality({w \in Threads : acquired[w] = "loaded"
                                                       /\ taken[TakenBy(w)].tenant = k})
                      <= (IF k \in warm THEN 0 ELSE 1)
    BY DEF LoadedOnce
  <2> DEFINE Loaders == {w \in Threads : key[w] = k /\ at[w] = "loading"}
  <2>1. OneLoad
    BY DEF SInv, Once
  <2>2. \A v, w \in Loaders : v = w
    BY DEF SInv, CacheInv, Loading
  <2>3. k \in index => Loaders = {}
    BY DEF SInv, CacheInv, Loading
  <2>4. /\ Cardinality(Loaded(k)) \in {0, 1} /\ (Loaded(k) = {} => Cardinality(Loaded(k)) = 0)
        /\ Cardinality(Holders(k)) \in {0, 1} /\ (Holders(k) = {} => Cardinality(Holders(k)) = 0)
        /\ Cardinality(Loaders) \in {0, 1} /\ (Loaders = {} => Cardinality(Loaders) = 0)
    BY <2>1, <2>2, AtMostOne DEF OneLoad
  <2>5. Cardinality(Loaded(k)) + Cardinality(Loaders) + Cardinality(Holders(k))
          <= (IF k \in warm THEN 0 ELSE 1)
    BY <2>1, <2>3, <2>4 DEF OneLoad
  <2> QED
    BY <2>5 DEF Loaded, Holders, Given
<1> QED
  BY <1>1, ServingHolds, PTL
=============================================================================
