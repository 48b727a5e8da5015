------------------------- MODULE CommandLanesProofs -------------------------
(***************************************************************************)
(* Proofs about CommandLanes for every set of lanes and entries, every cap *)
(* and every number of restarts.  All operations but ClearLane end in      *)
(* drainLane, so the argument has two parts: what the pump does to one     *)
(* queue, and then, once and for all, that draining lanes turns a state    *)
(* that is consistent but may have idle slots into one that is consistent  *)
(* and has none.                                                           *)
(***************************************************************************)
EXTENDS CommandLanes, FiniteSetTheorems, TLAPS

-----------------------------------------------------------------------------
(* The pump on one queue *)

\* The pump takes a prefix of the queue and leaves the rest as it was.
LEMMA PumpSplits ==
    ASSUME NEW q \in Seq(Entries), NEW a, IsFiniteSet(a), NEW cap \in Nat
    PROVE  /\ PumpCount(q, a, cap) \in 0 .. Len(q)
           /\ Unpumped(q, a, cap) \in Seq(Entries)
           /\ Len(Unpumped(q, a, cap)) = Len(q) - PumpCount(q, a, cap)
           /\ \A i \in 1 .. Len(Unpumped(q, a, cap)) :
                Unpumped(q, a, cap)[i] = q[i + PumpCount(q, a, cap)]
           /\ Pumped(q, a, cap) \subseteq Entries
<1> DEFINE n == PumpCount(q, a, cap)
<1>1. Cardinality(a) \in Nat
  BY FS_CardinalityType
<1>2. n \in 0 .. Len(q)
  BY <1>1 DEF PumpCount
<1>3. Pumped(q, a, cap) \subseteq Entries
  BY <1>2 DEF Pumped
<1> HIDE DEF n
<1>4. /\ SubSeq(q, n + 1, Len(q)) \in Seq(Entries)
      /\ Len(SubSeq(q, n + 1, Len(q))) = Len(q) - n
      /\ \A i \in 1 .. Len(q) - n : SubSeq(q, n + 1, Len(q))[i] = q[i + n]
  BY <1>2
<1> QED
  BY <1>2, <1>3, <1>4 DEF Unpumped, n

\* On a queue without repetitions, none of it active, the pump fills the lane
\* up to the cap or empties the queue, and starts nothing beyond the cap.
LEMMA PumpFills ==
    ASSUME NEW q \in Seq(Entries), NEW a, IsFiniteSet(a), NEW cap \in Nat,
           \A i, j \in 1 .. Len(q) : i # j => q[i] # q[j],
           \A i \in 1 .. Len(q) : q[i] \notin a
    PROVE  /\ IsFiniteSet(a \cup Pumped(q, a, cap))
           /\ Unpumped(q, a, cap) # <<>> => Cardinality(a \cup Pumped(q, a, cap)) >= cap
           /\ Pumped(q, a, cap) # {} => Cardinality(a \cup Pumped(q, a, cap)) <= cap
<1> DEFINE n == PumpCount(q, a, cap)
           P == Pumped(q, a, cap)
           f == [i \in 1 .. n |-> q[i]]
<1>1. Cardinality(a) \in Nat
  BY FS_CardinalityType
<1>2. n \in 0 .. Len(q)
  BY <1>1 DEF PumpCount
<1>3. P = {q[i] : i \in 1 .. n}
  BY DEF Pumped
<1>4. /\ n < Len(q) => Cardinality(a) + n >= cap
      /\ n > 0 => Cardinality(a) + n <= cap
  BY <1>1 DEF PumpCount
<1>5. Unpumped(q, a, cap) # <<>> => n < Len(q)
  <2>1. Len(Unpumped(q, a, cap)) = Len(q) - n /\ Unpumped(q, a, cap) \in Seq(Entries)
    BY PumpSplits
  <2> QED
    BY <2>1, <1>2
<1> HIDE DEF n, P
<1>6. IsFiniteSet(P) /\ Cardinality(P) = n
  <2>1. IsFiniteSet(1 .. n) /\ Cardinality(1 .. n) = n
    BY <1>2, FS_Interval
  <2>2. f \in Bijection(1 .. n, P)
    BY <1>2, <1>3 DEF Bijection, Injection, Surjection, IsInjective
  <2>3. ExistsBijection(1 .. n, P)
    BY <2>2 DEF ExistsBijection
  <2> QED
    BY <2>1, <2>3, FS_Bijection
<1>7. a \cap P = {}
  BY <1>2, <1>3
<1>8. /\ IsFiniteSet(a \cup P)
      /\ Cardinality(a \cup P) = Cardinality(a) + n
  <2>1. Cardinality(a \cap P) = 0
    BY <1>7, FS_EmptySet
  <2>2. /\ IsFiniteSet(a \cup P)
        /\ Cardinality(a \cup P) = Cardinality(a) + Cardinality(P) - Cardinality(a \cap P)
    BY <1>6, FS_Union
  <2> QED
    BY <1>1, <1>2, <1>6, <2>1, <2>2
<1>9. P # {} => n > 0
  BY <1>2, <1>3
<1> QED
  BY <1>1, <1>2, <1>4, <1>5, <1>8, <1>9 DEF P

\* Whether e is somewhere on the queue q.
Holds(q, e) == \E i \in 1 .. Len(q) : q[i] = e

\* A queue in order of arrival, by the arrival times `at`.
InOrder(q, at) == \A i, j \in 1 .. Len(q) : i < j => at[q[i]] < at[q[j]]

\* A queue in order of arrival holds nothing twice.
LEMMA InOrderDistinct ==
    ASSUME NEW q \in Seq(Entries), NEW at \in [Entries -> Nat], InOrder(q, at)
    PROVE  \A i, j \in 1 .. Len(q) : i # j => q[i] # q[j]
<1> SUFFICES ASSUME NEW i \in 1 .. Len(q), NEW j \in 1 .. Len(q), i # j, q[i] = q[j]
             PROVE  FALSE
  OBVIOUS
<1>1. q[i] \in Entries /\ at[q[i]] \in Nat
  OBVIOUS
<1>2. i < j \/ j < i
  OBVIOUS
<1>3. at[q[i]] < at[q[i]]
  BY <1>2 DEF InOrder
<1> QED
  BY <1>1, <1>3

\* On a queue in order of arrival the pump starts entries that were queued, keeps
\* the others in order, and starts nothing that arrived after one it keeps.
LEMMA PumpKeepsOrder ==
    ASSUME NEW q \in Seq(Entries), NEW a, IsFiniteSet(a), NEW cap \in Nat,
           NEW at \in [Entries -> Nat], InOrder(q, at)
    PROVE  /\ InOrder(Unpumped(q, a, cap), at)
           /\ \A e : Holds(Unpumped(q, a, cap), e)
                        <=> Holds(q, e) /\ e \notin Pumped(q, a, cap)
           /\ \A e \in Pumped(q, a, cap) : Holds(q, e)
           /\ \A d : \A e \in Pumped(q, a, cap) :
                 Holds(Unpumped(q, a, cap), d) => at[e] < at[d]
<1> DEFINE n == PumpCount(q, a, cap)
           U == Unpumped(q, a, cap)
           P == Pumped(q, a, cap)
<1>1. /\ n \in 0 .. Len(q)
      /\ Len(U) = Len(q) - n
      /\ \A i \in 1 .. Len(U) : U[i] = q[i + n]
  BY PumpSplits
<1>2. P = {q[i] : i \in 1 .. n}
  BY DEF Pumped
<1>3. \A i, j \in 1 .. Len(q) : i # j => q[i] # q[j]
  BY InOrderDistinct
<1> HIDE DEF n, U, P
<1>4. \A i \in 1 .. Len(U) : i + n \in 1 .. Len(q) /\ i + n > n
  BY <1>1
<1>5. InOrder(U, at)
  <2> SUFFICES ASSUME NEW i \in 1 .. Len(U), NEW j \in 1 .. Len(U), i < j
               PROVE  at[U[i]] < at[U[j]]
    BY DEF InOrder
  <2>1. i + n < j + n
    BY <1>1
  <2> QED
    BY <2>1, <1>1, <1>4 DEF InOrder
<1>6. ASSUME NEW e PROVE Holds(U, e) <=> Holds(q, e) /\ e \notin P
  <2>1. ASSUME NEW i \in 1 .. Len(U), U[i] = e PROVE Holds(q, e) /\ e \notin P
    <3>1. i + n \in 1 .. Len(q) /\ q[i + n] = e /\ i + n > n
      BY <1>1, <1>4, <2>1
    <3>2. \A k \in 1 .. n : k \in 1 .. Len(q) /\ k # i + n
      BY <1>1, <3>1
    <3>3. \A k \in 1 .. n : q[k] # e
      BY <3>1, <3>2, <1>3
    <3> QED
      BY <3>1, <3>3, <1>2 DEF Holds
  <2>2. ASSUME NEW k \in 1 .. Len(q), q[k] = e, e \notin P PROVE Holds(U, e)
    <3>1. k \notin 1 .. n
      BY <2>2, <1>2
    <3>2. k - n \in 1 .. Len(U) /\ (k - n) + n = k
      BY <3>1, <1>1
    <3>3. U[k - n] = e
      BY <3>2, <1>1, <2>2
    <3> QED
      BY <3>2, <3>3 DEF Holds
  <2> QED
    BY <2>1, <2>2 DEF Holds
<1>7. \A e \in P : Holds(q, e)
  BY <1>1, <1>2 DEF Holds
<1>8. ASSUME NEW d, NEW e \in P, Holds(U, d) PROVE at[e] < at[d]
  <2>1. PICK k \in 1 .. n : q[k] = e
    BY <1>2
  <2>2. PICK i \in 1 .. Len(U) : U[i] = d
    BY <1>8 DEF Holds
  <2>3. i + n \in 1 .. Len(q) /\ k \in 1 .. Len(q) /\ k < i + n /\ q[i + n] = d
    BY <1>1, <1>4, <2>2
  <2> QED
    BY <2>1, <2>3 DEF InOrder
<1> QED
  BY <1>5, <1>6, <1>7, <1>8 DEF U, P

-----------------------------------------------------------------------------
(* Draining lanes *)

\* What a state of the lanes must satisfy before drainLane looks at it: queues
\* in order of arrival, entries where their phase says, active ids those of the
\* running tasks of the current generation.
Consistent(q, a, g, ph, tg, at) ==
    /\ \A l \in Lanes : InOrder(q[l], at)
    /\ \A e \in Entries, l \in Lanes :
          Holds(q[l], e) <=> (ph[e] = "queued" /\ laneOf[e] = l)
    /\ \A e \in Entries, l \in Lanes :
          e \in a[l] <=> (ph[e] = "running" /\ laneOf[e] = l /\ tg[e] = g[l])
    /\ \A l \in Lanes : IsFiniteSet(a[l])
    /\ \A e \in Entries : ph[e] = "running" => tg[e] <= g[laneOf[e]]
    /\ \A d, e \in Entries :
          ph[d] = "queued" /\ ph[e] \notin {"new", "refused"}
            /\ laneOf[d] = laneOf[e] /\ at[d] < at[e]
          => ph[e] = "queued"

\* A lane on which nothing could be pumped.
Full(q, a, c, l) == q[l] # <<>> => Cardinality(a[l]) >= c[l]

\* What draining the lanes of ls achieves: the next state is consistent, those
\* lanes are full and, where a task was started, within their cap; the others are
\* as they were, and the only entries that changed went from queued to running.
Drained(ls, q, a, c, g, ph, at) ==
    /\ queue' \in [Lanes -> Seq(Entries)]
    /\ activeTaskIds' \in [Lanes -> SUBSET Entries]
    /\ phase' \in [Entries -> Phases]
    /\ taskGeneration' \in [Entries -> Nat]
    /\ Consistent(queue', activeTaskIds', g, phase', taskGeneration', at)
    /\ \A l \in ls : Full(queue', activeTaskIds', c, l)
    /\ \A l \in ls : ~ (activeTaskIds'[l] \subseteq a[l]) =>
          Cardinality(activeTaskIds'[l]) <= c[l]
    /\ \A l \in Lanes \ ls : queue'[l] = q[l] /\ activeTaskIds'[l] = a[l]
    /\ \A e \in Entries : phase'[e] = ph[e] \/ (ph[e] = "queued" /\ phase'[e] = "running")
    /\ \A e \in Entries : taskGeneration'[e] # taskGeneration[e] => ph[e] = "queued"

\* Draining the lanes of ls from a consistent state leaves a consistent state in
\* which those lanes are full, and the others are as they were.
LEMMA DrainLanesConsistent ==
    ASSUME NEW ls \in SUBSET Lanes,
           NEW q \in [Lanes -> Seq(Entries)],
           NEW a \in [Lanes -> SUBSET Entries],
           NEW c \in [Lanes -> Nat \ {0}],
           NEW g \in [Lanes -> Nat],
           NEW ph \in [Entries -> Phases],
           NEW at \in [Entries -> Nat],
           laneOf \in [Entries -> Lanes],
           taskGeneration \in [Entries -> Nat],
           Consistent(q, a, g, ph, taskGeneration, at),
           DrainLanes(ls, q, a, c, g, ph),
           laneOf' = laneOf
    PROVE  Drained(ls, q, a, c, g, ph, at)
<1> DEFINE started == [l \in Lanes |-> IF l \in ls THEN Pumped(q[l], a[l], c[l]) ELSE {}]
<1>a. \A l \in Lanes : InOrder(q[l], at) /\ IsFiniteSet(a[l])
  BY DEF Consistent
<1>b. \A e \in Entries, l \in Lanes :
        Holds(q[l], e) <=> (ph[e] = "queued" /\ laneOf[e] = l)
  BY DEF Consistent
<1>c. \A e \in Entries, l \in Lanes :
        e \in a[l] <=> (ph[e] = "running" /\ laneOf[e] = l /\ taskGeneration[e] = g[l])
  BY DEF Consistent
<1>1. ASSUME NEW l \in ls
      PROVE  /\ queue'[l] = Unpumped(q[l], a[l], c[l])
             /\ activeTaskIds'[l] = a[l] \cup Pumped(q[l], a[l], c[l])
  BY DEF DrainLanes
<1>2. \A l \in Lanes \ ls : queue'[l] = q[l] /\ activeTaskIds'[l] = a[l]
  BY DEF DrainLanes
<1>3. ASSUME NEW l \in Lanes
      PROVE  /\ queue'[l] \in Seq(Entries)
             /\ InOrder(queue'[l], at)
             /\ started[l] \subseteq Entries
             /\ \A e : Holds(queue'[l], e) <=> Holds(q[l], e) /\ e \notin started[l]
             /\ \A e \in started[l] : Holds(q[l], e)
             /\ \A d : \A e \in started[l] : Holds(queue'[l], d) => at[e] < at[d]
  <2>0. q[l] \in Seq(Entries) /\ c[l] \in Nat /\ IsFiniteSet(a[l]) /\ InOrder(q[l], at)
    BY <1>a
  <2>1. CASE l \in ls
    <3>1. started[l] = Pumped(q[l], a[l], c[l])
      BY <2>1
    <3> HIDE DEF started
    <3>2. /\ Unpumped(q[l], a[l], c[l]) \in Seq(Entries)
          /\ Pumped(q[l], a[l], c[l]) \subseteq Entries
      BY <2>0, PumpSplits
    <3>3. /\ InOrder(Unpumped(q[l], a[l], c[l]), at)
          /\ \A e : Holds(Unpumped(q[l], a[l], c[l]), e)
                        <=> Holds(q[l], e) /\ e \notin Pumped(q[l], a[l], c[l])
          /\ \A e \in Pumped(q[l], a[l], c[l]) : Holds(q[l], e)
          /\ \A d : \A e \in Pumped(q[l], a[l], c[l]) :
                 Holds(Unpumped(q[l], a[l], c[l]), d) => at[e] < at[d]
      BY <2>0, PumpKeepsOrder
    <3> QED
      BY <2>1, <1>1, <3>1, <3>2, <3>3
  <2>2. CASE l \notin ls
    <3>1. started[l] = {}
      BY <2>2
    <3> HIDE DEF started
    <3> QED
      BY <2>0, <2>2, <1>2, <3>1
  <2> QED
    BY <2>1, <2>2
<1>4. /\ activeTaskIds' = [l \in Lanes |-> a[l] \cup started[l]]
      /\ phase' = [e \in Entries |-> IF e \in started[laneOf[e]] THEN "running" ELSE ph[e]]
      /\ taskGeneration' = [e \in Entries |-> IF e \in started[laneOf[e]] THEN g[laneOf[e]]
                                              ELSE taskGeneration[e]]
  BY DEF DrainLanes
<1> HIDE DEF started
<1>5. queue' \in [Lanes -> Seq(Entries)]
  BY <1>3 DEF DrainLanes
<1>6. /\ activeTaskIds' \in [Lanes -> SUBSET Entries]
      /\ phase' \in [Entries -> Phases]
      /\ taskGeneration' \in [Entries -> Nat]
  <2>1. \A l \in Lanes : started[l] \subseteq Entries
    BY <1>3
  <2>2. activeTaskIds' \in [Lanes -> SUBSET Entries]
    BY <2>1, <1>4
  <2> QED
    BY <2>2, <1>4 DEF Phases
<1>7. \A l \in Lanes, e \in Entries :
         e \in started[l] => ph[e] = "queued" /\ laneOf[e] = l
  BY <1>3, <1>b
<1>8. \A e \in Entries, l \in Lanes :
         Holds(queue'[l], e) <=> (phase'[e] = "queued" /\ laneOf[e] = l)
  <2> SUFFICES ASSUME NEW e \in Entries, NEW l \in Lanes
               PROVE  Holds(queue'[l], e) <=> (phase'[e] = "queued" /\ laneOf[e] = l)
    OBVIOUS
  <2>1. Holds(queue'[l], e) <=> ph[e] = "queued" /\ laneOf[e] = l /\ e \notin started[l]
    BY <1>3, <1>b
  <2>2. phase'[e] = IF e \in started[laneOf[e]] THEN "running" ELSE ph[e]
    BY <1>4
  <2> QED
    BY <2>1, <2>2
<1>9. \A e \in Entries, l \in Lanes :
         e \in activeTaskIds'[l]
           <=> (phase'[e] = "running" /\ laneOf[e] = l /\ taskGeneration'[e] = g[l])
  <2> SUFFICES ASSUME NEW e \in Entries, NEW l \in Lanes
               PROVE  e \in activeTaskIds'[l] <=>
                       (phase'[e] = "running" /\ laneOf[e] = l /\ taskGeneration'[e] = g[l])
    OBVIOUS
  <2>1. e \in activeTaskIds'[l] <=> e \in a[l] \/ e \in started[l]
    BY <1>4
  <2>2. e \in a[l] <=> (ph[e] = "running" /\ laneOf[e] = l /\ taskGeneration[e] = g[l])
    BY <1>c
  <2>3. CASE e \in started[laneOf[e]]
    <3>1. phase'[e] = "running" /\ taskGeneration'[e] = g[laneOf[e]] /\ ph[e] = "queued"
      BY <2>3, <1>4, <1>7
    <3>2. e \in started[l] <=> laneOf[e] = l
      BY <2>3, <1>7
    <3> QED
      BY <2>1, <2>2, <3>1, <3>2
  <2>4. CASE e \notin started[laneOf[e]]
    <3>1. phase'[e] = ph[e] /\ taskGeneration'[e] = taskGeneration[e]
      BY <2>4, <1>4
    <3>2. e \notin started[l]
      BY <2>4, <1>7
    <3> QED
      BY <2>1, <2>2, <3>1, <3>2
  <2> QED
    BY <2>3, <2>4
<1>10. \A e \in Entries : phase'[e] = "running" => taskGeneration'[e] <= g[laneOf[e]]
  <2> SUFFICES ASSUME NEW e \in Entries, phase'[e] = "running"
               PROVE  taskGeneration'[e] <= g[laneOf[e]]
    OBVIOUS
  <2>1. CASE e \in started[laneOf[e]]
    <3>1. taskGeneration'[e] = g[laneOf[e]] /\ g[laneOf[e]] \in Nat
      BY <2>1, <1>4
    <3> QED
      BY <3>1
  <2>2. CASE e \notin started[laneOf[e]]
    BY <2>2, <1>4 DEF Consistent
  <2> QED
    BY <2>1, <2>2
<1>11. \A d, e \in Entries :
          phase'[d] = "queued" /\ phase'[e] \notin {"new", "refused"}
            /\ laneOf[d] = laneOf[e] /\ at[d] < at[e]
          => phase'[e] = "queued"
  <2> SUFFICES ASSUME NEW d \in Entries, NEW e \in Entries,
                      phase'[d] = "queued", phase'[e] \notin {"new", "refused"},
                      laneOf[d] = laneOf[e], at[d] < at[e]
               PROVE  phase'[e] = "queued"
    OBVIOUS
  <2>1. ph[d] = "queued"
    BY <1>4
  <2>2. ph[e] \notin {"new", "refused"}
    BY <1>4, <1>7
  <2>3. ph[e] = "queued"
    BY <2>1, <2>2 DEF Consistent
  <2>4. ASSUME e \in started[laneOf[e]] PROVE FALSE
    <3>1. Holds(queue'[laneOf[e]], d) /\ laneOf[e] \in Lanes
      BY <1>8
    <3>2. at[e] < at[d]
      BY <2>4, <3>1, <1>3
    <3>3. at[d] \in Nat /\ at[e] \in Nat
      OBVIOUS
    <3> QED
      BY <3>2, <3>3
  <2> QED
    BY <2>3, <2>4, <1>4
<1>12. ASSUME NEW l \in Lanes
       PROVE  /\ IsFiniteSet(activeTaskIds'[l])
              /\ l \in ls => Full(queue', activeTaskIds', c, l)
              /\ l \in ls /\ ~ (activeTaskIds'[l] \subseteq a[l])
                    => Cardinality(activeTaskIds'[l]) <= c[l]
  <2>0. /\ q[l] \in Seq(Entries) /\ c[l] \in Nat /\ IsFiniteSet(a[l])
        /\ \A i, j \in 1 .. Len(q[l]) : i # j => q[l][i] # q[l][j]
    <3>1. q[l] \in Seq(Entries) /\ c[l] \in Nat /\ IsFiniteSet(a[l]) /\ InOrder(q[l], at)
      BY <1>a
    <3>2. \A i, j \in 1 .. Len(q[l]) : i # j => q[l][i] # q[l][j]
      BY <3>1, InOrderDistinct
    <3> QED
      BY <3>1, <3>2
  <2>1. \A i \in 1 .. Len(q[l]) : q[l][i] \notin a[l]
    <3> SUFFICES ASSUME NEW i \in 1 .. Len(q[l]) PROVE q[l][i] \notin a[l]
      OBVIOUS
    <3>1. q[l][i] \in Entries
      BY <2>0
    <3>2. Holds(q[l], q[l][i])
      BY DEF Holds
    <3>3. ph[q[l][i]] = "queued"
      BY <3>1, <3>2, <1>b
    <3> QED
      BY <3>1, <3>3, <1>c
  <2>2. CASE l \in ls
    <3>2. /\ IsFiniteSet(a[l] \cup Pumped(q[l], a[l], c[l]))
          /\ Unpumped(q[l], a[l], c[l]) # <<>> =>
                Cardinality(a[l] \cup Pumped(q[l], a[l], c[l])) >= c[l]
          /\ Pumped(q[l], a[l], c[l]) # {} =>
                Cardinality(a[l] \cup Pumped(q[l], a[l], c[l])) <= c[l]
      BY <2>0, <2>1, PumpFills
    <3> QED
      BY <2>2, <1>1, <3>2 DEF Full
  <2>3. CASE l \notin ls
    BY <2>0, <2>3, <1>2
  <2> QED
    BY <2>2, <2>3
<1>13. \A e \in Entries : phase'[e] = ph[e] \/ (ph[e] = "queued" /\ phase'[e] = "running")
  BY <1>4, <1>7
<1>14. \A e \in Entries : taskGeneration'[e] # taskGeneration[e] => ph[e] = "queued"
  BY <1>4, <1>7
<1>15. Consistent(queue', activeTaskIds', g, phase', taskGeneration', at)
  BY <1>3, <1>8, <1>9, <1>10, <1>11, <1>12 DEF Consistent
<1> QED
  BY <1>2, <1>5, <1>6, <1>12, <1>13, <1>14, <1>15 DEF Drained

-----------------------------------------------------------------------------
(* The invariant *)

\* The inductive invariant.  Consistent alone is not enough for WorkConserving,
\* which every operation must restore by draining the lanes it touched, nor for
\* what a wait may conclude: its snapshot holds only tasks that had started.
IInv ==
    /\ TypeOK
    /\ Consistent(queue, activeTaskIds, generation, phase, taskGeneration, enqueuedAt)
    /\ \A l \in Lanes : Full(queue, activeTaskIds, maxConcurrent, l)
    /\ \A e \in Entries : phase[e] \notin {"new", "refused"} => enqueuedAt[e] < clock
    /\ \A e \in wait.activeAtStart : phase[e] \in {"running", "settled"}
    /\ DrainedMeansSettled

\* The invariant holds initially.
LEMMA InitIInv == Init => IInv
<1> SUFFICES ASSUME Init PROVE IInv
  OBVIOUS
<1>1. TypeOK
  <2>1. queue \in [Lanes -> Seq(Entries)]
    BY DEF Init
  <2>2. wait \in [state : WaitStates, activeAtStart : SUBSET Entries]
    BY DEF Init, WaitStates
  <2>3. activeTaskIds \in [Lanes -> SUBSET Entries]
    BY DEF Init
  <2>4. maxConcurrent \in [Lanes -> Nat \ {0}]
    BY DEF Init
  <2> QED
    BY <2>1, <2>2, <2>3, <2>4 DEF Init, TypeOK, Phases
<1>2. Consistent(queue, activeTaskIds, generation, phase, taskGeneration, enqueuedAt)
  <2>1. IsFiniteSet({})
    BY FS_EmptySet
  <2> QED
    BY <2>1 DEF Init, Consistent, InOrder, Holds
<1> QED
  BY <1>1, <1>2 DEF IInv, Init, Full, DrainedMeansSettled

\* What an operation has to establish before it drains the lanes of ls from the
\* queues q, active sets a and phases ph: a consistent state, in which the lanes
\* it does not drain are full, started tasks are still running or settled, and
\* arrival times stay behind the clock.
Ready(ls, q, a, ph) ==
    /\ q \in [Lanes -> Seq(Entries)]
    /\ a \in [Lanes -> SUBSET Entries]
    /\ ph \in [Entries -> Phases]
    /\ gatewayDraining' \in BOOLEAN
    /\ lanes' \in SUBSET Lanes
    /\ maxConcurrent' \in [Lanes -> Nat \ {0}]
    /\ generation' \in [Lanes -> Nat]
    /\ enqueuedAt' \in [Entries -> Nat]
    /\ clock' \in Nat
    /\ laneOf' = laneOf
    /\ wait' = wait
    /\ Consistent(q, a, generation', ph, taskGeneration, enqueuedAt')
    /\ \A l \in Lanes \ ls : Full(q, a, maxConcurrent', l)
    /\ \A e \in Entries : ph[e] \notin {"new", "refused"} => enqueuedAt'[e] < clock'
    /\ \A e \in Entries : phase[e] = "running" => ph[e] \in {"running", "settled"}
    /\ \A e \in Entries : phase[e] = "settled" => ph[e] = "settled"
    /\ \A l \in Lanes : generation[l] <= generation'[l]

\* A step that was ready for its drain restores the invariant.
LEMMA DrainStep ==
    ASSUME IInv,
           NEW ls \in SUBSET Lanes, NEW q, NEW a, NEW ph,
           Ready(ls, q, a, ph),
           DrainLanes(ls, q, a, maxConcurrent', generation', ph)
    PROVE  /\ IInv'
           /\ \A l \in ls : ~ (activeTaskIds'[l] \subseteq a[l]) =>
                 Cardinality(activeTaskIds'[l]) <= maxConcurrent'[l]
           /\ \A l \in Lanes \ ls : activeTaskIds'[l] = a[l]
<1> USE DEF Ready
<1>0. laneOf \in [Entries -> Lanes] /\ taskGeneration \in [Entries -> Nat] /\ laneOf' = laneOf
  BY DEF IInv, TypeOK
<1>1. Drained(ls, q, a, maxConcurrent', generation', ph, enqueuedAt')
  <2>1. /\ q \in [Lanes -> Seq(Entries)]
        /\ a \in [Lanes -> SUBSET Entries]
        /\ maxConcurrent' \in [Lanes -> Nat \ {0}]
        /\ generation' \in [Lanes -> Nat]
        /\ ph \in [Entries -> Phases]
        /\ enqueuedAt' \in [Entries -> Nat]
        /\ Consistent(q, a, generation', ph, taskGeneration, enqueuedAt')
    OBVIOUS
  <2> QED
    BY <1>0, <2>1, DrainLanesConsistent, ZenonT(60)
<1>2. TypeOK'
  BY <1>1, <1>0, wait \in [state : WaitStates, activeAtStart : SUBSET Entries]
  DEF IInv, TypeOK, Drained
<1>3. \A l \in Lanes : Full(queue', activeTaskIds', maxConcurrent', l)
  BY <1>1 DEF Full, Drained
<1>4. \A e \in Entries : phase'[e] \notin {"new", "refused"} => enqueuedAt'[e] < clock'
  BY <1>1 DEF Drained
<1>5. \A e \in wait.activeAtStart :
         /\ e \in Entries
         /\ ph[e] \in {"running", "settled"}
         /\ phase'[e] = ph[e]
         /\ taskGeneration'[e] = taskGeneration[e]
         /\ phase'[e] = "running" => phase[e] = "running"
  <2> SUFFICES ASSUME NEW e \in wait.activeAtStart
               PROVE  /\ e \in Entries
                      /\ ph[e] \in {"running", "settled"}
                      /\ phase'[e] = ph[e]
                      /\ taskGeneration'[e] = taskGeneration[e]
                      /\ phase'[e] = "running" => phase[e] = "running"
    OBVIOUS
  <2>1. e \in Entries /\ phase[e] \in {"running", "settled"}
    BY DEF IInv, TypeOK
  <2>2. ph[e] \in {"running", "settled"} /\ ph[e] # "queued"
    BY <2>1
  <2>3. phase'[e] = ph[e] /\ taskGeneration'[e] = taskGeneration[e]
    BY <2>1, <2>2, <1>1 DEF Drained
  <2> QED
    BY <2>1, <2>2, <2>3
<1>6. DrainedMeansSettled'
  <2> SUFFICES ASSUME wait.state = "drained", NEW e \in wait.activeAtStart, phase'[e] = "running"
               PROVE  taskGeneration'[e] < generation'[laneOf[e]]
    BY DEF DrainedMeansSettled
  <2>1. e \in Entries /\ phase[e] = "running" /\ taskGeneration'[e] = taskGeneration[e]
    BY <1>5
  <2>2. taskGeneration[e] < generation[laneOf[e]]
    BY <2>1 DEF IInv, DrainedMeansSettled
  <2>3. /\ laneOf[e] \in Lanes /\ taskGeneration[e] \in Nat
        /\ generation[laneOf[e]] \in Nat /\ generation'[laneOf[e]] \in Nat
        /\ generation[laneOf[e]] <= generation'[laneOf[e]]
    BY <2>1 DEF IInv, TypeOK
  <2> QED
    BY <2>1, <2>2, <2>3
<1>7. \A e \in wait'.activeAtStart : phase'[e] \in {"running", "settled"}
  BY <1>5
<1>8. Consistent(queue, activeTaskIds, generation, phase, taskGeneration, enqueuedAt)'
  BY <1>1, <1>0 DEF Consistent, Drained
<1>9. (\A l \in Lanes : Full(queue, activeTaskIds, maxConcurrent, l))'
  BY <1>3 DEF Full
<1>10. IInv'
  BY <1>8, <1>9, <1>2, <1>3, <1>4, <1>6, <1>7 DEF IInv
<1> QED
  BY <1>1, <1>10 DEF Drained

-----------------------------------------------------------------------------
(* One lemma per operation *)

\* A step that drains no lane is the drain of an empty set of lanes.
LEMMA NoDrain ==
    ASSUME IInv, queue' \in [Lanes -> Seq(Entries)],
           activeTaskIds' \in [Lanes -> SUBSET Entries],
           phase' \in [Entries -> Phases], taskGeneration' = taskGeneration
    PROVE  DrainLanes({}, queue', activeTaskIds', maxConcurrent', generation', phase')
<1>1. /\ queue' = [l \in Lanes |-> queue'[l]]
      /\ activeTaskIds' = [l \in Lanes |-> activeTaskIds'[l] \cup {}]
      /\ phase' = [e \in Entries |-> phase'[e]]
      /\ taskGeneration' = [e \in Entries |-> taskGeneration[e]]
  BY DEF IInv, TypeOK
<1> QED
  BY <1>1 DEF DrainLanes

\* A refused enqueue keeps the invariant.
LEMMA EnqueueRefusedStep ==
    ASSUME IInv, NEW e \in Entries, EnqueueRefused(e)
    PROVE  IInv' /\ activeTaskIds' = activeTaskIds
<1> USE DEF EnqueueRefused
<1>1. phase' \in [Entries -> Phases]
  BY DEF IInv, TypeOK, Phases
<1>2. Consistent(queue', activeTaskIds', generation', phase', taskGeneration, enqueuedAt')
  BY DEF IInv, TypeOK, Consistent
<1>3. Ready({}, queue', activeTaskIds', phase')
  BY <1>1, <1>2 DEF Ready, IInv, TypeOK, Full
<1>4. DrainLanes({}, queue', activeTaskIds', maxConcurrent', generation', phase')
  BY <1>1, NoDrain DEF IInv, TypeOK
<1> QED
  BY <1>3, <1>4, DrainStep

\* A stale completion keeps the invariant.
LEMMA SettleStaleStep ==
    ASSUME IInv, NEW e \in Entries, SettleStale(e)
    PROVE  IInv' /\ activeTaskIds' = activeTaskIds
<1> USE DEF SettleStale
<1>1. phase' \in [Entries -> Phases]
  BY DEF IInv, TypeOK, Phases
<1>2. Consistent(queue', activeTaskIds', generation', phase', taskGeneration, enqueuedAt')
  BY DEF IInv, TypeOK, Consistent
<1>3. Ready({}, queue', activeTaskIds', phase')
  BY <1>1, <1>2 DEF Ready, IInv, TypeOK, Full
<1>4. DrainLanes({}, queue', activeTaskIds', maxConcurrent', generation', phase')
  BY <1>1, NoDrain DEF IInv, TypeOK
<1> QED
  BY <1>3, <1>4, DrainStep

\* Clearing a lane keeps the invariant.
LEMMA ClearLaneStep ==
    ASSUME IInv, NEW l \in Lanes, ClearLane(l)
    PROVE  IInv' /\ activeTaskIds' = activeTaskIds
<1> USE DEF ClearLane
<1>1. phase' \in [Entries -> Phases] /\ queue' \in [Lanes -> Seq(Entries)]
  BY DEF IInv, TypeOK, Phases
<1>2. \A e \in Entries : phase'[e] = IF phase[e] = "queued" /\ laneOf[e] = l
                                     THEN "cleared" ELSE phase[e]
  <2>1. \A e \in Entries : Holds(queue[l], e) <=> (phase[e] = "queued" /\ laneOf[e] = l)
    BY DEF IInv, Consistent
  <2> QED
    BY <2>1 DEF Holds
<1>3. \A k \in Lanes : queue'[k] = IF k = l THEN <<>> ELSE queue[k]
  BY DEF IInv, TypeOK
<1>4. Consistent(queue', activeTaskIds', generation', phase', taskGeneration, enqueuedAt')
  <2>1. \A k \in Lanes : InOrder(queue'[k], enqueuedAt')
    BY <1>3 DEF IInv, Consistent, InOrder
  <2>2. \A e \in Entries, k \in Lanes :
           Holds(queue'[k], e) <=> (phase'[e] = "queued" /\ laneOf[e] = k)
    <3> SUFFICES ASSUME NEW e \in Entries, NEW k \in Lanes
                 PROVE  Holds(queue'[k], e) <=> (phase'[e] = "queued" /\ laneOf[e] = k)
      OBVIOUS
    <3>1. Holds(queue[k], e) <=> (phase[e] = "queued" /\ laneOf[e] = k)
      BY DEF IInv, Consistent
    <3>2. ~ Holds(<<>>, e)
      BY DEF Holds
    <3> QED
      BY <3>1, <3>2, <1>2, <1>3
  <2>3. \A d, e \in Entries :
          phase'[d] = "queued" /\ phase'[e] \notin {"new", "refused"}
            /\ laneOf[d] = laneOf[e] /\ enqueuedAt[d] < enqueuedAt[e]
          => phase'[e] = "queued"
    <3> SUFFICES ASSUME NEW d \in Entries, NEW e \in Entries,
                        phase'[d] = "queued", phase'[e] \notin {"new", "refused"},
                        laneOf[d] = laneOf[e], enqueuedAt[d] < enqueuedAt[e]
                 PROVE  phase'[e] = "queued"
      OBVIOUS
    <3>1. phase[d] = "queued" /\ laneOf[d] # l /\ phase[e] \notin {"new", "refused"}
      BY <1>2
    <3>2. phase[e] = "queued"
      BY <3>1 DEF IInv, Consistent
    <3> QED
      BY <3>1, <3>2, <1>2
  <2>4. \A e \in Entries, k \in Lanes :
          e \in activeTaskIds[k]
             <=> (phase'[e] = "running" /\ laneOf[e] = k /\ taskGeneration[e] = generation[k])
    BY <1>2 DEF IInv, Consistent
  <2>5. \A e \in Entries : phase'[e] = "running" => phase[e] = "running"
    BY <1>2
  <2> QED
    BY <2>1, <2>2, <2>3, <2>4, <2>5 DEF IInv, Consistent
<1>5. \A k \in Lanes : Full(queue', activeTaskIds', maxConcurrent', k)
  BY <1>3 DEF IInv, Full
<1>6. Ready({}, queue', activeTaskIds', phase')
  <2>1. \A e \in Entries :
           /\ phase'[e] \notin {"new", "refused"} => enqueuedAt'[e] < clock'
           /\ phase[e] = "running" => phase'[e] \in {"running", "settled"}
           /\ phase[e] = "settled" => phase'[e] = "settled"
    BY <1>2 DEF IInv
  <2>2. \A k \in Lanes : generation[k] <= generation'[k]
    BY DEF IInv, TypeOK
  <2> QED
    BY <1>1, <1>4, <1>5, <2>1, <2>2 DEF Ready, IInv, TypeOK
<1>7. DrainLanes({}, queue', activeTaskIds', maxConcurrent', generation', phase')
  BY <1>1, NoDrain DEF IInv, TypeOK
<1> QED
  BY <1>6, <1>7, DrainStep

\* A new cap keeps the invariant, and the drain stays within it.
LEMMA SetConcurrencyStep ==
    ASSUME IInv, NEW l \in Lanes, NEW n \in Nat, SetConcurrency(l, n)
    PROVE  /\ IInv'
           /\ \A k \in Lanes : ~ (activeTaskIds'[k] \subseteq activeTaskIds[k]) =>
                 Cardinality(activeTaskIds'[k]) <= maxConcurrent'[k]
<1> USE DEF SetConcurrency
<1>1. maxConcurrent' \in [Lanes -> Nat \ {0}]
  BY DEF IInv, TypeOK
<1>2. \A k \in Lanes \ {l} : Full(queue, activeTaskIds, maxConcurrent', k)
  BY DEF IInv, TypeOK, Full
<1>3. Ready({l}, queue, activeTaskIds, phase)
  <2>1. Consistent(queue, activeTaskIds, generation', phase, taskGeneration, enqueuedAt')
    BY DEF IInv
  <2>2. \A k \in Lanes : generation[k] <= generation'[k]
    BY DEF IInv, TypeOK
  <2> QED
    BY <1>1, <1>2, <2>1, <2>2 DEF Ready, IInv, TypeOK
<1>4. DrainLanes({l}, queue, activeTaskIds, maxConcurrent', generation', phase)
  OBVIOUS
<1>5. /\ IInv'
      /\ \A k \in {l} : ~ (activeTaskIds'[k] \subseteq activeTaskIds[k]) =>
            Cardinality(activeTaskIds'[k]) <= maxConcurrent'[k]
      /\ \A k \in Lanes \ {l} : activeTaskIds'[k] = activeTaskIds[k]
  <2>1. {l} \in SUBSET Lanes
    OBVIOUS
  <2> QED
    BY <1>3, <1>4, <2>1, DrainStep, ZenonT(30)
<1> QED
  BY <1>5

\* A completion keeps the invariant: its lane is drained again.
LEMMA SettleCurrentStep ==
    ASSUME IInv, NEW e \in Entries, SettleCurrent(e)
    PROVE  /\ IInv'
           /\ \A k \in Lanes : ~ (activeTaskIds'[k] \subseteq activeTaskIds[k]) =>
                 Cardinality(activeTaskIds'[k]) <= maxConcurrent'[k]
<1> DEFINE l == laneOf[e]
           a == [activeTaskIds EXCEPT ![l] = @ \ {e}]
           ph == [phase EXCEPT ![e] = "settled"]
<1>0. l \in Lanes /\ phase[e] = "running" /\ taskGeneration[e] = generation[l]
  BY DEF IInv, TypeOK, SettleCurrent
<1>1. a \in [Lanes -> SUBSET Entries] /\ ph \in [Entries -> Phases]
  BY DEF IInv, TypeOK, Phases
<1>2. \A k \in Lanes : a[k] = IF k = l THEN activeTaskIds[k] \ {e} ELSE activeTaskIds[k]
  BY DEF IInv, TypeOK
<1>3. \A d \in Entries : ph[d] = IF d = e THEN "settled" ELSE phase[d]
  BY DEF IInv, TypeOK
<1> HIDE DEF a, ph
<1>4. Consistent(queue, a, generation, ph, taskGeneration, enqueuedAt)
  <2>1. \A k \in Lanes : IsFiniteSet(a[k])
    <3>1. \A k \in Lanes : IsFiniteSet(activeTaskIds[k])
      BY DEF IInv, Consistent
    <3>2. \A k \in Lanes : IsFiniteSet(activeTaskIds[k] \ {e})
      BY <3>1, FS_RemoveElement
    <3> QED
      BY <3>1, <3>2, <1>2
  <2>2. \A d \in Entries, k \in Lanes :
          d \in a[k] <=> (ph[d] = "running" /\ laneOf[d] = k /\ taskGeneration[d] = generation[k])
    <3> SUFFICES ASSUME NEW d \in Entries, NEW k \in Lanes
                 PROVE  d \in a[k] <=> (ph[d] = "running" /\ laneOf[d] = k
                                           /\ taskGeneration[d] = generation[k])
      OBVIOUS
    <3>1. d \in activeTaskIds[k] <=> (phase[d] = "running" /\ laneOf[d] = k
                                           /\ taskGeneration[d] = generation[k])
      BY DEF IInv, Consistent
    <3>2. CASE d = e
      BY <3>1, <3>2, <1>2, <1>3
    <3>3. CASE d # e
      BY <3>1, <3>3, <1>2, <1>3
    <3> QED
      BY <3>2, <3>3
  <2>3. \A d \in Entries, k \in Lanes :
          Holds(queue[k], d) <=> (ph[d] = "queued" /\ laneOf[d] = k)
    BY <1>0, <1>3 DEF IInv, Consistent
  <2>4. \A d, f \in Entries :
          ph[d] = "queued" /\ ph[f] \notin {"new", "refused"}
            /\ laneOf[d] = laneOf[f] /\ enqueuedAt[d] < enqueuedAt[f]
          => ph[f] = "queued"
    <3> SUFFICES ASSUME NEW d \in Entries, NEW f \in Entries,
                        ph[d] = "queued", ph[f] \notin {"new", "refused"},
                        laneOf[d] = laneOf[f], enqueuedAt[d] < enqueuedAt[f]
                 PROVE  ph[f] = "queued"
      OBVIOUS
    <3>1. phase[d] = "queued" /\ phase[f] \notin {"new", "refused"}
      BY <1>0, <1>3
    <3>2. phase[f] = "queued"
      BY <3>1 DEF IInv, Consistent
    <3> QED
      BY <3>2, <1>0, <1>3
  <2> QED
    BY <2>1, <2>2, <2>3, <2>4, <1>3 DEF IInv, Consistent
<1>5. Ready({l}, queue, a, ph)
  <2>1. \A k \in Lanes \ {l} : Full(queue, a, maxConcurrent', k)
    BY <1>2 DEF IInv, Full, SettleCurrent
  <2> QED
    <3>1. Consistent(queue, a, generation', ph, taskGeneration, enqueuedAt')
      BY <1>4 DEF SettleCurrent
    <3>2. \A k \in Lanes : generation[k] <= generation'[k]
      BY DEF IInv, TypeOK, SettleCurrent
    <3>3. \A d \in Entries :
             /\ ph[d] \notin {"new", "refused"} => enqueuedAt'[d] < clock'
             /\ phase[d] = "running" => ph[d] \in {"running", "settled"}
             /\ phase[d] = "settled" => ph[d] = "settled"
      BY <1>0, <1>3 DEF IInv, SettleCurrent
    <3> QED
      BY <1>1, <2>1, <3>1, <3>2, <3>3 DEF Ready, IInv, TypeOK, SettleCurrent
<1>6. DrainLanes({l}, queue, a, maxConcurrent', generation', ph)
  BY DEF SettleCurrent, a, ph
<1>7. /\ IInv'
      /\ \A k \in {l} : ~ (activeTaskIds'[k] \subseteq a[k]) =>
            Cardinality(activeTaskIds'[k]) <= maxConcurrent'[k]
      /\ \A k \in Lanes \ {l} : activeTaskIds'[k] = a[k]
  <2>1. {l} \in SUBSET Lanes
    BY <1>0
  <2>2. DrainLanes({l}, queue, a, maxConcurrent', generation', ph)
    BY <1>6 DEF SettleCurrent
  <2> QED
    BY <1>5, <2>1, <2>2, DrainStep, ZenonT(30)
<1> QED
  BY <1>2, <1>7

\* Appending an entry that arrives after everything queued.
LEMMA AppendInOrder ==
    ASSUME NEW q \in Seq(Entries), NEW e \in Entries, NEW at \in [Entries -> Nat],
           InOrder(q, at), \A i \in 1 .. Len(q) : at[q[i]] < at[e]
    PROVE  /\ Append(q, e) \in Seq(Entries)
           /\ InOrder(Append(q, e), at)
           /\ \A d : Holds(Append(q, e), d) <=> Holds(q, d) \/ d = e
<1> DEFINE r == Append(q, e)
<1>1. /\ r \in Seq(Entries) /\ Len(r) = Len(q) + 1 /\ Len(q) \in Nat
      /\ \A i \in 1 .. Len(q) : r[i] = q[i]
      /\ r[Len(q) + 1] = e
  OBVIOUS
<1> HIDE DEF r
<1>2. InOrder(r, at)
  <2> SUFFICES ASSUME NEW i \in 1 .. Len(r), NEW j \in 1 .. Len(r), i < j
               PROVE  at[r[i]] < at[r[j]]
    BY DEF InOrder
  <2>1. i \in 1 .. Len(q)
    BY <1>1
  <2>2. CASE j \in 1 .. Len(q)
    BY <2>1, <2>2, <1>1 DEF InOrder
  <2>3. CASE j = Len(q) + 1
    BY <2>1, <2>3, <1>1
  <2>4. j \in 1 .. Len(q) \/ j = Len(q) + 1
    BY <1>1
  <2> QED
    BY <2>2, <2>3, <2>4
<1>3. ASSUME NEW d PROVE Holds(r, d) <=> Holds(q, d) \/ d = e
  <2>1. ASSUME NEW i \in 1 .. Len(r), r[i] = d PROVE Holds(q, d) \/ d = e
    <3>1. i \in 1 .. Len(q) \/ i = Len(q) + 1
      BY <1>1
    <3>2. CASE i \in 1 .. Len(q)
      BY <3>2, <2>1, <1>1 DEF Holds
    <3>3. CASE i = Len(q) + 1
      BY <3>3, <2>1, <1>1
    <3> QED
      BY <3>1, <3>2, <3>3
  <2>2. ASSUME NEW i \in 1 .. Len(q), q[i] = d PROVE Holds(r, d)
    <3>1. i \in 1 .. Len(r) /\ r[i] = d
      BY <2>2, <1>1
    <3> QED
      BY <3>1 DEF Holds
  <2>3. Holds(r, e)
    <3>1. Len(q) + 1 \in 1 .. Len(r)
      BY <1>1
    <3> QED
      BY <3>1, <1>1 DEF Holds
  <2> QED
    BY <2>1, <2>2, <2>3 DEF Holds
<1> QED
  BY <1>1, <1>2, <1>3 DEF r

\* The order of a queue only depends on the arrival times of what it holds.
LEMMA InOrderAgrees ==
    ASSUME NEW q \in Seq(Entries), NEW at, NEW bt, InOrder(q, at),
           \A d \in Entries : Holds(q, d) => at[d] = bt[d]
    PROVE  InOrder(q, bt)
<1> SUFFICES ASSUME NEW i \in 1 .. Len(q), NEW j \in 1 .. Len(q), i < j
             PROVE  bt[q[i]] < bt[q[j]]
  BY DEF InOrder
<1>1. q[i] \in Entries /\ q[j] \in Entries /\ Holds(q, q[i]) /\ Holds(q, q[j])
  BY DEF Holds
<1> QED
  BY <1>1 DEF InOrder

\* An accepted enqueue keeps the invariant: the new entry arrives last.
LEMMA EnqueueAcceptedStep ==
    ASSUME IInv, NEW e \in Entries, EnqueueAccepted(e)
    PROVE  /\ IInv'
           /\ \A k \in Lanes : ~ (activeTaskIds'[k] \subseteq activeTaskIds[k]) =>
                 Cardinality(activeTaskIds'[k]) <= maxConcurrent'[k]
<1> DEFINE l == laneOf[e]
           q == [queue EXCEPT ![l] = Append(@, e)]
           ph == [phase EXCEPT ![e] = "queued"]
           at == enqueuedAt'
<1>0. l \in Lanes /\ phase[e] = "new" /\ clock \in Nat /\ clock' = clock + 1
  BY DEF IInv, TypeOK, EnqueueAccepted
<1>1. ph \in [Entries -> Phases] /\ at \in [Entries -> Nat]
  BY <1>0 DEF IInv, TypeOK, Phases, EnqueueAccepted
<1>2. \A d \in Entries :
         /\ ph[d] = IF d = e THEN "queued" ELSE phase[d]
         /\ at[d] = IF d = e THEN clock ELSE enqueuedAt[d]
  BY DEF IInv, TypeOK, EnqueueAccepted
<1>3. \A k \in Lanes : q[k] = IF k = l THEN Append(queue[l], e) ELSE queue[k]
  BY DEF IInv, TypeOK
<1>4. \A k \in Lanes, d \in Entries : Holds(queue[k], d) <=> (phase[d] = "queued" /\ laneOf[d] = k)
  BY DEF IInv, Consistent
<1>5. \A d \in Entries : phase[d] \notin {"new", "refused"} => enqueuedAt[d] < clock
  BY DEF IInv
<1>6. q = [k \in Lanes |-> q[k]]
  BY DEF IInv, TypeOK
<1>7. DrainLanes({l}, q, activeTaskIds, maxConcurrent', generation', ph)
  BY DEF EnqueueAccepted
<1> HIDE DEF q, ph, at
<1>8. \A k \in Lanes : queue[k] \in Seq(Entries) /\ InOrder(queue[k], at)
  <2> SUFFICES ASSUME NEW k \in Lanes PROVE queue[k] \in Seq(Entries) /\ InOrder(queue[k], at)
    OBVIOUS
  <2>1. queue[k] \in Seq(Entries) /\ InOrder(queue[k], enqueuedAt)
    BY DEF IInv, TypeOK, Consistent
  <2>2. \A d \in Entries : Holds(queue[k], d) => enqueuedAt[d] = at[d]
    BY <1>0, <1>2, <1>4
  <2> QED
    BY <2>1, <2>2, InOrderAgrees
<1>9. /\ Append(queue[l], e) \in Seq(Entries)
      /\ InOrder(Append(queue[l], e), at)
      /\ \A d : Holds(Append(queue[l], e), d) <=> Holds(queue[l], d) \/ d = e
  <2>1. queue[l] \in Seq(Entries) /\ InOrder(queue[l], at)
    BY <1>0, <1>8
  <2>2. \A i \in 1 .. Len(queue[l]) : at[queue[l][i]] < at[e]
    <3> SUFFICES ASSUME NEW i \in 1 .. Len(queue[l]) PROVE at[queue[l][i]] < at[e]
      OBVIOUS
    <3>1. queue[l][i] \in Entries /\ Holds(queue[l], queue[l][i])
      BY <2>1 DEF Holds
    <3>2. phase[queue[l][i]] = "queued"
      BY <3>1, <1>0, <1>4
    <3> QED
      BY <3>1, <3>2, <1>0, <1>2, <1>5
  <2> QED
    BY <2>1, <2>2, <1>1, AppendInOrder
<1>10. Consistent(q, activeTaskIds, generation, ph, taskGeneration, at)
  <2>1. \A k \in Lanes : InOrder(q[k], at)
    BY <1>3, <1>8, <1>9
  <2>2. \A d \in Entries, k \in Lanes : Holds(q[k], d) <=> (ph[d] = "queued" /\ laneOf[d] = k)
    BY <1>0, <1>2, <1>3, <1>4, <1>9
  <2>3. \A d \in Entries, k \in Lanes :
          d \in activeTaskIds[k]
            <=> (ph[d] = "running" /\ laneOf[d] = k /\ taskGeneration[d] = generation[k])
    <3>1. \A d \in Entries, k \in Lanes :
            d \in activeTaskIds[k]
              <=> (phase[d] = "running" /\ laneOf[d] = k /\ taskGeneration[d] = generation[k])
      BY DEF IInv, Consistent
    <3> QED
      BY <3>1, <1>0, <1>2
  <2>4. \A d, f \in Entries :
          ph[d] = "queued" /\ ph[f] \notin {"new", "refused"}
            /\ laneOf[d] = laneOf[f] /\ at[d] < at[f]
          => ph[f] = "queued"
    <3> SUFFICES ASSUME NEW d \in Entries, NEW f \in Entries,
                        ph[d] = "queued", ph[f] \notin {"new", "refused"},
                        laneOf[d] = laneOf[f], at[d] < at[f], f # e
                 PROVE  ph[f] = "queued"
      BY <1>2
    <3>1. phase[f] \notin {"new", "refused"} /\ at[f] = enqueuedAt[f] /\ enqueuedAt[f] < clock
      BY <1>2, <1>5
    <3>2. d # e
      <4>1. at[e] = clock /\ enqueuedAt[f] \in Nat
        BY <1>2 DEF IInv, TypeOK
      <4> QED
        BY <4>1, <3>1, <1>0
    <3>3. phase[d] = "queued" /\ enqueuedAt[d] < enqueuedAt[f]
      BY <3>1, <3>2, <1>2
    <3>4. phase[f] = "queued"
      BY <3>1, <3>3 DEF IInv, Consistent
    <3> QED
      BY <3>4, <1>2
  <2>5. /\ \A k \in Lanes : IsFiniteSet(activeTaskIds[k])
        /\ \A d \in Entries : ph[d] = "running" => taskGeneration[d] <= generation[laneOf[d]]
    BY <1>2 DEF IInv, Consistent
  <2> QED
    BY <2>1, <2>2, <2>3, <2>4, <2>5 DEF Consistent
<1>11. Ready({l}, q, activeTaskIds, ph)
  <2>1. Consistent(q, activeTaskIds, generation', ph, taskGeneration, enqueuedAt')
    BY <1>10 DEF EnqueueAccepted, at
  <2>2. \A k \in Lanes : generation[k] <= generation'[k]
    BY DEF IInv, TypeOK, EnqueueAccepted
  <2>3. \A d \in Entries :
           /\ ph[d] \notin {"new", "refused"} => enqueuedAt'[d] < clock'
           /\ phase[d] = "running" => ph[d] \in {"running", "settled"}
           /\ phase[d] = "settled" => ph[d] = "settled"
    <3> SUFFICES ASSUME NEW d \in Entries
                 PROVE  /\ ph[d] \notin {"new", "refused"} => enqueuedAt'[d] < clock'
                        /\ phase[d] = "running" => ph[d] \in {"running", "settled"}
                        /\ phase[d] = "settled" => ph[d] = "settled"
      OBVIOUS
    <3>1. enqueuedAt[d] \in Nat /\ enqueuedAt'[d] = IF d = e THEN clock ELSE enqueuedAt[d]
      BY <1>2 DEF IInv, TypeOK, at
    <3> QED
      BY <3>1, <1>0, <1>2, <1>5
  <2>4. \A k \in Lanes \ {l} : Full(q, activeTaskIds, maxConcurrent', k)
    BY <1>3 DEF IInv, Full, EnqueueAccepted
  <2>5. q \in [Lanes -> Seq(Entries)]
    <3>1. \A k \in Lanes : q[k] \in Seq(Entries)
      BY <1>3, <1>8, <1>9
    <3> QED
      BY <3>1, <1>6
  <2>6. lanes' \in SUBSET Lanes
    BY <1>0 DEF IInv, TypeOK, EnqueueAccepted
  <2> QED
    BY <1>0, <1>1, <2>1, <2>2, <2>3, <2>4, <2>5, <2>6 DEF Ready, IInv, TypeOK, EnqueueAccepted, at
<1>12. /\ IInv'
       /\ \A k \in {l} : ~ (activeTaskIds'[k] \subseteq activeTaskIds[k]) =>
             Cardinality(activeTaskIds'[k]) <= maxConcurrent'[k]
       /\ \A k \in Lanes \ {l} : activeTaskIds'[k] = activeTaskIds[k]
  <2>1. {l} \in SUBSET Lanes
    BY <1>0
  <2> QED
    BY <1>11, <1>7, <2>1, DrainStep, ZenonT(30)
<1> QED
  BY <1>12

\* A reset keeps the invariant: no running task is of the new generation.
LEMMA ResetAllLanesStep ==
    ASSUME IInv, ResetAllLanes
    PROVE  /\ IInv'
           /\ \A k \in Lanes : ~ (activeTaskIds'[k] \subseteq activeTaskIds[k]) =>
                 Cardinality(activeTaskIds'[k]) <= maxConcurrent'[k]
<1> DEFINE ls == {l \in lanes : queue[l] # <<>>}
           none == [l \in Lanes |-> IF l \in lanes THEN {} ELSE activeTaskIds[l]]
<1>1. \A l \in Lanes : generation'[l] = IF l \in lanes THEN generation[l] + 1 ELSE generation[l]
  BY DEF ResetAllLanes
<1>2. \A l \in Lanes : none[l] = IF l \in lanes THEN {} ELSE activeTaskIds[l]
  OBVIOUS
<1>3. /\ none \in [Lanes -> SUBSET Entries]
      /\ generation' \in [Lanes -> Nat]
      /\ ls \in SUBSET Lanes
  BY DEF IInv, TypeOK, ResetAllLanes
<1>4. DrainLanes(ls, queue, none, maxConcurrent', generation', phase)
  BY DEF ResetAllLanes
<1> HIDE DEF none
<1>5. Consistent(queue, none, generation', phase, taskGeneration, enqueuedAt)
  <2>1. \A e \in Entries, l \in Lanes :
          e \in none[l]
             <=> (phase[e] = "running" /\ laneOf[e] = l /\ taskGeneration[e] = generation'[l])
    <3> SUFFICES ASSUME NEW e \in Entries, NEW l \in Lanes
                 PROVE  e \in none[l] <=> (phase[e] = "running" /\ laneOf[e] = l
                                             /\ taskGeneration[e] = generation'[l])
      OBVIOUS
    <3>1. e \in activeTaskIds[l] <=> (phase[e] = "running" /\ laneOf[e] = l
                                             /\ taskGeneration[e] = generation[l])
      BY DEF IInv, Consistent
    <3>2. phase[e] = "running" => taskGeneration[e] <= generation[laneOf[e]]
      BY DEF IInv, Consistent
    <3>3. taskGeneration[e] \in Nat /\ generation[l] \in Nat
      BY DEF IInv, TypeOK
    <3> QED
      BY <3>1, <3>2, <3>3, <1>1, <1>2
  <2>2. \A l \in Lanes : IsFiniteSet(none[l])
    BY <1>2, FS_EmptySet DEF IInv, Consistent
  <2>3. \A e \in Entries : phase[e] = "running" => taskGeneration[e] <= generation'[laneOf[e]]
    <3> SUFFICES ASSUME NEW e \in Entries, phase[e] = "running"
                 PROVE  taskGeneration[e] <= generation'[laneOf[e]]
      OBVIOUS
    <3>1. /\ taskGeneration[e] <= generation[laneOf[e]] /\ laneOf[e] \in Lanes
          /\ taskGeneration[e] \in Nat /\ generation[laneOf[e]] \in Nat
      BY DEF IInv, TypeOK, Consistent
    <3> QED
      BY <3>1, <1>1
  <2> QED
    BY <2>1, <2>2, <2>3 DEF IInv, Consistent
<1>6. Ready(ls, queue, none, phase)
  <2>1. Consistent(queue, none, generation', phase, taskGeneration, enqueuedAt')
    BY <1>5 DEF ResetAllLanes
  <2>2. \A k \in Lanes : generation[k] <= generation'[k]
    <3> SUFFICES ASSUME NEW k \in Lanes PROVE generation[k] <= generation'[k]
      OBVIOUS
    <3>1. generation[k] \in Nat
      BY DEF IInv, TypeOK
    <3> QED
      BY <3>1, <1>1
  <2>3. \A k \in Lanes \ ls : Full(queue, none, maxConcurrent', k)
    BY <1>2 DEF IInv, Full, ResetAllLanes
  <2> QED
    BY <1>3, <2>1, <2>2, <2>3 DEF Ready, IInv, TypeOK, ResetAllLanes
<1>7. /\ IInv'
      /\ \A k \in ls : ~ (activeTaskIds'[k] \subseteq none[k]) =>
            Cardinality(activeTaskIds'[k]) <= maxConcurrent'[k]
      /\ \A k \in Lanes \ ls : activeTaskIds'[k] = none[k]
  <2> HIDE DEF ls
  <2> QED
    BY <1>3, <1>4, <1>6, DrainStep, ZenonT(30)
<1> QED
  BY <1>2, <1>7

\* Raising the drain flag keeps the invariant.
LEMMA MarkGatewayDrainingStep ==
    ASSUME IInv, MarkGatewayDraining
    PROVE  IInv' /\ activeTaskIds' = activeTaskIds
  BY DEF IInv, MarkGatewayDraining, TypeOK, Consistent, Full, DrainedMeansSettled, InOrder, Holds

\* The poll of waitForActiveTasks keeps the invariant.
LEMMA WaitStep ==
    ASSUME IInv, NEW expired \in BOOLEAN, StartWait(expired) \/ PollWait(expired)
    PROVE  IInv' /\ activeTaskIds' = activeTaskIds
<1>0. laneVars' = laneVars
  BY DEF StartWait, PollWait
<1>1. TypeOK'
  <2>1. wait \in [state : WaitStates, activeAtStart : SUBSET Entries]
    BY DEF IInv, TypeOK
  <2>2. AllActive \subseteq Entries
    BY DEF IInv, TypeOK, AllActive
  <2>3. StartWait(expired) => wait' \in [state : WaitStates, activeAtStart : SUBSET Entries]
    BY <2>2 DEF StartWait, WaitStates
  <2>4. PollWait(expired) => wait' \in [state : WaitStates, activeAtStart : SUBSET Entries]
    BY <2>1 DEF PollWait, WaitStates
  <2>5. wait' \in [state : WaitStates, activeAtStart : SUBSET Entries]
    BY <2>3, <2>4
  <2> QED
    BY <1>0, <2>5 DEF IInv, TypeOK, laneVars
<1>2. \A e \in Entries : e \in AllActive <=>
         (phase[e] = "running" /\ taskGeneration[e] = generation[laneOf[e]])
  BY DEF IInv, TypeOK, Consistent, AllActive
<1>3. /\ wait'.activeAtStart \in {AllActive, wait.activeAtStart}
      /\ wait'.state = "drained" => wait'.activeAtStart \cap AllActive = {}
  <2>1. CASE StartWait(expired)
    <3>1. wait'.activeAtStart = AllActive
      BY <2>1 DEF StartWait
    <3>2. wait'.state = "drained" => AllActive = {}
      BY <2>1 DEF StartWait
    <3> QED
      BY <3>1, <3>2
  <2>2. CASE PollWait(expired)
    <3>1. wait \in [state : WaitStates, activeAtStart : SUBSET Entries]
      BY DEF IInv, TypeOK
    <3>2. wait'.activeAtStart = wait.activeAtStart
      BY <2>2, <3>1 DEF PollWait
    <3>3. wait'.state = "drained" => wait.activeAtStart \cap AllActive = {}
      BY <2>2, <3>1 DEF PollWait
    <3> QED
      BY <3>2, <3>3
  <2> QED
    BY <2>1, <2>2
<1>4. \A e \in wait'.activeAtStart : e \in Entries /\ phase[e] \in {"running", "settled"}
  <2>1. \A e \in AllActive : e \in Entries
    BY DEF IInv, TypeOK, AllActive
  <2>2. \A e \in wait.activeAtStart : e \in Entries /\ phase[e] \in {"running", "settled"}
    BY DEF IInv, TypeOK
  <2> QED
    BY <1>2, <1>3, <2>1, <2>2
<1>5. DrainedMeansSettled'
  <2> SUFFICES ASSUME wait'.state = "drained", NEW e \in wait'.activeAtStart, phase[e] = "running"
               PROVE  taskGeneration[e] < generation[laneOf[e]]
    BY <1>0 DEF DrainedMeansSettled, laneVars
  <2>1. e \in Entries /\ e \notin AllActive
    BY <1>3, <1>4
  <2>2. /\ taskGeneration[e] # generation[laneOf[e]]
        /\ taskGeneration[e] <= generation[laneOf[e]]
        /\ taskGeneration[e] \in Nat /\ generation[laneOf[e]] \in Nat
    BY <2>1, <1>2 DEF IInv, TypeOK, Consistent
  <2> QED
    BY <2>2
<1>6. /\ Consistent(queue, activeTaskIds, generation, phase, taskGeneration, enqueuedAt)'
      /\ (\A l \in Lanes : Full(queue, activeTaskIds, maxConcurrent, l))'
      /\ (\A e \in Entries : phase[e] \notin {"new", "refused"} => enqueuedAt[e] < clock)'
  BY <1>0 DEF IInv, Consistent, Full, InOrder, Holds, laneVars
<1>7. (\A e \in wait.activeAtStart : phase[e] \in {"running", "settled"})'
  BY <1>0, <1>4 DEF laneVars
<1> QED
  BY <1>0, <1>1, <1>5, <1>6, <1>7 DEF IInv, laneVars

-----------------------------------------------------------------------------
(* The theorems *)

\* A step starts tasks on no lane beyond the lane's cap.
CapKept == \A l \in Lanes : ~ (activeTaskIds'[l] \subseteq activeTaskIds[l]) =>
              Cardinality(activeTaskIds'[l]) <= maxConcurrent'[l]

\* Every step, one lemma per operation, keeps the invariant and the caps.
LEMMA NextStep == IInv /\ Next => IInv' /\ CapKept
<1> SUFFICES ASSUME IInv, Next PROVE IInv' /\ CapKept
  OBVIOUS
<1>1. ASSUME NEW e \in Entries, EnqueueRefused(e) PROVE IInv' /\ CapKept
  BY <1>1, EnqueueRefusedStep DEF CapKept
<1>2. ASSUME NEW e \in Entries, EnqueueAccepted(e) PROVE IInv' /\ CapKept
  BY <1>2, EnqueueAcceptedStep DEF CapKept
<1>3. ASSUME NEW e \in Entries, SettleCurrent(e) PROVE IInv' /\ CapKept
  BY <1>3, SettleCurrentStep DEF CapKept
<1>4. ASSUME NEW e \in Entries, SettleStale(e) PROVE IInv' /\ CapKept
  BY <1>4, SettleStaleStep DEF CapKept
<1>5. ASSUME NEW l \in Lanes, NEW n \in 0 .. MaxConcurrency, SetConcurrency(l, n)
      PROVE  IInv' /\ CapKept
  <2>1. n \in Nat
    BY MaxConcurrencyAssumption
  <2> QED
    BY <2>1, <1>5, SetConcurrencyStep DEF CapKept
<1>6. ASSUME NEW l \in Lanes, ClearLane(l) PROVE IInv' /\ CapKept
  BY <1>6, ClearLaneStep DEF CapKept
<1>7. CASE MarkGatewayDraining
  BY <1>7, MarkGatewayDrainingStep DEF CapKept
<1>8. CASE ResetAllLanes
  BY <1>8, ResetAllLanesStep DEF CapKept
<1>9. ASSUME NEW expired \in BOOLEAN, StartWait(expired) \/ PollWait(expired)
      PROVE  IInv' /\ CapKept
  BY <1>9, WaitStep DEF CapKept
<1> QED
  BY <1>1, <1>2, <1>3, <1>4, <1>5, <1>6, <1>7, <1>8, <1>9 DEF Next, Enqueue, Settle

\* A stuttering step keeps the invariant.
LEMMA StutterStep == IInv /\ UNCHANGED vars => IInv'
  BY DEF IInv, TypeOK, Consistent, Full, InOrder, Holds, DrainedMeansSettled, vars, laneVars

\* IInv is inductive.
THEOREM Invariance == Spec => []IInv
<1>1. IInv /\ [Next]_vars => IInv'
  BY NextStep, StutterStep
<1> QED
  BY <1>1, InitIInv, PTL DEF Spec

\* Every variable keeps its type: the queues stay sequences of entries, the
\* caps positive (setCommandLaneConcurrency rounds 0 up to 1).
THEOREM TypeCorrect == Spec => []TypeOK
  BY Invariance, PTL DEF IInv

\* The lane's queue and active ids are exactly its queued entries and its current
\* generation's running tasks: no completion is counted twice or for a successor.
THEOREM BookkeepingIsExact == Spec => []BookkeepingExact
<1>1. IInv => BookkeepingExact
  BY DEF IInv, Consistent, BookkeepingExact, InQueue, Holds
<1> QED
  BY <1>1, Invariance, PTL

\* No lost wakeup: between turns an entry waits only on a lane that is full.
THEOREM LanesAreWorkConserving == Spec => []WorkConserving
<1>1. IInv => WorkConserving
  BY DEF IInv, Full, WorkConserving
<1> QED
  BY <1>1, Invariance, PTL

\* FIFO per lane, over clears, cap changes and resets.
THEOREM NothingOvertakes == Spec => []NoOvertaking
<1>1. IInv => NoOvertaking
  BY DEF IInv, Consistent, NoOvertaking
<1> QED
  BY <1>1, Invariance, PTL

\* waitForActiveTasks answers "drained" only when the tasks of its snapshot have
\* settled or belong to a generation a reset has disowned.
THEOREM DrainedIsSound == Spec => []DrainedMeansSettled
  BY Invariance, PTL DEF IInv

\* No step starts a task on a lane whose cap is then exceeded.
THEOREM StartsStayWithinCap == Spec => StartsWithinCap
<1>1. IInv /\ [Next]_vars => [CapKept]_vars
  BY NextStep
<1> QED
  BY <1>1, Invariance, PTL DEF Spec, StartsWithinCap, CapKept

=============================================================================
