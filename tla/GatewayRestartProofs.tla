------------------------ MODULE GatewayRestartProofs ------------------------
(***************************************************************************)
(* Proofs about GatewayRestart for every set of requests and sessions,     *)
(* every cap of the main lane and every number of attempts and restarts.   *)
(*                                                                         *)
(* The lanes are those of CommandLanes, so what CommandLanesProofs shows   *)
(* of them is used here as it stands, under the substitution of Q: it is   *)
(* the instance P.  What is added is how a request's entries depend on     *)
(* each other, and how the run loop's restart depends on the lanes.        *)
(***************************************************************************)
EXTENDS GatewayRestart, TLAPS

P == INSTANCE CommandLanesProofs WITH
        Lanes <- Sessions \cup GlobalLanes,
        Entries <- RunEntries,
        MaxConcurrency <- MainCap,
        MaxGeneration <- MaxRestarts

AllLanes == Sessions \cup GlobalLanes

-----------------------------------------------------------------------------
(* The chain of entries of a request *)

\* A cron run holds three entries and a message two; the last two of either are
\* the session's entry and the body, on the session's lane and on a global one.
LEMMA ChainOf ==
    ASSUME NEW r \in Requests
    PROVE  /\ r \in CronRuns => /\ Len(Chain(r)) = 3
                                /\ Outermost(r) = <<r, 1>>
                                /\ SessionEntry(r) = <<r, 2>>
                                /\ Body(r) = <<r, 3>>
           /\ r \notin CronRuns => /\ Len(Chain(r)) = 2
                                   /\ Outermost(r) = <<r, 1>>
                                   /\ SessionEntry(r) = <<r, 1>>
                                   /\ Body(r) = <<r, 2>>
           /\ \A i \in 1 .. Len(Chain(r)) : Chain(r)[i] \in AllLanes
           /\ Chain(r)[Len(Chain(r)) - 1] = sessionOf[r]
<1>1. sessionOf[r] \in Sessions
  BY SessionOfAssumption DEF Requests
<1>2. CASE r \in CronRuns
  <2>1. Chain(r) = <<"cron", sessionOf[r], "nested">>
    BY <1>2 DEF Chain, ResolveGlobalLane
  <2> QED
    BY <1>1, <1>2, <2>1 DEF Outermost, SessionEntry, Body, AllLanes, GlobalLanes
<1>3. CASE r \notin CronRuns
  <2>1. Chain(r) = <<sessionOf[r], "main">>
    BY <1>3 DEF Chain, ResolveGlobalLane
  <2> QED
    BY <1>1, <1>3, <2>1 DEF Outermost, SessionEntry, Body, AllLanes, GlobalLanes
<1> QED
  BY <1>2, <1>3

\* The entries of a request are entries, and those of two requests are different.
LEMMA EntriesOf ==
    ASSUME NEW r \in Requests
    PROVE  /\ Outermost(r) \in RunEntries
           /\ SessionEntry(r) \in RunEntries
           /\ Body(r) \in RunEntries
           /\ Body(r) # SessionEntry(r)
           /\ Body(r) # Outermost(r)
           /\ r \in CronRuns => Outermost(r) # SessionEntry(r)
           /\ \A s \in Requests \ {r} :
                 {Outermost(s), SessionEntry(s), Body(s)}
                     \cap {Outermost(r), SessionEntry(r), Body(r)} = {}
<1>1. \A i \in 1 .. Len(Chain(r)) : <<r, i>> \in RunEntries
  BY DEF RunEntries
<1>2. ASSUME NEW s \in Requests \ {r}, NEW i \in {1, 2, 3}, NEW j \in {1, 2, 3}
      PROVE  <<s, i>> # <<r, j>>
  OBVIOUS
<1>3. ASSUME NEW s \in Requests
      PROVE  {Outermost(s), SessionEntry(s), Body(s)} \subseteq {<<s, 1>>, <<s, 2>>, <<s, 3>>}
  <2>1. CASE s \in CronRuns
    BY <2>1, ChainOf
  <2>2. CASE s \notin CronRuns
    BY <2>2, ChainOf
  <2> QED
    BY <2>1, <2>2
<1>4. \A s \in Requests \ {r} :
          {Outermost(s), SessionEntry(s), Body(s)}
              \cap {Outermost(r), SessionEntry(r), Body(r)} = {}
  <2> SUFFICES ASSUME NEW s \in Requests \ {r},
                      NEW x \in {Outermost(s), SessionEntry(s), Body(s)},
                      x \in {Outermost(r), SessionEntry(r), Body(r)}
               PROVE  FALSE
    OBVIOUS
  <2>1. PICK i \in {1, 2, 3} : x = <<s, i>>
    BY <1>3
  <2>2. PICK j \in {1, 2, 3} : x = <<r, j>>
    BY <1>3
  <2> QED
    BY <2>1, <2>2, <1>2
<1>5. CASE r \in CronRuns
  <2>1. /\ Len(Chain(r)) = 3 /\ Outermost(r) = <<r, 1>>
        /\ SessionEntry(r) = <<r, 2>> /\ Body(r) = <<r, 3>>
    BY <1>5, ChainOf
  <2>2. <<r, 1>> \in RunEntries /\ <<r, 2>> \in RunEntries /\ <<r, 3>> \in RunEntries
    BY <1>1, <2>1
  <2> QED
    BY <1>4, <2>1, <2>2
<1>6. CASE r \notin CronRuns
  <2>1. /\ Len(Chain(r)) = 2 /\ Outermost(r) = <<r, 1>>
        /\ SessionEntry(r) = <<r, 1>> /\ Body(r) = <<r, 2>>
    BY <1>6, ChainOf
  <2>2. <<r, 1>> \in RunEntries /\ <<r, 2>> \in RunEntries
    BY <1>1, <2>1
  <2> QED
    BY <1>4, <1>6, <2>1, <2>2
<1> QED
  BY <1>5, <1>6

\* The entries' lanes, as Init lays them down.
LaneTable == [e \in RunEntries |-> Chain(e[1])[e[2]]]

LEMMA LaneTableTyped == LaneTable \in [RunEntries -> AllLanes]
<1> SUFFICES ASSUME NEW e \in RunEntries PROVE Chain(e[1])[e[2]] \in AllLanes
  BY DEF LaneTable
<1>1. PICK r \in Requests : e \in {<<r, i>> : i \in 1 .. Len(Chain(r))}
  BY DEF RunEntries
<1>2. PICK i \in 1 .. Len(Chain(r)) : e = <<r, i>>
  BY <1>1
<1> QED
  BY <1>2, ChainOf

\* A session's entry is on the lane of its session.
LEMMA SessionLane ==
    ASSUME NEW r \in Requests
    PROVE  LaneTable[SessionEntry(r)] = sessionOf[r]
<1>1. SessionEntry(r) = <<r, Len(Chain(r)) - 1>> /\ SessionEntry(r) \in RunEntries
  BY EntriesOf DEF SessionEntry
<1> QED
  BY <1>1, ChainOf DEF LaneTable

-----------------------------------------------------------------------------
(* The lanes, as CommandLanesProofs knows them *)

\* What CommandLanes assumes of its bounds holds here.
LEMMA LanesBounds == P!MaxConcurrencyAssumption /\ P!MaxGenerationAssumption
  BY BoundsAssumption DEF P!MaxConcurrencyAssumption, P!MaxGenerationAssumption

\* P has the lanes of Q: the same initial states, drains and steps.
LEMMA SameInit == Q!Init <=> P!Init
  BY DEF Q!Init, P!Init

LEMMA SameDrain ==
    ASSUME NEW ls, NEW q, NEW a, NEW c, NEW g, NEW ph
    PROVE  Q!DrainLanes(ls, q, a, c, g, ph) = P!DrainLanes(ls, q, a, c, g, ph)
  BY DEF Q!DrainLanes, P!DrainLanes, Q!Pumped, P!Pumped, Q!Unpumped, P!Unpumped,
         Q!PumpCount, P!PumpCount, Q!Cardinality, P!Cardinality

LEMMA SameNext == Q!Next = P!Next
  BY DEF Q!Next, P!Next, Q!Enqueue, P!Enqueue, Q!EnqueueRefused, P!EnqueueRefused,
         Q!EnqueueAccepted, P!EnqueueAccepted, Q!Settle, P!Settle,
         Q!SettleCurrent, P!SettleCurrent, Q!SettleStale, P!SettleStale,
         Q!SetConcurrency, P!SetConcurrency, Q!ClearLane, P!ClearLane,
         Q!MarkGatewayDraining, P!MarkGatewayDraining, Q!ResetAllLanes, P!ResetAllLanes,
         Q!StartWait, P!StartWait, Q!PollWait, P!PollWait, Q!AllActive, P!AllActive,
         Q!laneVars, P!laneVars, Q!DrainLanes, P!DrainLanes, Q!Pumped, P!Pumped,
         Q!Unpumped, P!Unpumped, Q!PumpCount, P!PumpCount, Q!Cardinality, P!Cardinality

\* A step of the lanes keeps their invariant and starts no task beyond a cap.
LEMMA LanesStep == ASSUME P!IInv, Q!Next PROVE P!IInv' /\ P!CapKept
  BY SameNext, LanesBounds, P!NextStep

\* A step that leaves the lanes alone keeps it, too.
LEMMA LanesStutter == ASSUME P!IInv, UNCHANGED queueVars PROVE P!IInv'
<1>1. UNCHANGED P!vars
  BY DEF queueVars, P!vars, P!laneVars
<1> QED
  BY <1>1, LanesBounds, P!StutterStep

\* What happens to an entry by steps that are about other entries: nothing, or it
\* is started or cleared when it was queued.
Kept(x) ==
    \/ phase'[x] = phase[x] /\ taskGeneration'[x] = taskGeneration[x]
    \/ phase[x] = "queued" /\ phase'[x] \in {"running", "cleared"}

\* What a drain finds: on the queues q nothing but entries that ph has as queued.
Drainable(q, a, c, ph) ==
    /\ laneOf \in [RunEntries -> AllLanes]
    /\ \A l \in AllLanes : /\ q[l] \in Seq(RunEntries)
                           /\ P!IsFiniteSet(a[l])
                           /\ c[l] \in Nat
    /\ \A l \in AllLanes : \A i \in 1 .. Len(q[l]) : ph[q[l][i]] = "queued"

\* A drain starts entries that were queued, and touches no other.
LEMMA DrainMoves ==
    ASSUME NEW ls, NEW q, NEW a, NEW c, NEW g, NEW ph,
           Drainable(q, a, c, ph),
           Q!DrainLanes(ls, q, a, c, g, ph)
    PROVE  \A x \in RunEntries :
              \/ phase'[x] = ph[x] /\ taskGeneration'[x] = taskGeneration[x]
              \/ ph[x] = "queued" /\ phase'[x] = "running"
<1> USE DEF Drainable
<1> DEFINE started(l) == IF l \in ls THEN P!Pumped(q[l], a[l], c[l]) ELSE {}
<1>1. /\ phase' = [e \in RunEntries |->
                      IF e \in started(laneOf[e]) THEN "running" ELSE ph[e]]
      /\ taskGeneration' = [e \in RunEntries |->
                      IF e \in started(laneOf[e]) THEN g[laneOf[e]] ELSE taskGeneration[e]]
  BY SameDrain DEF P!DrainLanes
<1> SUFFICES ASSUME NEW x \in RunEntries
             PROVE  \/ phase'[x] = ph[x] /\ taskGeneration'[x] = taskGeneration[x]
                    \/ ph[x] = "queued" /\ phase'[x] = "running"
  OBVIOUS
<1>2. laneOf[x] \in AllLanes
  OBVIOUS
<1>3. ASSUME x \in P!Pumped(q[laneOf[x]], a[laneOf[x]], c[laneOf[x]]) PROVE ph[x] = "queued"
  <2>1. P!PumpCount(q[laneOf[x]], a[laneOf[x]], c[laneOf[x]]) \in 0 .. Len(q[laneOf[x]])
    BY <1>2, LanesBounds, P!PumpSplits
  <2>2. PICK i \in 1 .. P!PumpCount(q[laneOf[x]], a[laneOf[x]], c[laneOf[x]]) :
                x = q[laneOf[x]][i]
    BY <1>3 DEF P!Pumped
  <2>3. i \in 1 .. Len(q[laneOf[x]])
    BY <1>2, <2>1, <2>2
  <2> QED
    BY <1>2, <2>2, <2>3
<1> QED
  BY <1>1, <1>3

\* What the invariant of the lanes says of their queues.
LEMMA LanesTyped ==
    ASSUME P!IInv
    PROVE  /\ laneOf \in [RunEntries -> AllLanes]
           /\ phase \in [RunEntries -> Q!Phases]
           /\ queue \in [AllLanes -> Seq(RunEntries)]
           /\ activeTaskIds \in [AllLanes -> SUBSET RunEntries]
           /\ maxConcurrent \in [AllLanes -> Nat \ {0}]
           /\ taskGeneration \in [RunEntries -> Nat]
           /\ generation \in [AllLanes -> Nat]
           /\ \A l \in AllLanes : P!IsFiniteSet(activeTaskIds[l])
           /\ \A l \in AllLanes : \A i \in 1 .. Len(queue[l]) :
                 queue[l][i] \in RunEntries /\ phase[queue[l][i]] = "queued"
<1>1. P!TypeOK /\ P!Consistent(queue, activeTaskIds, generation, phase,
                               taskGeneration, enqueuedAt)
  BY DEF P!IInv
<1>2. /\ laneOf \in [RunEntries -> AllLanes]
      /\ phase \in [RunEntries -> Q!Phases]
      /\ queue \in [AllLanes -> Seq(RunEntries)]
      /\ activeTaskIds \in [AllLanes -> SUBSET RunEntries]
      /\ maxConcurrent \in [AllLanes -> Nat \ {0}]
      /\ taskGeneration \in [RunEntries -> Nat]
      /\ generation \in [AllLanes -> Nat]
  BY <1>1 DEF P!TypeOK, AllLanes, P!Phases, Q!Phases
<1>3. \A l \in AllLanes : P!IsFiniteSet(activeTaskIds[l])
  BY <1>1 DEF P!Consistent, AllLanes
<1>4. ASSUME NEW l \in AllLanes, NEW i \in 1 .. Len(queue[l])
      PROVE  queue[l][i] \in RunEntries /\ phase[queue[l][i]] = "queued"
  <2>1. queue[l][i] \in RunEntries
    BY <1>2
  <2>2. P!Holds(queue[l], queue[l][i])
    BY DEF P!Holds
  <2> QED
    BY <1>1, <2>1, <2>2 DEF P!Consistent, AllLanes
<1> QED
  BY <1>2, <1>3, <1>4

\* enqueueCommandInLane of e: refused while the gateway drains.
LEMMA EnqueueMoves ==
    ASSUME P!IInv, NEW e \in RunEntries, Q!Enqueue(e)
    PROVE  /\ phase[e] = "new"
           /\ phase'[e] \in {"refused", "queued", "running"}
           /\ gatewayDraining => phase'[e] = "refused"
           /\ \A x \in RunEntries \ {e} : Kept(x)
           /\ UNCHANGED <<gatewayDraining, maxConcurrent, generation, laneOf, wait>>
<1> USE LanesTyped
<1>1. CASE Q!EnqueueRefused(e)
  BY <1>1 DEF Q!EnqueueRefused, Kept
<1>2. CASE Q!EnqueueAccepted(e)
  <2> DEFINE q == [queue EXCEPT ![laneOf[e]] = Append(@, e)]
             ph == [phase EXCEPT ![e] = "queued"]
  <2>1. /\ phase[e] = "new"
        /\ ~ gatewayDraining
        /\ Q!DrainLanes({laneOf[e]}, q, activeTaskIds, maxConcurrent, generation, ph)
        /\ UNCHANGED <<gatewayDraining, maxConcurrent, generation, laneOf, wait>>
    BY <1>2 DEF Q!EnqueueAccepted
  <2>2. \A l \in AllLanes : /\ q[l] \in Seq(RunEntries)
                            /\ P!IsFiniteSet(activeTaskIds[l])
                            /\ maxConcurrent[l] \in Nat
    OBVIOUS
  <2>3. ASSUME NEW l \in AllLanes, NEW i \in 1 .. Len(q[l]) PROVE ph[q[l][i]] = "queued"
    <3>1. CASE i \in 1 .. Len(queue[l])
      <4>1. q[l][i] = queue[l][i]
        BY <3>1
      <4> QED
        BY <3>1, <4>1
    <3>2. CASE i \notin 1 .. Len(queue[l])
      <4>1. q[l][i] = e
        BY <3>2
      <4> QED
        BY <4>1
    <3> QED
      BY <3>1, <3>2
  <2>4. Drainable(q, activeTaskIds, maxConcurrent, ph)
    BY <2>2, <2>3 DEF Drainable
  <2> HIDE DEF q, ph
  <2>5. \A x \in RunEntries :
           \/ phase'[x] = ph[x] /\ taskGeneration'[x] = taskGeneration[x]
           \/ ph[x] = "queued" /\ phase'[x] = "running"
    BY <2>1, <2>4, DrainMoves, ZenonT(30)
  <2> QED
    BY <2>1, <2>5 DEF Kept, ph
<1> QED
  BY <1>1, <1>2 DEF Q!Enqueue

\* The task of e resolves or rejects.
LEMMA SettleMoves ==
    ASSUME P!IInv, NEW e \in RunEntries, Q!Settle(e)
    PROVE  /\ phase[e] = "running"
           /\ phase'[e] = "settled"
           /\ \A x \in RunEntries \ {e} : Kept(x)
           /\ UNCHANGED <<gatewayDraining, maxConcurrent, generation, laneOf, wait>>
<1> USE LanesTyped
<1>1. CASE Q!SettleStale(e)
  BY <1>1 DEF Q!SettleStale, Kept
<1>2. CASE Q!SettleCurrent(e)
  <2> DEFINE a == [activeTaskIds EXCEPT ![laneOf[e]] = @ \ {e}]
             ph == [phase EXCEPT ![e] = "settled"]
  <2>1. /\ phase[e] = "running"
        /\ Q!DrainLanes({laneOf[e]}, queue, a, maxConcurrent, generation, ph)
        /\ UNCHANGED <<gatewayDraining, maxConcurrent, generation, laneOf, wait>>
    BY <1>2 DEF Q!SettleCurrent
  <2>2. ASSUME NEW l \in AllLanes
        PROVE  /\ queue[l] \in Seq(RunEntries)
               /\ P!IsFiniteSet(a[l])
               /\ maxConcurrent[l] \in Nat
    <3>1. P!IsFiniteSet(activeTaskIds[l])
      OBVIOUS
    <3>2. P!IsFiniteSet(activeTaskIds[l] \ {e})
      BY <3>1, LanesBounds, P!FS_Difference
    <3>3. a[l] = activeTaskIds[l] \/ a[l] = activeTaskIds[l] \ {e}
      OBVIOUS
    <3> QED
      BY <3>1, <3>2, <3>3
  <2>3. \A l \in AllLanes : \A i \in 1 .. Len(queue[l]) : ph[queue[l][i]] = "queued"
    BY <2>1
  <2>4. Drainable(queue, a, maxConcurrent, ph)
    BY <2>2, <2>3 DEF Drainable
  <2> HIDE DEF a, ph
  <2>5. \A x \in RunEntries :
           \/ phase'[x] = ph[x] /\ taskGeneration'[x] = taskGeneration[x]
           \/ ph[x] = "queued" /\ phase'[x] = "running"
    BY <2>1, <2>4, DrainMoves, ZenonT(30)
  <2> QED
    BY <2>1, <2>5 DEF Kept, ph
<1> QED
  BY <1>1, <1>2 DEF Q!Settle

\* setCommandLaneConcurrency of lane l.
LEMMA SetConcurrencyMoves ==
    ASSUME P!IInv, NEW l \in AllLanes, NEW n \in Nat, Q!SetConcurrency(l, n)
    PROVE  /\ \A x \in RunEntries : Kept(x)
           /\ \A k \in AllLanes \ {l} : maxConcurrent'[k] = maxConcurrent[k]
           /\ UNCHANGED <<gatewayDraining, generation, laneOf, wait>>
<1> USE LanesTyped
<1> DEFINE c == [maxConcurrent EXCEPT ![l] = IF n < 1 THEN 1 ELSE n]
<1>1. /\ maxConcurrent' = c
      /\ Q!DrainLanes({l}, queue, activeTaskIds, c, generation, phase)
      /\ UNCHANGED <<gatewayDraining, generation, laneOf, wait>>
  BY DEF Q!SetConcurrency
<1>2. \A k \in AllLanes : /\ queue[k] \in Seq(RunEntries)
                          /\ P!IsFiniteSet(activeTaskIds[k])
                          /\ c[k] \in Nat
  OBVIOUS
<1>3. \A k \in AllLanes \ {l} : c[k] = maxConcurrent[k]
  OBVIOUS
<1>4. Drainable(queue, activeTaskIds, c, phase)
  BY <1>2 DEF Drainable
<1> HIDE DEF c
<1>5. \A x \in RunEntries :
         \/ phase'[x] = phase[x] /\ taskGeneration'[x] = taskGeneration[x]
         \/ phase[x] = "queued" /\ phase'[x] = "running"
  BY <1>1, <1>4, DrainMoves, ZenonT(30)
<1> QED
  BY <1>1, <1>3, <1>5 DEF Kept

\* clearCommandLane of lane l.
LEMMA ClearLaneMoves ==
    ASSUME P!IInv, NEW l \in AllLanes, Q!ClearLane(l)
    PROVE  /\ \A x \in RunEntries : Kept(x)
           /\ UNCHANGED <<gatewayDraining, maxConcurrent, generation, laneOf, wait>>
<1> USE LanesTyped
<1>1. /\ phase' = [e \in RunEntries |->
                      IF \E i \in 1 .. Len(queue[l]) : queue[l][i] = e
                      THEN "cleared" ELSE phase[e]]
      /\ UNCHANGED <<taskGeneration, gatewayDraining, maxConcurrent, generation, laneOf, wait>>
  BY DEF Q!ClearLane
<1>2. ASSUME NEW x \in RunEntries PROVE Kept(x)
  <2>1. CASE \E i \in 1 .. Len(queue[l]) : queue[l][i] = x
    BY <1>1, <2>1 DEF Kept
  <2>2. CASE ~ \E i \in 1 .. Len(queue[l]) : queue[l][i] = x
    BY <1>1, <2>2 DEF Kept
  <2> QED
    BY <2>1, <2>2
<1> QED
  BY <1>1, <1>2

\* resetAllLanes: no lane's generation goes back.
LEMMA ResetMoves ==
    ASSUME P!IInv, Q!ResetAllLanes
    PROVE  /\ \A x \in RunEntries : Kept(x)
           /\ \A l \in AllLanes : generation[l] <= generation'[l]
           /\ UNCHANGED <<maxConcurrent, laneOf, wait>>
<1> USE LanesTyped
<1> DEFINE fresh == [l \in AllLanes |->
                        IF l \in lanes THEN generation[l] + 1 ELSE generation[l]]
           none == [l \in AllLanes |-> IF l \in lanes THEN {} ELSE activeTaskIds[l]]
           ls == {l \in lanes : queue[l] # <<>>}
<1>1. /\ generation' = fresh
      /\ Q!DrainLanes(ls, queue, none, maxConcurrent, fresh, phase)
      /\ UNCHANGED <<maxConcurrent, laneOf, wait>>
  BY DEF Q!ResetAllLanes, AllLanes
<1>2. ASSUME NEW l \in AllLanes
      PROVE  /\ queue[l] \in Seq(RunEntries)
             /\ P!IsFiniteSet(none[l])
             /\ maxConcurrent[l] \in Nat
  <2>1. P!IsFiniteSet({})
    BY LanesBounds, P!FS_EmptySet
  <2> QED
    BY <2>1
<1>3. \A l \in AllLanes : generation[l] <= fresh[l]
  OBVIOUS
<1>4. Drainable(queue, none, maxConcurrent, phase)
  BY <1>2 DEF Drainable
<1> HIDE DEF fresh, none, ls
<1>5. \A x \in RunEntries :
         \/ phase'[x] = phase[x] /\ taskGeneration'[x] = taskGeneration[x]
         \/ phase[x] = "queued" /\ phase'[x] = "running"
  BY <1>1, <1>4, DrainMoves, ZenonT(30)
<1> QED
  BY <1>1, <1>3, <1>5 DEF Kept

-----------------------------------------------------------------------------
(* The lanes inside the gateway *)

\* Every step is a step of the lanes or leaves them alone.
LEMMA StepsOfLanes == ASSUME Next PROVE Q!Next \/ UNCHANGED queueVars
<1>1. ASSUME NEW e \in RunEntries, Q!Enqueue(e) \/ Q!Settle(e) PROVE Q!Next
  BY <1>1 DEF Q!Next
<1>2. ASSUME NEW r \in Requests, RunStep(r) PROVE Q!Next \/ UNCHANGED queueVars
  <2>1. {Outermost(r), SessionEntry(r), Body(r)} \subseteq RunEntries
    BY EntriesOf
  <2>2. CASE Submit(r) \/ EnqueueGlobal(r) \/ SettleSession(r)
    BY <1>1, <2>1, <2>2 DEF Submit, EnqueueGlobal, SettleSession
  <2>3. CASE CronStartsAgent(r) \/ CronEnds(r) \/ BodyEnds(r)
    BY <1>1, <2>1, <2>3 DEF CronStartsAgent, CronEnds, BodyEnds
  <2>4. CASE BeginAttempt(r) \/ EndAttempt(r)
    BY <2>4 DEF BeginAttempt, EndAttempt
  <2> QED
    BY <1>2, <2>2, <2>3, <2>4 DEF RunStep
<1>3. ASSUME NEW s \in Sessions, ClearSession(s) PROVE Q!Next
  BY <1>3 DEF ClearSession, Q!Next
<1>4. ASSUME ApplyLaneConcurrency PROVE Q!Next
  <2>1. "main" \in Sessions \cup GlobalLanes /\ MainCap \in 0 .. MainCap
    BY BoundsAssumption DEF GlobalLanes
  <2> QED
    BY <1>4, <2>1 DEF ApplyLaneConcurrency, Q!Next
<1>5. ASSUME LoopStep PROVE Q!Next \/ UNCHANGED queueVars
  <2>1. CASE Started \/ SignalStop \/ DrainOver \/ Closed \/ GaveUp
    BY <2>1 DEF Started, SignalStop, DrainOver, Closed, GaveUp
  <2>2. CASE SignalRestart
    BY <2>2 DEF SignalRestart, Q!Next
  <2>3. CASE BeginDrain
    BY <2>3 DEF BeginDrain, Q!Next
  <2>4. ASSUME NEW expired \in BOOLEAN, PollTasks(expired) PROVE Q!Next
    BY <2>4 DEF PollTasks, Q!Next
  <2>5. ASSUME NEW expired \in BOOLEAN, PollRuns(expired) PROVE UNCHANGED queueVars
    BY <2>5 DEF PollRuns
  <2>6. CASE Reopened
    BY <2>6 DEF Reopened, Q!Next
  <2>7. CASE Exited
    BY <2>7 DEF Exited, vars
  <2> QED
    BY <1>5, <2>1, <2>2, <2>3, <2>4, <2>5, <2>6, <2>7 DEF LoopStep
<1> QED
  BY <1>2, <1>3, <1>4, <1>5 DEF Next

\* The gateway's lanes start as CommandLanes starts them.
LEMMA InitOfLanes == Init => Q!Init
  BY DEF Init

\* The agent runs and the run loop use the lanes only as CommandLanes describes
\* them: what is proved there holds in the gateway.
THEOREM LanesAreImplemented == Spec => LanesSpec
<1>1. [Next]_vars => [Q!Next]_(Q!vars)
  BY StepsOfLanes DEF vars, queueVars, Q!vars, Q!laneVars
<1> QED
  BY <1>1, InitOfLanes, PTL DEF Spec, LanesSpec, Q!Spec

-----------------------------------------------------------------------------
(* Types *)

\* The part of TypeOK that is not the lanes'.
OwnTypes ==
    /\ activeRuns \in [Sessions -> Requests \cup {NoRun}]
    /\ inAttempt \in SUBSET Requests
    /\ loop \in {"starting", "waiting", "exited"}
    /\ firstStart \in BOOLEAN
    /\ shutdown \in {"none", "marked", "draining", "closing", "reopening"}
    /\ isRestart \in BOOLEAN
    /\ runsWait \in Q!WaitStates
    /\ attempts \in [Requests -> 0 .. MaxAttempts]
    /\ restarts \in 0 .. MaxRestarts

LEMMA OwnTypesInit == Init => OwnTypes
<1> SUFFICES ASSUME Init PROVE OwnTypes
  OBVIOUS
<1>1. attempts \in [Requests -> 0 .. MaxAttempts] /\ restarts \in 0 .. MaxRestarts
  BY BoundsAssumption DEF Init
<1> QED
  BY <1>1 DEF Init, OwnTypes, Q!WaitStates

LEMMA OwnTypesStep == ASSUME OwnTypes, Next PROVE OwnTypes'
<1> USE DEF OwnTypes
<1>1. ASSUME UNCHANGED runVars, UNCHANGED loopVars PROVE OwnTypes'
  BY <1>1 DEF runVars, loopVars
<1>2. ASSUME NEW r \in Requests, RunStep(r) PROVE OwnTypes'
  <2>1. CASE Submit(r) \/ EnqueueGlobal(r) \/ SettleSession(r)
    BY <1>1, <2>1 DEF Submit, EnqueueGlobal, SettleSession
  <2>2. CASE CronStartsAgent(r) \/ CronEnds(r) \/ BodyEnds(r)
    BY <1>1, <2>2 DEF CronStartsAgent, CronEnds, BodyEnds
  <2>3. CASE BeginAttempt(r)
    <3>1. /\ attempts[r] < MaxAttempts
          /\ attempts' = [attempts EXCEPT ![r] = @ + 1]
          /\ inAttempt' = inAttempt \cup {r}
          /\ activeRuns' = [activeRuns EXCEPT ![sessionOf[r]] = r]
          /\ UNCHANGED loopVars
      BY <2>3 DEF BeginAttempt
    <3>2. attempts' \in [Requests -> 0 .. MaxAttempts]
      BY <3>1, BoundsAssumption
    <3>3. activeRuns' \in [Sessions -> Requests \cup {NoRun}]
      BY <3>1
    <3> QED
      BY <3>1, <3>2, <3>3 DEF loopVars
  <2>4. CASE EndAttempt(r)
    <3>1. /\ inAttempt' = inAttempt \ {r}
          /\ activeRuns' = [activeRuns EXCEPT ![sessionOf[r]] = IF @ = r THEN NoRun ELSE @]
          /\ UNCHANGED <<attempts, loopVars>>
      BY <2>4 DEF EndAttempt
    <3>2. activeRuns' \in [Sessions -> Requests \cup {NoRun}]
      BY <3>1
    <3> QED
      BY <3>1, <3>2 DEF loopVars
  <2> QED
    BY <1>2, <2>1, <2>2, <2>3, <2>4 DEF RunStep
<1>3. CASE ApplyLaneConcurrency \/ \E s \in Sessions : ClearSession(s)
  BY <1>1, <1>3 DEF ApplyLaneConcurrency, ClearSession
<1>4. CASE LoopStep
  <2>1. CASE Started \/ SignalStop \/ DrainOver
    BY <2>1 DEF Started, SignalStop, DrainOver, runVars
  <2>2. CASE SignalRestart
    <3>1. restarts' \in 0 .. MaxRestarts
      BY <2>2, BoundsAssumption DEF SignalRestart
    <3> QED
      BY <2>2, <3>1 DEF SignalRestart, runVars
  <2>3. CASE BeginDrain
    BY <2>3 DEF BeginDrain, runVars, Q!WaitStates
  <2>4. ASSUME NEW expired \in BOOLEAN, PollTasks(expired) PROVE OwnTypes'
    BY <1>1, <2>4 DEF PollTasks
  <2>5. ASSUME NEW expired \in BOOLEAN, PollRuns(expired) PROVE OwnTypes'
    BY <2>5 DEF PollRuns, runVars, Q!WaitStates
  <2>6. CASE Closed
    BY <2>6 DEF Closed, runVars
  <2>7. CASE Reopened
    <3>1. /\ shutdown' = "none"
          /\ loop' \in {"starting", "waiting", "exited"}
          /\ UNCHANGED <<runVars, firstStart, isRestart, runsWait, restarts>>
      BY <2>7 DEF Reopened
    <3> QED
      BY <3>1 DEF runVars
  <2>8. CASE GaveUp
    BY <2>8 DEF GaveUp, runVars
  <2>9. CASE Exited
    BY <1>1, <2>9 DEF Exited, vars
  <2> QED
    BY <1>4, <2>1, <2>2, <2>3, <2>4, <2>5, <2>6, <2>7, <2>8, <2>9 DEF LoopStep
<1> QED
  BY <1>2, <1>3, <1>4 DEF Next

-----------------------------------------------------------------------------
(* Bodies run inside their session's entry *)

\* Entries are on the lanes Init gave them, and a body is queued or runs only inside
\* the task of its session's entry, which awaits it.
Chained ==
    /\ laneOf = LaneTable
    /\ \A r \in Requests :
          phase[Body(r)] \in {"queued", "running"} => phase[SessionEntry(r)] = "running"

LEMMA ChainedInit == Init => Chained
  BY EntriesOf DEF Init, Q!Init, Chained, LaneTable

\* A request that no step is about keeps its body inside.
LEMMA KeptInside ==
    ASSUME NEW r \in Requests, Kept(Body(r)), Kept(SessionEntry(r)),
           phase[Body(r)] \in {"queued", "running"} => phase[SessionEntry(r)] = "running"
    PROVE  phase'[Body(r)] \in {"queued", "running"} => phase'[SessionEntry(r)] = "running"
  BY DEF Kept

\* A body is only pushed inside the running task of its session's entry.
LEMMA EnqueueInside ==
    ASSUME P!IInv, Chained, NEW e \in RunEntries, Q!Enqueue(e),
           \A r \in Requests : e = Body(r) => phase[SessionEntry(r)] = "running"
    PROVE  Chained'
<1>1. /\ phase[e] = "new"
      /\ \A x \in RunEntries \ {e} : Kept(x)
      /\ laneOf' = laneOf
  BY EnqueueMoves
<1>2. ASSUME NEW r \in Requests, phase'[Body(r)] \in {"queued", "running"}
      PROVE  phase'[SessionEntry(r)] = "running"
  <2>1. Body(r) \in RunEntries /\ SessionEntry(r) \in RunEntries /\ Body(r) # SessionEntry(r)
    BY EntriesOf
  <2>2. phase[Body(r)] \in {"queued", "running"} => phase[SessionEntry(r)] = "running"
    BY DEF Chained
  <2>3. CASE e = Body(r)
    <3>1. phase[SessionEntry(r)] = "running" /\ Kept(SessionEntry(r))
      BY <1>1, <2>1, <2>3
    <3> QED
      BY <3>1 DEF Kept
  <2>4. CASE e = SessionEntry(r)
    <3>1. Kept(Body(r)) /\ phase[SessionEntry(r)] = "new"
      BY <1>1, <2>1, <2>4
    <3> QED
      BY <1>2, <2>2, <3>1 DEF Kept
  <2>5. CASE e # Body(r) /\ e # SessionEntry(r)
    <3>1. Kept(Body(r)) /\ Kept(SessionEntry(r))
      BY <1>1, <2>1, <2>5
    <3> QED
      BY <1>2, <2>2, <3>1, KeptInside
  <2> QED
    BY <2>3, <2>4, <2>5
<1> QED
  BY <1>1, <1>2 DEF Chained

\* A session's entry only settles when its body is over.
LEMMA SettleInside ==
    ASSUME P!IInv, Chained, NEW e \in RunEntries, Q!Settle(e),
           \A r \in Requests : e = SessionEntry(r) => phase[Body(r)] \notin {"queued", "running"}
    PROVE  Chained'
<1>1. /\ phase'[e] = "settled"
      /\ \A x \in RunEntries \ {e} : Kept(x)
      /\ laneOf' = laneOf
  BY SettleMoves
<1>2. ASSUME NEW r \in Requests, phase'[Body(r)] \in {"queued", "running"}
      PROVE  phase'[SessionEntry(r)] = "running"
  <2>1. Body(r) \in RunEntries /\ SessionEntry(r) \in RunEntries /\ Body(r) # SessionEntry(r)
    BY EntriesOf
  <2>2. phase[Body(r)] \in {"queued", "running"} => phase[SessionEntry(r)] = "running"
    BY DEF Chained
  <2>3. e # Body(r)
    BY <1>1, <1>2
  <2>4. Kept(Body(r))
    BY <1>1, <2>1, <2>3
  <2>5. e # SessionEntry(r)
    BY <1>2, <2>4 DEF Kept
  <2>6. Kept(SessionEntry(r))
    BY <1>1, <2>1, <2>5
  <2> QED
    BY <1>2, <2>2, <2>4, <2>6, KeptInside
<1> QED
  BY <1>1, <1>2 DEF Chained

\* A step that is about no entry in particular.
LEMMA AllKeptInside ==
    ASSUME Chained, \A x \in RunEntries : Kept(x), laneOf' = laneOf
    PROVE  Chained'
<1>1. ASSUME NEW r \in Requests, phase'[Body(r)] \in {"queued", "running"}
      PROVE  phase'[SessionEntry(r)] = "running"
  <2>1. Body(r) \in RunEntries /\ SessionEntry(r) \in RunEntries
    BY EntriesOf
  <2>2. phase[Body(r)] \in {"queued", "running"} => phase[SessionEntry(r)] = "running"
    BY DEF Chained
  <2> QED
    BY <1>1, <2>1, <2>2, KeptInside
<1> QED
  BY <1>1 DEF Chained

\* Every step keeps the bodies inside.
LEMMA ChainedStep == ASSUME P!IInv, Chained, Next PROVE Chained'
<1>0. \A r, s \in Requests : r # s =>
          {Outermost(s), SessionEntry(s), Body(s)}
              \cap {Outermost(r), SessionEntry(r), Body(r)} = {}
  BY EntriesOf
<1>1. ASSUME UNCHANGED queueVars PROVE Chained'
  BY <1>1 DEF queueVars, Chained
<1>2. ASSUME NEW r \in Requests, RunStep(r) PROVE Chained'
  <2>0. /\ Outermost(r) \in RunEntries /\ SessionEntry(r) \in RunEntries /\ Body(r) \in RunEntries
        /\ Body(r) # SessionEntry(r) /\ Body(r) # Outermost(r)
        /\ r \in CronRuns => Outermost(r) # SessionEntry(r)
    BY EntriesOf
  <2>1. CASE Submit(r)
    <3>1. Q!Enqueue(Outermost(r))
      BY <2>1 DEF Submit
    <3>2. \A s \in Requests : Outermost(r) # Body(s)
      BY <1>0, <2>0
    <3> QED
      BY <2>0, <3>1, <3>2, EnqueueInside
  <2>2. CASE EnqueueGlobal(r)
    <3>1. Q!Enqueue(Body(r)) /\ phase[SessionEntry(r)] = "running"
      BY <2>2 DEF EnqueueGlobal, OwesInner
    <3>2. \A s \in Requests : Body(r) = Body(s) => s = r
      BY <1>0
    <3> QED
      BY <2>0, <3>1, <3>2, EnqueueInside
  <2>3. CASE SettleSession(r)
    <3>1. Q!Settle(SessionEntry(r)) /\ phase[Body(r)] \notin {"queued", "running"}
      BY <2>3 DEF SettleSession, OwesUnwind, Over
    <3>2. \A s \in Requests : SessionEntry(r) = SessionEntry(s) => s = r
      BY <1>0
    <3> QED
      BY <2>0, <3>1, <3>2, SettleInside
  <2>4. CASE CronStartsAgent(r)
    <3>1. Q!Enqueue(SessionEntry(r))
      BY <2>4 DEF CronStartsAgent
    <3>2. \A s \in Requests : SessionEntry(r) # Body(s)
      BY <1>0, <2>0
    <3> QED
      BY <2>0, <3>1, <3>2, EnqueueInside
  <2>5. CASE CronEnds(r)
    <3>1. Q!Settle(Outermost(r)) /\ r \in CronRuns
      BY <2>5 DEF CronEnds
    <3>2. \A s \in Requests : Outermost(r) # SessionEntry(s)
      BY <1>0, <2>0, <3>1
    <3> QED
      BY <2>0, <3>1, <3>2, SettleInside
  <2>6. CASE BodyEnds(r)
    <3>1. Q!Settle(Body(r))
      BY <2>6 DEF BodyEnds
    <3>2. \A s \in Requests : Body(r) # SessionEntry(s)
      BY <1>0, <2>0
    <3> QED
      BY <2>0, <3>1, <3>2, SettleInside
  <2>7. CASE BeginAttempt(r) \/ EndAttempt(r)
    BY <1>1, <2>7 DEF BeginAttempt, EndAttempt
  <2> QED
    BY <1>2, <2>1, <2>2, <2>3, <2>4, <2>5, <2>6, <2>7 DEF RunStep
<1>3. ASSUME NEW s \in Sessions, ClearSession(s) PROVE Chained'
  <2>1. Q!ClearLane(s) /\ s \in AllLanes
    BY <1>3 DEF ClearSession, AllLanes
  <2>2. (\A x \in RunEntries : Kept(x)) /\ laneOf' = laneOf
    BY <2>1, ClearLaneMoves
  <2> QED
    BY <2>2, AllKeptInside
<1>4. CASE ApplyLaneConcurrency
  <2>1. Q!SetConcurrency("main", MainCap) /\ "main" \in AllLanes /\ MainCap \in Nat
    BY <1>4, BoundsAssumption DEF ApplyLaneConcurrency, AllLanes, GlobalLanes
  <2>2. (\A x \in RunEntries : Kept(x)) /\ laneOf' = laneOf
    BY <2>1, SetConcurrencyMoves
  <2> QED
    BY <2>2, AllKeptInside
<1>5. CASE LoopStep
  <2>1. CASE Started \/ SignalStop \/ DrainOver \/ Closed \/ GaveUp
    BY <1>1, <2>1 DEF Started, SignalStop, DrainOver, Closed, GaveUp
  <2>2. CASE SignalRestart
    BY <2>2 DEF SignalRestart, Q!MarkGatewayDraining, Chained
  <2>3. CASE BeginDrain
    BY <2>3 DEF BeginDrain, Q!StartWait, Q!laneVars, Chained
  <2>4. ASSUME NEW expired \in BOOLEAN, PollTasks(expired) PROVE Chained'
    BY <2>4 DEF PollTasks, Q!PollWait, Q!laneVars, Chained
  <2>5. ASSUME NEW expired \in BOOLEAN, PollRuns(expired) PROVE Chained'
    BY <1>1, <2>5 DEF PollRuns
  <2>6. CASE Reopened
    <3>1. CASE Q!ResetAllLanes
      <4>1. (\A x \in RunEntries : Kept(x)) /\ laneOf' = laneOf
        BY <3>1, ResetMoves
      <4> QED
        BY <4>1, AllKeptInside
    <3>2. CASE UNCHANGED queueVars
      BY <1>1, <3>2
    <3> QED
      BY <2>6, <3>1, <3>2 DEF Reopened
  <2>7. CASE Exited
    BY <1>1, <2>7 DEF Exited, vars
  <2> QED
    BY <1>5, <2>1, <2>2, <2>3, <2>4, <2>5, <2>6, <2>7 DEF LoopStep
<1> QED
  BY <1>2, <1>3, <1>4, <1>5 DEF Next

-----------------------------------------------------------------------------
(* A session's lane runs one task of the current lifecycle *)

\* Nobody raises the cap of a session's lane, and its drains respect it.
Capped ==
    \A s \in Sessions : maxConcurrent[s] = 1 /\ P!Cardinality(activeTaskIds[s]) <= 1

LEMMA CappedInit == Init => Capped
<1>1. P!Cardinality({}) = 0
  BY LanesBounds, P!FS_EmptySet
<1> QED
  BY <1>1 DEF Init, Q!Init, Capped

\* The cap of a session's lane is left alone, and generations are until the gateway
\* is open again.
LEMMA LanesLeftAlone ==
    ASSUME P!IInv, Next
    PROVE  /\ \A s \in Sessions : maxConcurrent'[s] = maxConcurrent[s]
           /\ generation' = generation \/ Reopened
<1>1. ASSUME NEW e \in RunEntries, Q!Enqueue(e) \/ Q!Settle(e)
      PROVE  UNCHANGED <<maxConcurrent, generation>>
  BY <1>1, EnqueueMoves, SettleMoves
<1>2. ASSUME NEW r \in Requests, RunStep(r) PROVE UNCHANGED <<maxConcurrent, generation>>
  <2>1. {Outermost(r), SessionEntry(r), Body(r)} \subseteq RunEntries
    BY EntriesOf
  <2>2. CASE Submit(r) \/ EnqueueGlobal(r) \/ SettleSession(r)
    BY <1>1, <2>1, <2>2 DEF Submit, EnqueueGlobal, SettleSession
  <2>3. CASE CronStartsAgent(r) \/ CronEnds(r) \/ BodyEnds(r)
    BY <1>1, <2>1, <2>3 DEF CronStartsAgent, CronEnds, BodyEnds
  <2>4. CASE BeginAttempt(r) \/ EndAttempt(r)
    BY <2>4 DEF BeginAttempt, EndAttempt, queueVars
  <2> QED
    BY <1>2, <2>2, <2>3, <2>4 DEF RunStep
<1>3. ASSUME NEW s \in Sessions, ClearSession(s) PROVE UNCHANGED <<maxConcurrent, generation>>
  BY <1>3 DEF ClearSession, Q!ClearLane
<1>4. CASE ApplyLaneConcurrency
  <2>1. Q!SetConcurrency("main", MainCap) /\ "main" \in AllLanes /\ MainCap \in Nat
    BY <1>4, BoundsAssumption DEF ApplyLaneConcurrency, AllLanes, GlobalLanes
  <2>2. /\ \A k \in AllLanes \ {"main"} : maxConcurrent'[k] = maxConcurrent[k]
        /\ generation' = generation
    BY <2>1, SetConcurrencyMoves
  <2>3. Sessions \subseteq AllLanes \ {"main"}
    BY LanesAssumption DEF AllLanes, GlobalLanes
  <2> QED
    BY <2>2, <2>3
<1>5. CASE LoopStep
  <2>1. CASE Started \/ SignalStop \/ DrainOver \/ Closed \/ GaveUp
    BY <2>1 DEF Started, SignalStop, DrainOver, Closed, GaveUp, queueVars
  <2>2. CASE SignalRestart \/ BeginDrain
    BY <2>2 DEF SignalRestart, Q!MarkGatewayDraining, BeginDrain, Q!StartWait, Q!laneVars
  <2>3. ASSUME NEW expired \in BOOLEAN, PollTasks(expired) \/ PollRuns(expired)
        PROVE  UNCHANGED <<maxConcurrent, generation>>
    BY <2>3 DEF PollTasks, Q!PollWait, Q!laneVars, PollRuns, queueVars
  <2>4. CASE Reopened
    BY <2>4 DEF Reopened, Q!ResetAllLanes, queueVars
  <2>5. CASE Exited
    BY <2>5 DEF Exited, vars, queueVars
  <2> QED
    BY <1>5, <2>1, <2>2, <2>3, <2>4, <2>5 DEF LoopStep
<1> QED
  BY <1>2, <1>3, <1>4, <1>5 DEF Next

LEMMA CappedStep == ASSUME P!IInv, Capped, Next PROVE Capped'
<1> SUFFICES ASSUME NEW s \in Sessions
             PROVE  maxConcurrent'[s] = 1 /\ P!Cardinality(activeTaskIds'[s]) <= 1
  BY DEF Capped
<1>1. maxConcurrent[s] = 1 /\ P!Cardinality(activeTaskIds[s]) <= 1
  BY DEF Capped
<1>2. maxConcurrent'[s] = 1
  BY <1>1, LanesLeftAlone
<1>3. CASE UNCHANGED queueVars
  BY <1>1, <1>2, <1>3 DEF queueVars
<1>4. CASE Q!Next
  <2>1. P!CapKept
    BY <1>4, LanesStep
  <2>2. CASE activeTaskIds'[s] \subseteq activeTaskIds[s]
    <3>1. P!IsFiniteSet(activeTaskIds[s])
      BY LanesTyped DEF AllLanes
    <3>2. /\ P!Cardinality(activeTaskIds'[s]) <= P!Cardinality(activeTaskIds[s])
          /\ P!Cardinality(activeTaskIds[s]) \in Nat
          /\ P!Cardinality(activeTaskIds'[s]) \in Nat
      BY <2>2, <3>1, LanesBounds, P!FS_Subset, P!FS_CardinalityType
    <3> QED
      BY <1>1, <1>2, <3>2
  <2>3. CASE ~ (activeTaskIds'[s] \subseteq activeTaskIds[s])
    <3>1. P!Cardinality(activeTaskIds'[s]) <= maxConcurrent'[s]
      BY <2>1, <2>3 DEF P!CapKept
    <3> QED
      BY <1>2, <3>1
  <2> QED
    BY <2>2, <2>3
<1> QED
  BY <1>3, <1>4, StepsOfLanes

-----------------------------------------------------------------------------
(* A restart and the lanes it drains *)

\* The handler of a restart has begun and the gateway is not open again.
Restarting ==
    \/ shutdown \in {"marked", "draining", "reopening"}
    \/ shutdown = "closing" /\ isRestart

\* All that time new work is refused.
Marked == Restarting => gatewayDraining /\ isRestart

InFlight(r) == phase[Body(r)] \in {"queued", "running"}

\* Once the drain has begun, a body that waits or runs in the current lifecycle does
\* so inside a session entry of the snapshot: entries that start later find the
\* gateway draining and get no body.
Snapshot ==
    Restarting /\ shutdown # "marked" =>
        \A r \in Requests : InFlight(r) =>
            Stale(SessionEntry(r)) \/ SessionEntry(r) \in wait.activeAtStart

LEMMA RestartInit == Init => Marked /\ Snapshot
  BY DEF Init, Marked, Snapshot, Restarting

\* A step that lets no entry onto the lanes and starts no lifecycle.
Calm ==
    /\ \A x \in RunEntries : Kept(x) \/ phase'[x] \in {"refused", "settled"}
    /\ UNCHANGED <<gatewayDraining, generation, laneOf>>

\* While the gateway drains, such are all the steps but the one that ends it; only
\* the beginning of the drain takes a snapshot.
LEMMA DrainingSteps ==
    ASSUME P!IInv, Next, gatewayDraining
    PROVE  \/ Reopened
           \/ BeginDrain
           \/ Calm /\ wait'.activeAtStart = wait.activeAtStart
<1>1. ASSUME UNCHANGED queueVars PROVE Calm /\ wait' = wait
  BY <1>1 DEF queueVars, Calm, Kept
<1>2. ASSUME NEW e \in RunEntries, Q!Enqueue(e) \/ Q!Settle(e) PROVE Calm /\ wait' = wait
  <2>1. CASE Q!Enqueue(e)
    <3>1. /\ phase'[e] = "refused"
          /\ \A x \in RunEntries \ {e} : Kept(x)
          /\ UNCHANGED <<gatewayDraining, maxConcurrent, generation, laneOf, wait>>
      BY <2>1, EnqueueMoves
    <3> QED
      BY <3>1 DEF Calm
  <2>2. CASE Q!Settle(e)
    <3>1. /\ phase'[e] = "settled"
          /\ \A x \in RunEntries \ {e} : Kept(x)
          /\ UNCHANGED <<gatewayDraining, maxConcurrent, generation, laneOf, wait>>
      BY <2>2, SettleMoves
    <3> QED
      BY <3>1 DEF Calm
  <2> QED
    BY <1>2, <2>1, <2>2
<1>3. ASSUME NEW r \in Requests, RunStep(r) PROVE Calm /\ wait' = wait
  <2>1. {Outermost(r), SessionEntry(r), Body(r)} \subseteq RunEntries
    BY EntriesOf
  <2>2. CASE Submit(r) \/ EnqueueGlobal(r) \/ SettleSession(r)
    BY <1>2, <2>1, <2>2 DEF Submit, EnqueueGlobal, SettleSession
  <2>3. CASE CronStartsAgent(r) \/ CronEnds(r) \/ BodyEnds(r)
    BY <1>2, <2>1, <2>3 DEF CronStartsAgent, CronEnds, BodyEnds
  <2>4. CASE BeginAttempt(r) \/ EndAttempt(r)
    BY <1>1, <2>4 DEF BeginAttempt, EndAttempt
  <2> QED
    BY <1>3, <2>2, <2>3, <2>4 DEF RunStep
<1>4. ASSUME NEW s \in Sessions, ClearSession(s) PROVE Calm /\ wait' = wait
  <2>1. Q!ClearLane(s) /\ s \in AllLanes
    BY <1>4 DEF ClearSession, AllLanes
  <2>2. /\ \A x \in RunEntries : Kept(x)
        /\ UNCHANGED <<gatewayDraining, maxConcurrent, generation, laneOf, wait>>
    BY <2>1, ClearLaneMoves
  <2> QED
    BY <2>2 DEF Calm
<1>5. ASSUME ApplyLaneConcurrency PROVE Calm /\ wait' = wait
  <2>1. Q!SetConcurrency("main", MainCap) /\ "main" \in AllLanes /\ MainCap \in Nat
    BY <1>5, BoundsAssumption DEF ApplyLaneConcurrency, AllLanes, GlobalLanes
  <2>2. /\ \A x \in RunEntries : Kept(x)
        /\ UNCHANGED <<gatewayDraining, generation, laneOf, wait>>
    BY <2>1, SetConcurrencyMoves
  <2> QED
    BY <2>2 DEF Calm
<1>6. CASE LoopStep
  <2>1. CASE Started \/ SignalStop \/ DrainOver \/ Closed \/ GaveUp
    BY <1>1, <2>1 DEF Started, SignalStop, DrainOver, Closed, GaveUp
  <2>2. CASE SignalRestart
    BY <2>2 DEF SignalRestart, Q!MarkGatewayDraining, Calm, Kept
  <2>3. ASSUME NEW expired \in BOOLEAN, PollTasks(expired)
        PROVE  Calm /\ wait'.activeAtStart = wait.activeAtStart
    <3>1. Calm
      BY <2>3 DEF PollTasks, Q!PollWait, Q!laneVars, Calm, Kept
    <3>2. wait \in [state : Q!WaitStates, activeAtStart : SUBSET RunEntries]
      BY DEF P!IInv, P!TypeOK, P!WaitStates, Q!WaitStates
    <3>3. \E st : wait' = [wait EXCEPT !.state = st]
      BY <2>3 DEF PollTasks, Q!PollWait
    <3> QED
      BY <3>1, <3>2, <3>3
  <2>4. ASSUME NEW expired \in BOOLEAN, PollRuns(expired) PROVE Calm /\ wait' = wait
    BY <1>1, <2>4 DEF PollRuns
  <2>5. CASE Exited
    BY <1>1, <2>5 DEF Exited, vars
  <2> QED
    BY <1>6, <2>1, <2>2, <2>3, <2>4, <2>5 DEF LoopStep
<1> QED
  BY <1>3, <1>4, <1>5, <1>6 DEF Next

\* Which steps move the handler of a signal.
LEMMA ShutdownMoves ==
    ASSUME Next
    PROVE  \/ UNCHANGED <<shutdown, isRestart>>
           \/ SignalStop \/ SignalRestart \/ BeginDrain \/ DrainOver \/ Closed \/ Reopened
<1>1. ASSUME NEW r \in Requests, RunStep(r) PROVE UNCHANGED <<shutdown, isRestart>>
  BY <1>1 DEF RunStep, Submit, EnqueueGlobal, SettleSession, CronStartsAgent, CronEnds,
              BeginAttempt, EndAttempt, BodyEnds, loopVars
<1>2. ASSUME NEW s \in Sessions, ClearSession(s) PROVE UNCHANGED <<shutdown, isRestart>>
  BY <1>2 DEF ClearSession, loopVars
<1>3. CASE ApplyLaneConcurrency
  BY <1>3 DEF ApplyLaneConcurrency, loopVars
<1>4. ASSUME NEW expired \in BOOLEAN, PollTasks(expired) \/ PollRuns(expired)
      PROVE  UNCHANGED <<shutdown, isRestart>>
  BY <1>4 DEF PollTasks, PollRuns, loopVars
<1>5. CASE Started \/ GaveUp \/ Exited
  BY <1>5 DEF Started, GaveUp, Exited, vars, loopVars
<1> QED
  BY <1>1, <1>2, <1>3, <1>4, <1>5 DEF Next, LoopStep

\* A restart goes from marked over draining and closing to reopening.
LEMMA RestartingMoves ==
    ASSUME Next, Restarting'
    PROVE  \/ SignalRestart
           \/ BeginDrain
           \/ /\ Restarting /\ isRestart' = isRestart
              /\ shutdown' # "marked" => shutdown # "marked"
              /\ ~ Reopened
<1>1. CASE UNCHANGED <<shutdown, isRestart>>
  BY <1>1 DEF Restarting, Reopened
<1>2. CASE SignalStop
  BY <1>2 DEF SignalStop, Restarting
<1>3. CASE DrainOver
  BY <1>3 DEF DrainOver, Restarting, Reopened
<1>4. CASE Closed
  BY <1>4 DEF Closed, Restarting, Reopened
<1>5. CASE Reopened
  BY <1>5 DEF Reopened, Restarting
<1> QED
  BY <1>1, <1>2, <1>3, <1>4, <1>5, ShutdownMoves

LEMMA MarkedStep == ASSUME P!IInv, Marked, Next PROVE Marked'
<1> SUFFICES ASSUME Restarting' PROVE gatewayDraining' /\ isRestart'
  BY DEF Marked
<1>1. CASE SignalRestart
  BY <1>1 DEF SignalRestart, Q!MarkGatewayDraining
<1>2. CASE BeginDrain
  <2>1. Restarting
    BY <1>2 DEF BeginDrain, Restarting
  <2> QED
    BY <1>2, <2>1 DEF Marked, BeginDrain, Q!StartWait, Q!laneVars
<1>3. CASE Restarting /\ isRestart' = isRestart /\ ~ Reopened /\ ~ BeginDrain
  <2>1. gatewayDraining /\ isRestart
    BY <1>3 DEF Marked
  <2>2. Calm
    BY <1>3, <2>1, DrainingSteps
  <2> QED
    BY <1>3, <2>1, <2>2 DEF Calm
<1> QED
  BY <1>1, <1>2, <1>3, RestartingMoves

LEMMA SnapshotStep ==
    ASSUME P!IInv, Chained, Chained', Marked, Snapshot, Next
    PROVE  Snapshot'
<1> SUFFICES ASSUME Restarting', shutdown' # "marked",
                    NEW r \in Requests, InFlight(r)'
             PROVE  Stale(SessionEntry(r))' \/ SessionEntry(r) \in wait'.activeAtStart
  BY DEF Snapshot
<1>0. /\ Body(r) \in RunEntries /\ SessionEntry(r) \in RunEntries
      /\ laneOf[SessionEntry(r)] \in AllLanes
  BY EntriesOf, LanesTyped
<1>1. phase'[Body(r)] \in {"queued", "running"} /\ phase'[SessionEntry(r)] = "running"
  BY DEF InFlight, Chained
<1>2. CASE BeginDrain
  <2>1. /\ wait'.activeAtStart = UNION {activeTaskIds[l] : l \in AllLanes}
        /\ UNCHANGED <<phase, taskGeneration, generation, laneOf>>
    BY <1>2 DEF BeginDrain, Q!StartWait, Q!laneVars, Q!AllActive, AllLanes
  <2>2. CASE Stale(SessionEntry(r))
    BY <2>1, <2>2 DEF Stale
  <2>3. CASE ~ Stale(SessionEntry(r))
    <3>1. SessionEntry(r) \in activeTaskIds[laneOf[SessionEntry(r)]]
      BY <1>0, <1>1, <2>1, <2>3 DEF Stale, P!IInv, P!Consistent, AllLanes
    <3> QED
      BY <1>0, <2>1, <3>1
  <2> QED
    BY <2>2, <2>3
<1>3. CASE Restarting /\ shutdown # "marked" /\ ~ Reopened /\ ~ BeginDrain
  <2>1. Calm /\ wait'.activeAtStart = wait.activeAtStart
    BY <1>3, DrainingSteps DEF Marked
  <2>2. Kept(Body(r)) /\ Kept(SessionEntry(r))
    BY <1>0, <1>1, <2>1 DEF Calm
  <2>3. InFlight(r)
    BY <1>1, <2>2 DEF Kept, InFlight
  <2>4. phase[SessionEntry(r)] = "running"
    BY <2>3 DEF InFlight, Chained
  <2>5. taskGeneration'[SessionEntry(r)] = taskGeneration[SessionEntry(r)]
    BY <2>2, <2>4 DEF Kept
  <2>6. Stale(SessionEntry(r)) \/ SessionEntry(r) \in wait.activeAtStart
    BY <1>3, <2>3 DEF Snapshot
  <2> QED
    BY <2>1, <2>5, <2>6 DEF Stale, Calm
<1>4. ~ SignalRestart
  BY DEF SignalRestart
<1> QED
  BY <1>2, <1>3, <1>4, RestartingMoves

-----------------------------------------------------------------------------
(* The theorems *)

\* The inductive invariant.
IInv == P!IInv /\ OwnTypes /\ Chained /\ Capped /\ Marked /\ Snapshot

\* IInv is inductive.
THEOREM Invariance == Spec => []IInv
<1>1. Init => IInv
  <2>1. Init => P!IInv
    BY InitOfLanes, SameInit, LanesBounds, P!InitIInv
  <2> QED
    BY <2>1, OwnTypesInit, ChainedInit, CappedInit, RestartInit DEF IInv
<1>2. IInv /\ [Next]_vars => IInv'
  <2>1. ASSUME IInv, Next PROVE IInv'
    <3>1. P!IInv'
      BY <2>1, StepsOfLanes, LanesStep, LanesStutter DEF IInv
    <3>2. OwnTypes' /\ Chained' /\ Capped' /\ Marked'
      BY <2>1, OwnTypesStep, ChainedStep, CappedStep, MarkedStep DEF IInv
    <3>3. Snapshot'
      BY <2>1, <3>2, SnapshotStep DEF IInv
    <3> QED
      BY <3>1, <3>2, <3>3 DEF IInv
  <2>2. ASSUME IInv, UNCHANGED vars PROVE IInv'
    <3>1. P!IInv'
      BY <2>2, LanesStutter DEF IInv, vars
    <3>2. OwnTypes' /\ Chained' /\ Capped'
      BY <2>2 DEF IInv, vars, queueVars, runVars, loopVars, OwnTypes, Chained, Capped
    <3>3. Marked' /\ Snapshot'
      BY <2>2 DEF IInv, vars, queueVars, runVars, loopVars, Marked, Snapshot, Restarting,
                  InFlight, Stale
    <3> QED
      BY <3>1, <3>2, <3>3 DEF IInv
  <2> QED
    BY <2>1, <2>2
<1> QED
  BY <1>1, <1>2, PTL DEF Spec

\* Every variable keeps its type.
THEOREM TypeCorrect == Spec => []TypeOK
<1>1. IInv => TypeOK
  BY DEF IInv, P!IInv, OwnTypes, TypeOK, P!TypeOK, Q!TypeOK, P!Phases, Q!Phases,
         P!WaitStates, Q!WaitStates
<1> QED
  BY <1>1, Invariance, PTL

\* Two agent runs are in their bodies on one session only across a restart.
THEOREM RunsOverlapOnlyAcrossRestarts == Spec => []OverlapOnlyAcrossRestarts
<1>1. IInv => OverlapOnlyAcrossRestarts
  <2> SUFFICES ASSUME IInv, NEW r1 \in Requests, NEW r2 \in Requests,
                      r1 # r2, sessionOf[r1] = sessionOf[r2], InBody(r1), InBody(r2),
                      ~ Stale(SessionEntry(r1)), ~ Stale(SessionEntry(r2))
               PROVE  FALSE
    BY DEF OverlapOnlyAcrossRestarts
  <2> DEFINE s == sessionOf[r1]
  <2>1. s \in Sessions
    BY SessionOfAssumption DEF Requests
  <2>2. ASSUME NEW r \in {r1, r2} PROVE SessionEntry(r) \in activeTaskIds[s]
    <3>1. SessionEntry(r) \in RunEntries /\ laneOf[SessionEntry(r)] = s
      BY EntriesOf, SessionLane DEF IInv, Chained
    <3>2. phase[SessionEntry(r)] = "running"
      BY DEF InBody, IInv, Chained
    <3>3. taskGeneration[SessionEntry(r)] = generation[s]
      BY <3>1 DEF Stale
    <3> QED
      BY <2>1, <3>1, <3>2, <3>3 DEF IInv, P!IInv, P!Consistent
  <2>3. SessionEntry(r1) # SessionEntry(r2)
    BY EntriesOf
  <2>4. P!IsFiniteSet(activeTaskIds[s]) /\ P!Cardinality(activeTaskIds[s]) <= 1
    BY <2>1, LanesTyped DEF IInv, Capped, AllLanes
  <2> DEFINE A == activeTaskIds[s]
             rest == A \ {SessionEntry(r1)}
  <2>5. /\ P!IsFiniteSet(rest)
        /\ P!Cardinality(rest) = P!Cardinality(A) - 1
        /\ P!Cardinality(A) \in Nat /\ P!Cardinality(rest) \in Nat
    BY <2>2, <2>4, LanesBounds, P!FS_RemoveElement, P!FS_CardinalityType
  <2>6. P!Cardinality(rest) = 0
    BY <2>4, <2>5
  <2>7. rest = {}
    BY <2>5, <2>6, LanesBounds, P!FS_EmptySet
  <2> QED
    BY <2>2, <2>3, <2>7
<1> QED
  BY <1>1, Invariance, PTL

\* A restart whose waits both reported "drained" interrupts no run: a body can only
\* be inside a session entry of the snapshot, and those have settled.
THEOREM DrainedRestartsInterruptNoRun == Spec => CleanDrainInterruptsNoRun
<1>1. ASSUME IInv, Next, generation' # generation, wait.state = "drained",
             NEW r \in Requests, InBody(r)
      PROVE  Stale(SessionEntry(r))
  <2>1. Reopened
    <3>1. generation' = generation \/ Reopened
      BY <1>1, LanesLeftAlone DEF IInv
    <3> QED
      BY <1>1, <3>1
  <2>2. Restarting /\ shutdown # "marked"
    BY <2>1 DEF Reopened, Restarting
  <2>3. InFlight(r)
    BY <1>1 DEF InBody, InFlight
  <2>4. Stale(SessionEntry(r)) \/ SessionEntry(r) \in wait.activeAtStart
    BY <1>1, <2>2, <2>3 DEF IInv, Snapshot
  <2>5. phase[SessionEntry(r)] = "running" /\ SessionEntry(r) \in RunEntries
    BY <1>1, <2>3, EntriesOf DEF IInv, Chained, InFlight
  <2>6. CASE SessionEntry(r) \in wait.activeAtStart
    <3>1. taskGeneration[SessionEntry(r)] < generation[laneOf[SessionEntry(r)]]
      BY <1>1, <2>5, <2>6 DEF IInv, P!IInv, P!DrainedMeansSettled
    <3>2. taskGeneration[SessionEntry(r)] \in Nat
          /\ generation[laneOf[SessionEntry(r)]] \in Nat
      BY <1>1, <2>5, LanesTyped DEF IInv
    <3> QED
      BY <3>1, <3>2 DEF Stale
  <2> QED
    BY <2>4, <2>6
<1>2. IInv /\ [Next]_vars => [(generation' # generation /\ wait.state = "drained" /\ runsWait = "drained")
        => \A r \in Requests : InBody(r) => Stale(SessionEntry(r))]_vars
  BY <1>1
<1> QED
  BY <1>2, Invariance, PTL DEF Spec, CleanDrainInterruptsNoRun

\* The end of an attempt takes away no handle but its own, and a new attempt only
\* replaces one by another.
THEOREM RegisteredRunsStayVisible == Spec => RegisteredRunStaysVisible
<1>1. ASSUME IInv, Next, NEW s \in Sessions,
             activeRuns[s] # NoRun, activeRuns[s] \in inAttempt'
      PROVE  activeRuns'[s] # NoRun
  <2>0. activeRuns \in [Sessions -> Requests \cup {NoRun}]
    BY <1>1 DEF IInv, OwnTypes
  <2>1. ASSUME UNCHANGED activeRuns PROVE activeRuns'[s] # NoRun
    BY <1>1, <2>1
  <2>2. ASSUME NEW r \in Requests, RunStep(r) PROVE activeRuns'[s] # NoRun
    <3>1. CASE BeginAttempt(r)
      <4>1. activeRuns' = [activeRuns EXCEPT ![sessionOf[r]] = r] /\ r # NoRun
        BY <3>1, NoRunAssumption DEF BeginAttempt, Requests
      <4> QED
        BY <1>1, <2>0, <4>1
    <3>2. CASE EndAttempt(r)
      <4>1. /\ inAttempt' = inAttempt \ {r}
            /\ activeRuns' = [activeRuns EXCEPT ![sessionOf[r]] = IF @ = r THEN NoRun ELSE @]
        BY <3>2 DEF EndAttempt
      <4>2. activeRuns[s] # r
        BY <1>1, <4>1
      <4> QED
        BY <1>1, <2>0, <4>1, <4>2
    <3>3. CASE Submit(r) \/ EnqueueGlobal(r) \/ SettleSession(r)
      BY <2>1, <3>3 DEF Submit, EnqueueGlobal, SettleSession, runVars
    <3>4. CASE CronStartsAgent(r) \/ CronEnds(r) \/ BodyEnds(r)
      BY <2>1, <3>4 DEF CronStartsAgent, CronEnds, BodyEnds, runVars
    <3> QED
      BY <2>2, <3>1, <3>2, <3>3, <3>4 DEF RunStep
  <2>3. CASE ApplyLaneConcurrency \/ \E t \in Sessions : ClearSession(t)
    BY <2>1, <2>3 DEF ApplyLaneConcurrency, ClearSession, runVars
  <2>4. CASE LoopStep
    BY <2>1, <2>4 DEF LoopStep, Started, SignalStop, SignalRestart, BeginDrain, PollTasks,
                      PollRuns, DrainOver, Closed, Reopened, GaveUp, Exited, vars, runVars
  <2> QED
    BY <1>1, <2>2, <2>3, <2>4 DEF Next
<1>2. IInv /\ [Next]_vars =>
        [\A s \in Sessions :
            activeRuns[s] # NoRun /\ activeRuns[s] \in inAttempt' => activeRuns'[s] # NoRun]_vars
  BY <1>1
<1> QED
  BY <1>2, Invariance, PTL DEF Spec, RegisteredRunStaysVisible

=============================================================================
