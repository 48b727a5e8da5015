---------------------------- MODULE CommandLanes ----------------------------
(***************************************************************************)
(* The in-process command queue of src/src/process/command-queue.ts: named *)
(* lanes, each a FIFO of entries drained under a concurrency cap, with the *)
(* drain flag that refuses new work before a restart, the generation that  *)
(* disowns the tasks an in-process restart interrupted, and the poll with  *)
(* which the restart waits for active tasks.                               *)
(*                                                                         *)
(* An entry is one call of enqueueCommandInLane.  Every JavaScript turn    *)
(* (synchronous code up to its first await) is one step.  The `draining`   *)
(* flag of a lane is set and cleared inside one turn, so no step sees it.  *)
(***************************************************************************)
EXTENDS Integers, Sequences, FiniteSets

CONSTANTS
    Lanes,          \* names of lanes (already normalised)
    Entries,        \* calls of enqueueCommandInLane
    MaxConcurrency, \* bound: largest cap a configuration asks for
    MaxGeneration   \* bound: in-process restarts the model allows

ASSUME MaxConcurrencyAssumption == MaxConcurrency \in Nat \ {0}
ASSUME MaxGenerationAssumption == MaxGeneration \in Nat

VARIABLES
    gatewayDraining, \* queueState.gatewayDraining
    lanes,           \* the keys of queueState.lanes: lanes are made on first use
    queue,           \* LaneState.queue, oldest first
    activeTaskIds,   \* LaneState.activeTaskIds; an entry stands for its task id
    maxConcurrent,   \* LaneState.maxConcurrent
    generation,      \* LaneState.generation
    phase,           \* what has become of each entry
    laneOf,          \* the lane an entry was pushed on
    taskGeneration,  \* the generation its task closed over when it started
    enqueuedAt,      \* QueueEntry.enqueuedAt, in pushes instead of milliseconds
    clock,           \* pushes so far
    wait             \* the call of waitForActiveTasks: its progress and activeAtStart

laneVars == <<gatewayDraining, lanes, queue, activeTaskIds, maxConcurrent,
              generation, phase, laneOf, taskGeneration, enqueuedAt, clock>>
vars == <<laneVars, wait>>

Phases == {"new", "refused", "queued", "cleared", "running", "settled"}
WaitStates == {"idle", "waiting", "drained", "timedOut"}

TypeOK ==
    /\ gatewayDraining \in BOOLEAN
    /\ lanes \in SUBSET Lanes
    /\ queue \in [Lanes -> Seq(Entries)]
    /\ activeTaskIds \in [Lanes -> SUBSET Entries]
    /\ maxConcurrent \in [Lanes -> Nat \ {0}]
    /\ generation \in [Lanes -> Nat]
    /\ phase \in [Entries -> Phases]
    /\ laneOf \in [Entries -> Lanes]
    /\ taskGeneration \in [Entries -> Nat]
    /\ enqueuedAt \in [Entries -> Nat]
    /\ clock \in Nat
    /\ wait \in [state : WaitStates, activeAtStart : SUBSET Entries]

Init ==
    /\ gatewayDraining = FALSE
    /\ lanes = {}
    /\ queue = [l \in Lanes |-> <<>>]
    /\ activeTaskIds = [l \in Lanes |-> {}]
    /\ maxConcurrent = [l \in Lanes |-> 1]
    /\ generation = [l \in Lanes |-> 0]
    /\ phase = [e \in Entries |-> "new"]
    /\ laneOf \in [Entries -> Lanes]       \* each caller's choice of lane
    /\ taskGeneration = [e \in Entries |-> 0]
    /\ enqueuedAt = [e \in Entries |-> 0]
    /\ clock = 0
    /\ wait = [state |-> "idle", activeAtStart |-> {}]

-----------------------------------------------------------------------------
(* drainLane and its pump *)

\* Mutant: the pump compares with <= and starts one task too many.
PumpCountOneTooMany(q, active, cap) ==
    LET free == IF Cardinality(active) <= cap THEN cap - Cardinality(active) + 1 ELSE 0
    IN  IF Len(q) <= free THEN Len(q) ELSE free

\* How many entries the pump's while loop shifts off q before the lane is full.
PumpCount(q, active, cap) ==
    LET free == IF Cardinality(active) < cap THEN cap - Cardinality(active) ELSE 0
    IN  IF Len(q) <= free THEN Len(q) ELSE free

Pumped(q, active, cap) == {q[i] : i \in 1 .. PumpCount(q, active, cap)}

Unpumped(q, active, cap) == SubSeq(q, PumpCount(q, active, cap) + 1, Len(q))

\* drainLane on every lane of ls, from queues q, active sets a and caps c:
\* the started entries become tasks of their lane's generation in g; the
\* other entries keep what ph says of them.
DrainLanes(ls, q, a, c, g, ph) ==
    LET started(l) == IF l \in ls THEN Pumped(q[l], a[l], c[l]) ELSE {}
    IN  /\ queue' = [l \in Lanes |-> IF l \in ls THEN Unpumped(q[l], a[l], c[l]) ELSE q[l]]
        /\ activeTaskIds' = [l \in Lanes |-> a[l] \cup started(l)]
        /\ phase' = [e \in Entries |->
                        IF e \in started(laneOf[e]) THEN "running" ELSE ph[e]]
        /\ taskGeneration' = [e \in Entries |->
                        IF e \in started(laneOf[e]) THEN g[laneOf[e]]
                        ELSE taskGeneration[e]]

-----------------------------------------------------------------------------
(* The operations *)

\* enqueueCommandInLane while the gateway drains: the promise is rejected with
\* GatewayDrainingError and nothing else happens.
EnqueueRefused(e) ==
    /\ phase[e] = "new"
    /\ gatewayDraining
    /\ phase' = [phase EXCEPT ![e] = "refused"]
    /\ UNCHANGED <<gatewayDraining, lanes, queue, activeTaskIds, maxConcurrent,
                   generation, laneOf, taskGeneration, enqueuedAt, clock, wait>>

\* Mutant: the entry is put at the front of the queue.
EnqueueAcceptedInFront(e) ==
    LET l == laneOf[e] IN
    /\ phase[e] = "new"
    /\ ~gatewayDraining
    /\ lanes' = lanes \cup {l}
    /\ enqueuedAt' = [enqueuedAt EXCEPT ![e] = clock]
    /\ clock' = clock + 1
    /\ DrainLanes({l}, [queue EXCEPT ![l] = <<e>> \o @], activeTaskIds,
                  maxConcurrent, generation, [phase EXCEPT ![e] = "queued"])
    /\ UNCHANGED <<gatewayDraining, maxConcurrent, generation, laneOf, wait>>

\* enqueueCommandInLane otherwise: push, then drainLane.
EnqueueAccepted(e) ==
    LET l == laneOf[e] IN
    /\ phase[e] = "new"
    /\ ~gatewayDraining
    /\ lanes' = lanes \cup {l}
    /\ enqueuedAt' = [enqueuedAt EXCEPT ![e] = clock]
    /\ clock' = clock + 1
    /\ DrainLanes({l}, [queue EXCEPT ![l] = Append(@, e)], activeTaskIds,
                  maxConcurrent, generation, [phase EXCEPT ![e] = "queued"])
    /\ UNCHANGED <<gatewayDraining, maxConcurrent, generation, laneOf, wait>>

\* Mutant: a completion does not pump.
SettleCurrentUnpumped(e) ==
    /\ phase[e] = "running"
    /\ taskGeneration[e] = generation[laneOf[e]]
    /\ phase' = [phase EXCEPT ![e] = "settled"]
    /\ activeTaskIds' = [activeTaskIds EXCEPT ![laneOf[e]] = @ \ {e}]
    /\ UNCHANGED <<gatewayDraining, lanes, queue, maxConcurrent, generation, laneOf,
                   taskGeneration, enqueuedAt, clock, wait>>

\* The task of e resolves or rejects.  completeTask takes it off its lane and
\* pumps when the lane is still of the task's generation; otherwise the
\* completion is stale and only settles the caller's promise.
SettleCurrent(e) ==
    LET l == laneOf[e] IN
    /\ phase[e] = "running"
    /\ taskGeneration[e] = generation[l]
    /\ DrainLanes({l}, queue, [activeTaskIds EXCEPT ![l] = @ \ {e}],
                  maxConcurrent, generation, [phase EXCEPT ![e] = "settled"])
    /\ UNCHANGED <<gatewayDraining, lanes, maxConcurrent, generation, laneOf,
                   enqueuedAt, clock, wait>>

SettleStale(e) ==
    /\ phase[e] = "running"
    /\ taskGeneration[e] # generation[laneOf[e]]
    /\ phase' = [phase EXCEPT ![e] = "settled"]
    /\ UNCHANGED <<gatewayDraining, lanes, queue, activeTaskIds, maxConcurrent,
                   generation, laneOf, taskGeneration, enqueuedAt, clock, wait>>

\* Mutant: the cap is taken as configured, zero included.
SetConcurrencyUnrounded(l, n) ==
    /\ lanes' = lanes \cup {l}
    /\ maxConcurrent' = [maxConcurrent EXCEPT ![l] = n]
    /\ DrainLanes({l}, queue, activeTaskIds, maxConcurrent', generation, phase)
    /\ UNCHANGED <<gatewayDraining, generation, laneOf, enqueuedAt, clock, wait>>

\* setCommandLaneConcurrency: Math.max(1, floor(n)), then drainLane.  Running
\* tasks beyond a lowered cap are left to finish.
SetConcurrency(l, n) ==
    /\ lanes' = lanes \cup {l}
    /\ maxConcurrent' = [maxConcurrent EXCEPT ![l] = IF n < 1 THEN 1 ELSE n]
    /\ DrainLanes({l}, queue, activeTaskIds, maxConcurrent', generation, phase)
    /\ UNCHANGED <<gatewayDraining, generation, laneOf, enqueuedAt, clock, wait>>

\* clearCommandLane: every queued entry is rejected with CommandLaneClearedError.
ClearLane(l) ==
    /\ l \in lanes
    /\ queue' = [queue EXCEPT ![l] = <<>>]
    /\ phase' = [e \in Entries |->
                    IF \E i \in 1 .. Len(queue[l]) : queue[l][i] = e
                    THEN "cleared" ELSE phase[e]]
    /\ UNCHANGED <<gatewayDraining, lanes, activeTaskIds, maxConcurrent, generation,
                   laneOf, taskGeneration, enqueuedAt, clock, wait>>

MarkGatewayDraining ==
    /\ gatewayDraining' = TRUE
    /\ UNCHANGED <<lanes, queue, activeTaskIds, maxConcurrent, generation, phase,
                   laneOf, taskGeneration, enqueuedAt, clock, wait>>

\* Mutant: the active ids are forgotten, but the generation stays.
ResetAllLanesSameGeneration ==
    LET none == [l \in Lanes |-> IF l \in lanes THEN {} ELSE activeTaskIds[l]]
    IN  /\ gatewayDraining' = FALSE
        /\ DrainLanes({l \in lanes : queue[l] # <<>>}, queue, none,
                      maxConcurrent, generation, phase)
        /\ UNCHANGED <<lanes, maxConcurrent, generation, laneOf, enqueuedAt, clock, wait>>

\* resetAllLanes: every lane starts a new generation with no active task, then
\* the lanes that kept queued entries are drained.
ResetAllLanes ==
    LET fresh == [l \in Lanes |-> IF l \in lanes THEN generation[l] + 1 ELSE generation[l]]
        none  == [l \in Lanes |-> IF l \in lanes THEN {} ELSE activeTaskIds[l]]
    IN  /\ \A l \in lanes : generation[l] < MaxGeneration
        /\ gatewayDraining' = FALSE
        /\ generation' = fresh
        /\ DrainLanes({l \in lanes : queue[l] # <<>>}, queue, none,
                      maxConcurrent, fresh, phase)
        /\ UNCHANGED <<lanes, maxConcurrent, laneOf, enqueuedAt, clock, wait>>

AllActive == UNION {activeTaskIds[l] : l \in Lanes}

\* waitForActiveTasks: the snapshot and its first check, which answers at once
\* when no task is active or when the timeout is zero.
StartWait(expired) ==
    /\ wait.state # "waiting"
    /\ wait' = [state |-> IF AllActive = {} THEN "drained"
                          ELSE IF expired THEN "timedOut" ELSE "waiting",
                activeAtStart |-> AllActive]
    /\ UNCHANGED laneVars

\* Mutant: the poll is content as soon as one task of the snapshot is gone.
PollWaitForOne(expired) ==
    /\ wait.state = "waiting"
    /\ wait' = [wait EXCEPT !.state =
                    IF ~ (wait.activeAtStart \subseteq AllActive) THEN "drained"
                    ELSE IF expired THEN "timedOut" ELSE "waiting"]
    /\ UNCHANGED laneVars

\* One later check of the poll; `expired` says whether the deadline has passed.
PollWait(expired) ==
    /\ wait.state = "waiting"
    /\ wait' = [wait EXCEPT !.state =
                    IF wait.activeAtStart \cap AllActive = {} THEN "drained"
                    ELSE IF expired THEN "timedOut" ELSE "waiting"]
    /\ UNCHANGED laneVars

Enqueue(e) == EnqueueRefused(e) \/ EnqueueAccepted(e)
Settle(e) == SettleCurrent(e) \/ SettleStale(e)

Next ==
    \/ \E e \in Entries : Enqueue(e) \/ Settle(e)
    \/ \E l \in Lanes, n \in 0 .. MaxConcurrency : SetConcurrency(l, n)
    \/ \E l \in Lanes : ClearLane(l)
    \/ MarkGatewayDraining
    \/ ResetAllLanes
    \/ \E expired \in BOOLEAN : StartWait(expired) \/ PollWait(expired)

Spec == Init /\ [][Next]_vars

-----------------------------------------------------------------------------
(* Properties *)

InQueue(e, l) == \E i \in 1 .. Len(queue[l]) : queue[l][i] = e

\* A lane's bookkeeping agrees with its entries: the queued entries are on
\* exactly one queue, once, and the active ids are exactly the running tasks of
\* the lane's current generation.  A completion that was counted twice, or one
\* of an old generation that touched the new one's ids, breaks it.
BookkeepingExact ==
    \A e \in Entries, l \in Lanes :
        /\ InQueue(e, l) <=> (phase[e] = "queued" /\ laneOf[e] = l)
        /\ e \in activeTaskIds[l] <=>
              /\ phase[e] = "running"
              /\ laneOf[e] = l
              /\ taskGeneration[e] = generation[l]

\* No lost wakeup: an entry waits only while its lane is full.  Every operation
\* that frees a slot or adds an entry must pump, since nothing polls.
WorkConserving ==
    \A l \in Lanes : queue[l] # <<>> => Cardinality(activeTaskIds[l]) >= maxConcurrent[l]

\* FIFO over the whole history: while an entry is queued, no entry pushed on its
\* lane after it has started.
NoOvertaking ==
    \A d, e \in Entries :
        /\ phase[d] = "queued"
        /\ phase[e] \notin {"new", "refused"}
        /\ laneOf[d] = laneOf[e]
        /\ enqueuedAt[d] < enqueuedAt[e]
        => phase[e] = "queued"

\* What "drained" promises the restart: of the tasks that were active when the
\* wait began, only those a reset has disowned can still be running.
DrainedMeansSettled ==
    wait.state = "drained" =>
        \A e \in wait.activeAtStart :
            phase[e] = "running" => taskGeneration[e] < generation[laneOf[e]]

\* A step that starts a task on a lane leaves the lane within its cap, also when
\* the cap was lowered under running tasks or a reset forgot some.
StartsWithinCap ==
    [][\A l \in Lanes : ~ (activeTaskIds'[l] \subseteq activeTaskIds[l])
            => Cardinality(activeTaskIds'[l]) <= maxConcurrent'[l]]_vars

=============================================================================
