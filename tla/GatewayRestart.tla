--------------------------- MODULE GatewayRestart ---------------------------
(***************************************************************************)
(* Agent runs on the command lanes, across the gateway's run loop.         *)
(*                                                                         *)
(* runEmbeddedPiAgent (src/src/agents/pi-embedded-runner/run.ts) queues a  *)
(* run on its session's lane; that entry's task queues the run again on a  *)
(* global lane and settles with it, and a manual cron run holds an entry   *)
(* of the cron lane around both.  A request is therefore a chain of lane   *)
(* entries, outermost first, and its body is the task of the last one.     *)
(* While a model attempt of the body is under way the run is registered    *)
(* in ACTIVE_EMBEDDED_RUNS (runs.ts).  runGatewayLoop (run-loop.ts) drains *)
(* lanes and registry on SIGUSR1, closes the server, and either exits or   *)
(* starts the server again in the same process, resetting the lanes first. *)
(*                                                                         *)
(* The lanes are the module CommandLanes; every step here is one of its    *)
(* steps or leaves them alone, which the runs check as Q!Spec.             *)
(***************************************************************************)
EXTENDS Integers, Sequences, FiniteSets

CONSTANTS
    ChatRuns,       \* calls of runEmbeddedPiAgent for an inbound message
    CronRuns,       \* manual cron runs (enqueueRun) of an isolated agent job
    Sessions,       \* session keys
    sessionOf,      \* the session each request touches
    MainCap,        \* agents.defaults.maxConcurrent
    MaxAttempts,    \* resolveMaxRunRetryIterations: model attempts of one body
    MaxRestarts,    \* bound: restart signals the gateway accepts
    NoRun           \* no handle in the registry

ASSUME BoundsAssumption == MainCap \in Nat \ {0} /\ MaxAttempts \in Nat /\ MaxRestarts \in Nat
ASSUME SessionOfAssumption == sessionOf \in [ChatRuns \cup CronRuns -> Sessions]
ASSUME NoRunAssumption == NoRun \notin ChatRuns \cup CronRuns

VARIABLES
    gatewayDraining, lanes, queue, activeTaskIds, maxConcurrent, generation,
    phase, laneOf, taskGeneration, enqueuedAt, clock, wait,
    activeRuns,     \* ACTIVE_EMBEDDED_RUNS: the run whose handle each session has
    inAttempt,      \* requests whose body is between set- and clearActiveEmbeddedRun
    attempts,       \* attempts each request's body has begun
    loop,           \* where runGatewayLoop's for(;;) is
    firstStart,     \* isFirstStart, and isFirstIteration of the restart hook
    shutdown,       \* where the handler of an accepted signal is; not "none" is shuttingDown
    isRestart,      \* the handler serves SIGUSR1 rather than SIGTERM or SIGINT
    runsWait,       \* the call of waitForActiveEmbeddedRuns
    restarts        \* restart signals accepted so far

Requests == ChatRuns \cup CronRuns
GlobalLanes == {"main", "cron", "nested"}

\* resolveSessionLane: the lanes of sessions have a prefix of their own.
ASSUME LanesAssumption == Sessions \cap GlobalLanes = {}

\* Mutant: the cron lane is not left for the agent's body.
ResolveGlobalLaneAsIs(lane) == lane

\* resolveGlobalLane: work that already holds a cron slot moves to nested.
ResolveGlobalLane(lane) == IF lane = "cron" THEN "nested" ELSE lane

\* The lanes a request's entries are pushed on, outermost first.
Chain(r) == IF r \in CronRuns
            THEN <<"cron", sessionOf[r], ResolveGlobalLane("cron")>>
            ELSE <<sessionOf[r], ResolveGlobalLane("main")>>

RunEntries == UNION {{<<r, i>> : i \in 1 .. Len(Chain(r))} : r \in Requests}
Outermost(r) == <<r, 1>>
SessionEntry(r) == <<r, Len(Chain(r)) - 1>>
Body(r) == <<r, Len(Chain(r))>>

Q == INSTANCE CommandLanes WITH
        Lanes <- Sessions \cup GlobalLanes,
        Entries <- RunEntries,
        MaxConcurrency <- MainCap,
        MaxGeneration <- MaxRestarts

queueVars == <<gatewayDraining, lanes, queue, activeTaskIds, maxConcurrent, generation,
               phase, laneOf, taskGeneration, enqueuedAt, clock, wait>>
loopVars == <<loop, firstStart, shutdown, isRestart, runsWait, restarts>>
runVars == <<activeRuns, inAttempt, attempts>>
vars == <<queueVars, runVars, loopVars>>

TypeOK ==
    /\ Q!TypeOK
    /\ activeRuns \in [Sessions -> Requests \cup {NoRun}]
    /\ inAttempt \in SUBSET Requests
    /\ loop \in {"starting", "waiting", "exited"}
    /\ firstStart \in BOOLEAN
    /\ shutdown \in {"none", "marked", "draining", "closing", "reopening"}
    /\ isRestart \in BOOLEAN
    /\ runsWait \in Q!WaitStates
    /\ attempts \in [Requests -> 0 .. MaxAttempts]
    /\ restarts \in 0 .. MaxRestarts

Init ==
    /\ laneOf = [e \in RunEntries |-> Chain(e[1])[e[2]]]
    /\ Q!Init
    /\ activeRuns = [s \in Sessions |-> NoRun]
    /\ inAttempt = {}
    /\ loop = "starting"
    /\ firstStart = TRUE
    /\ shutdown = "none"
    /\ isRestart = FALSE
    /\ runsWait = "idle"
    /\ attempts = [r \in Requests |-> 0]
    /\ restarts = 0

-----------------------------------------------------------------------------
(* Agent runs *)

Over(e) == phase[e] \in {"settled", "refused", "cleared"}

\* The session entry's task calls enqueueGlobal in the turn that starts it.
OwesInner(r) == phase[SessionEntry(r)] = "running" /\ phase[Body(r)] = "new"

\* Mutant: the session entry's task does not await its body.
OwesUnwindAtOnce(r) == phase[SessionEntry(r)] = "running" /\ phase[Body(r)] # "new"

\* The session entry's task settles in the microtasks after its body's promise.
OwesUnwind(r) == phase[SessionEntry(r)] = "running" /\ Over(Body(r))

\* No turn is half done: signals, timers and I/O are served only then.
TurnOver ==
    /\ loop # "exited"
    /\ shutdown # "marked"
    /\ \A r \in Requests : ~ OwesInner(r) /\ ~ OwesUnwind(r)

\* A request arrives, which none can before the first start has set the caps: its
\* outermost entry is pushed, or refused while draining.
Submit(r) ==
    /\ TurnOver
    /\ "main" \in lanes
    /\ Q!Enqueue(Outermost(r))
    /\ UNCHANGED <<runVars, loopVars>>

EnqueueGlobal(r) ==
    /\ loop # "exited"
    /\ OwesInner(r)
    /\ Q!Enqueue(Body(r))
    /\ UNCHANGED <<runVars, loopVars>>

SettleSession(r) ==
    /\ loop # "exited"
    /\ OwesUnwind(r)
    /\ Q!Settle(SessionEntry(r))
    /\ UNCHANGED <<runVars, loopVars>>

\* The cron task reserved its job and now runs its agent turn ...
CronStartsAgent(r) ==
    /\ TurnOver
    /\ r \in CronRuns
    /\ phase[Outermost(r)] = "running"
    /\ Q!Enqueue(SessionEntry(r))
    /\ UNCHANGED <<runVars, loopVars>>

\* ... and ends after it, or without it when the job was not runnable any more.
CronEnds(r) ==
    /\ TurnOver
    /\ r \in CronRuns
    /\ phase[SessionEntry(r)] = "new" \/ Over(SessionEntry(r))
    /\ Q!Settle(Outermost(r))
    /\ UNCHANGED <<runVars, loopVars>>

\* Mutant: retries are not limited.
BeginAttemptUnlimited(r) ==
    /\ TurnOver
    /\ phase[Body(r)] = "running"
    /\ r \notin inAttempt
    /\ attempts' = [attempts EXCEPT ![r] = @ + 1]
    /\ inAttempt' = inAttempt \cup {r}
    /\ activeRuns' = [activeRuns EXCEPT ![sessionOf[r]] = r]
    /\ UNCHANGED <<queueVars, loopVars>>

\* setActiveEmbeddedRun replaces whatever handle the session has.
BeginAttempt(r) ==
    /\ TurnOver
    /\ phase[Body(r)] = "running"
    /\ r \notin inAttempt
    /\ attempts[r] < MaxAttempts
    /\ attempts' = [attempts EXCEPT ![r] = @ + 1]
    /\ inAttempt' = inAttempt \cup {r}
    /\ activeRuns' = [activeRuns EXCEPT ![sessionOf[r]] = r]
    /\ UNCHANGED <<queueVars, loopVars>>

\* Mutant: an ending attempt clears the session's handle, whosever it is.
EndAttemptOfAny(r) ==
    /\ TurnOver
    /\ r \in inAttempt
    /\ inAttempt' = inAttempt \ {r}
    /\ activeRuns' = [activeRuns EXCEPT ![sessionOf[r]] = NoRun]
    /\ UNCHANGED <<attempts, queueVars, loopVars>>

\* clearActiveEmbeddedRun skips a handle that is no longer the registered one.
EndAttempt(r) ==
    /\ TurnOver
    /\ r \in inAttempt
    /\ inAttempt' = inAttempt \ {r}
    /\ activeRuns' = [activeRuns EXCEPT ![sessionOf[r]] = IF @ = r THEN NoRun ELSE @]
    /\ UNCHANGED <<attempts, queueVars, loopVars>>

BodyEnds(r) ==
    /\ TurnOver
    /\ r \notin inAttempt
    /\ Q!Settle(Body(r))
    /\ UNCHANGED <<runVars, loopVars>>

\* clearSessionQueues and an interrupting message clear the session's lane.
ClearSession(s) ==
    /\ TurnOver
    /\ Q!ClearLane(s)
    /\ UNCHANGED <<runVars, loopVars>>

\* applyGatewayLaneConcurrency, in params.start(), for the main lane.  The cron lane
\* keeps its cap of one, and caps that a reload changes are left to CommandLanes.
ApplyLaneConcurrency ==
    /\ TurnOver
    /\ loop = "starting"
    /\ Q!SetConcurrency("main", MainCap)
    /\ UNCHANGED <<runVars, loopVars>>

-----------------------------------------------------------------------------
(* The run loop *)

\* params.start() resolves, or fails: the first start's failure ends the
\* process, a later one leaves it waiting for another restart.  (Whether there
\* is a server to close changes nothing below, so `server` is not kept.)
Started ==
    /\ TurnOver
    /\ loop = "starting"
    /\ \/ loop' = "waiting"
       \/ firstStart /\ loop' = "exited"
    /\ firstStart' = FALSE
    /\ UNCHANGED <<queueVars, runVars, shutdown, isRestart, runsWait, restarts>>

\* SIGTERM or SIGINT: no drain; ignored while a shutdown is under way.
SignalStop ==
    /\ TurnOver
    /\ shutdown = "none"
    /\ shutdown' = "closing"
    /\ isRestart' = FALSE
    /\ UNCHANGED <<queueVars, runVars, loop, firstStart, runsWait, restarts>>

\* Mutant: the restart drains without refusing new work.
SignalRestartUnmarked ==
    /\ TurnOver
    /\ shutdown = "none"
    /\ restarts < MaxRestarts
    /\ restarts' = restarts + 1
    /\ shutdown' = "marked"
    /\ isRestart' = TRUE
    /\ UNCHANGED <<queueVars, runVars, loop, firstStart, runsWait>>

\* An authorised SIGUSR1: refuse new work from here on, and in the same turn
\* take the snapshots of the lanes and of the registry that the drain waits for.
SignalRestart ==
    /\ TurnOver
    /\ shutdown = "none"
    /\ restarts < MaxRestarts
    /\ restarts' = restarts + 1
    /\ shutdown' = "marked"
    /\ isRestart' = TRUE
    /\ Q!MarkGatewayDraining
    /\ UNCHANGED <<runVars, loop, firstStart, runsWait>>

NoneRegistered == \A s \in Sessions : activeRuns[s] = NoRun

BeginDrain ==
    /\ loop # "exited"
    /\ shutdown = "marked"
    /\ shutdown' = "draining"
    /\ Q!StartWait(FALSE)
    /\ runsWait' = IF NoneRegistered THEN "drained" ELSE "waiting"
    /\ UNCHANGED <<runVars, loop, firstStart, isRestart, restarts>>

PollTasks(expired) ==
    /\ TurnOver
    /\ shutdown = "draining"
    /\ Q!PollWait(expired)
    /\ UNCHANGED <<runVars, loopVars>>

\* waitForActiveEmbeddedRuns looks at the whole registry each time it polls.
PollRuns(expired) ==
    /\ TurnOver
    /\ shutdown = "draining"
    /\ runsWait = "waiting"
    /\ runsWait' = IF NoneRegistered THEN "drained"
                   ELSE IF expired THEN "timedOut" ELSE "waiting"
    /\ UNCHANGED <<queueVars, runVars, loop, firstStart, shutdown, isRestart, restarts>>

\* Both waits are over.  After a timeout the registered runs are told to abort,
\* which they may or may not heed: their steps stay possible.
DrainOver ==
    /\ TurnOver
    /\ shutdown = "draining"
    /\ wait.state # "waiting"
    /\ runsWait # "waiting"
    /\ shutdown' = "closing"
    /\ UNCHANGED <<queueVars, runVars, loop, firstStart, isRestart, runsWait, restarts>>

\* server?.close() returns or throws.  A stop exits; a restart exits when it could
\* spawn a process, and otherwise goes on to take the gateway lock again.
Closed ==
    /\ TurnOver
    /\ shutdown = "closing"
    /\ \/ isRestart /\ shutdown' = "reopening" /\ UNCHANGED loop
       \/ loop' = "exited" /\ UNCHANGED shutdown
    /\ UNCHANGED <<queueVars, runVars, firstStart, isRestart, runsWait, restarts>>

\* Mutant: the loop wakes without resetting the lanes.
ReopenedWithoutReset ==
    /\ TurnOver
    /\ shutdown = "reopening"
    /\ shutdown' = "none"
    /\ loop' = IF loop = "waiting" THEN "starting" ELSE loop
    /\ UNCHANGED <<queueVars, runVars, firstStart, isRestart, runsWait, restarts>>

\* Mutant: the loop only lifts the drain flag.
ReopenedUnmarked ==
    /\ TurnOver
    /\ shutdown = "reopening"
    /\ shutdown' = "none"
    /\ loop' = IF loop = "waiting" THEN "starting" ELSE loop
    /\ gatewayDraining' = FALSE
    /\ activeTaskIds' = [l \in DOMAIN activeTaskIds |-> {}]
    /\ UNCHANGED <<lanes, queue, maxConcurrent, generation, phase, laneOf, taskGeneration,
                   enqueuedAt, clock, wait, runVars, firstStart, isRestart, runsWait, restarts>>

\* The lock is back: shuttingDown = false and restartResolver?.().  A loop that
\* waits wakes, resets the lanes and starts the server.  A loop that is still
\* starting has armed no resolver, and the call does nothing.
Reopened ==
    /\ TurnOver
    /\ shutdown = "reopening"
    /\ shutdown' = "none"
    /\ IF loop = "waiting"
       THEN loop' = "starting" /\ Q!ResetAllLanes
       ELSE UNCHANGED <<loop, queueVars>>
    /\ UNCHANGED <<runVars, firstStart, isRestart, runsWait, restarts>>

\* The lock is taken by another process, or the force-exit timer fires.
GaveUp ==
    /\ TurnOver
    /\ shutdown # "none"
    /\ loop' = "exited"
    /\ UNCHANGED <<queueVars, runVars, firstStart, shutdown, isRestart, runsWait, restarts>>

Exited == loop = "exited" /\ UNCHANGED vars

RunStep(r) ==
    \/ Submit(r) \/ EnqueueGlobal(r) \/ SettleSession(r)
    \/ CronStartsAgent(r) \/ CronEnds(r)
    \/ BeginAttempt(r) \/ EndAttempt(r) \/ BodyEnds(r)

LoopStep ==
    \/ Started \/ SignalStop \/ SignalRestart \/ BeginDrain
    \/ \E expired \in BOOLEAN : PollTasks(expired) \/ PollRuns(expired)
    \/ DrainOver \/ Closed \/ Reopened \/ GaveUp \/ Exited

Next ==
    \/ \E r \in Requests : RunStep(r)
    \/ \E s \in Sessions : ClearSession(s)
    \/ ApplyLaneConcurrency
    \/ LoopStep

Spec == Init /\ [][Next]_vars

\* What the scheduler owes a request: in-turn steps follow, an attempt times out
\* and ends, and a body out of attempts ends.  Nothing owes it a new attempt.
RunProgress(r) ==
    \/ EnqueueGlobal(r) \/ SettleSession(r)
    \/ CronStartsAgent(r) \/ CronEnds(r)
    \/ EndAttempt(r) \/ BodyEnds(r)

\* The run loop's timers fire, and params.start() and server.close() return.
LoopProgress ==
    \/ Started \/ BeginDrain \/ PollTasks(TRUE) \/ PollRuns(TRUE)
    \/ DrainOver \/ Closed \/ Reopened

RunFairness == \A r \in Requests : WF_vars(RunProgress(r))
LoopFairness == WF_vars(LoopProgress)

FairSpec == Spec /\ RunFairness /\ LoopFairness

-----------------------------------------------------------------------------
(* Properties *)

LanesSpec == Q!Spec

Stale(e) == taskGeneration[e] # generation[laneOf[e]]
InBody(r) == phase[Body(r)] = "running"

\* Two agent runs are in their bodies on one session only when a restart has
\* disowned at least one of them: within a lifecycle the session lane keeps runs
\* apart, also while the gateway drains and after lanes are cleared.
OverlapOnlyAcrossRestarts ==
    \A r1, r2 \in Requests :
        r1 # r2 /\ sessionOf[r1] = sessionOf[r2] /\ InBody(r1) /\ InBody(r2)
        => Stale(SessionEntry(r1)) \/ Stale(SessionEntry(r2))

\* When both waits report "drained", the reset interrupts no agent run of the
\* lifecycle it ends, although entries queued before the signal go on starting
\* while the gateway drains.
CleanDrainInterruptsNoRun ==
    [][(generation' # generation /\ wait.state = "drained" /\ runsWait = "drained")
        => \A r \in Requests : InBody(r) => Stale(SessionEntry(r))]_vars

\* A session does not look idle while its registered run is in an attempt: the end
\* of an attempt a restart disowned leaves the handle of the run that replaced it,
\* on which aborts, steering and the next drain depend.
RegisteredRunStaysVisible ==
    [][\A s \in Sessions :
          activeRuns[s] # NoRun /\ activeRuns[s] \in inAttempt' => activeRuns'[s] # NoRun]_vars

\* No deadlock between the lanes: a request that was accepted comes to an end,
\* although each of its entries holds a slot while it waits for the next one.
AcceptedRequestsEnd ==
    \A r \in Requests :
        phase[Outermost(r)] \in {"queued", "running"} ~>
            (Over(Outermost(r)) \/ loop = "exited")

\* A restart that is asked of a gateway that has started ends its own drain: the
\* process exits or accepts work again.
RestartOfStartedGatewayEnds ==
    (shutdown = "draining" /\ loop = "waiting") ~> (~ gatewayDraining \/ loop = "exited")

\* "Per-session lanes guarantee that only one agent run touches a given session
\* at a time" (docs/concepts/queue.md).
OneRunPerSession ==
    \A r1, r2 \in Requests :
        r1 # r2 /\ sessionOf[r1] = sessionOf[r2] => ~ (InBody(r1) /\ InBody(r2))

=============================================================================
