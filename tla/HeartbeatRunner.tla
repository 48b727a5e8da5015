--------------------------- MODULE HeartbeatRunner ---------------------------
(***************************************************************************)
(* The runner of heartbeats (startHeartbeatRunner in                        *)
(* src/src/infra/heartbeat-runner.ts) over the wake layer: an interval      *)
(* timer, the schedule of each agent, runs that await one agent after the   *)
(* other, changes of the configuration, pauses, and restarts of the gateway *)
(* in one process, which replace the runner while a batch may be under way. *)
(***************************************************************************)
EXTENDS HeartbeatWake, FiniteSets

CONSTANTS
    Agents,         \* agents with a heartbeat; All is no agent
    All,            \* the wake that names nobody
    Runners,        \* instances of the runner, one after the other
    Configs,        \* each gives the agents their intervals, or None
    Batches,        \* bound: batches under way together
    MaxNow,         \* bound: the clock
    Asked,          \* reasons of the wakes from elsewhere
    MaxEvents       \* bound: wakes from elsewhere, changes of the configuration, pauses,
                    \* resumptions and stops

ASSUME TargetsAssumption == All \notin Agents /\ Targets = Agents \cup {All}
ASSUME AskedAssumption == Asked \subseteq {"wake", "hook"}
ASSUME ConfigsAssumption == Configs \subseteq [Agents -> Nat \cup {None}]
ASSUME BoundsAssumption == MaxNow \in Nat /\ MaxEvents \in Nat

VARIABLES
    now,
    enabled,        \* heartbeatsEnabled
    wake,           \* the wake layer
    runner,         \* state of each runner: timer, agents with their schedule, stopped
    batch,          \* calls of the timer's callback that hand wakes to a handler
    events,
    owed,           \* history: what was asked for and no handler has answered
    interrupted,    \* history: a handler was registered with another's batch under way
    slot,           \* history: the start of the run that last executed an agent
    unsaved         \* history: agents with a run whose time was noted in an old schedule

vars == <<now, enabled, wake, runner, batch, events, owed, interrupted,
          slot, unsaved>>
history == <<owed, interrupted, slot, unsaved>>

Time == 0 .. MaxNow
Intervals == (UNION {{c[a] : a \in Agents} : c \in Configs}) \ {None}
Later == UNION {{t + i : i \in Intervals \cup {Coalesce, Retry, 0}} : t \in Time}
AgentState == [interval : Intervals, last : Time \cup {None}, due : Later]
Schedules == [Agents -> AgentState \cup {None}]
Runner == [at : {"new", "live", "stopped"}, agents : Schedules, timer : Later \cup {None}]
Batch == [by : Runners, delay : {0, Coalesce, Retry}, rest : Wakes,
          at : {"idle", "visiting", "executing"}, key : Targets \cup {None},
          reason : Reasons \cup {None}, start : Time, left : SUBSET Agents,
          agent : Agents \cup {None}, map : Schedules \cup {None}]
WakeTimer == [due : Later, type : {"normal", "retry"}, delay : {0, Coalesce, Retry}]
WakeLayer == [handler : Runners \cup {None}, pending : Wakes, scheduled : BOOLEAN,
              running : BOOLEAN, timer : WakeTimer \cup {None}]

\* The mark of an absent value is no value of any kind.
ASSUME NoneAssumption ==
    /\ None \notin Nat /\ None \notin Runners
    /\ None \notin AgentState /\ None \notin Schedules
    /\ None \notin Batch /\ None \notin WakeTimer

NoAgents == [a \in Agents |-> None]
Between(r, delay, rest) ==
    [by |-> r, delay |-> delay, rest |-> rest, at |-> "idle", key |-> None, reason |-> None,
     start |-> 0, left |-> {}, agent |-> None, map |-> None]

TypeOK ==
    /\ now \in Time /\ enabled \in BOOLEAN
    /\ wake \in WakeLayer
    /\ runner \in [Runners -> Runner]
    /\ wake.handler # None => runner[wake.handler].at = "live"
    /\ \A r \in Runners : runner[r].timer # None =>
          runner[r].at = "live" /\ runner[r].agents # NoAgents
    /\ batch \in [Batches -> Batch \cup {None}]
    /\ events \in 0 .. MaxEvents
    /\ owed \in Wakes /\ interrupted \in SUBSET Runners
    /\ slot \in [Agents -> Time \cup {None}] /\ unsaved \in SUBSET Agents

Init ==
    /\ now = 0 /\ enabled = TRUE
    /\ wake = Unregistered
    /\ runner = [r \in Runners |-> [at |-> "new", agents |-> NoAgents, timer |-> None]]
    /\ batch = [b \in Batches |-> None]
    /\ events = 0
    /\ owed = NoWakes /\ interrupted = {}
    /\ slot = [a \in Agents |-> None] /\ unsaved = {}

-----------------------------------------------------------------------------
(* The schedule *)

UnderWay == {b \in Batches : batch[b] # None}
Scheduled(agents) == {a \in Agents : agents[a] # None}

\* scheduleNext of a runner that is not stopped.
ScheduleNext(state) ==
    LET due == {state.agents[a].due : a \in Scheduled(state.agents)}
    IN  IF state.at = "stopped" THEN state
        ELSE [state EXCEPT !.timer = IF due = {} THEN None
                                     ELSE CHOOSE t \in due : \A u \in due : t <= u]

ResolveNextDue(interval, prev) ==
    CASE prev # None /\ prev.last # None -> prev.last + interval
      [] prev # None /\ prev.last = None /\ prev.interval = interval /\ prev.due > now ->
            prev.due
      [] OTHER -> now + interval

\* updateConfig: the schedule of every agent is a new record.
Configured(state, config) ==
    ScheduleNext([state EXCEPT !.agents =
        [a \in Agents |->
            IF config[a] = None THEN None
            ELSE [interval |-> config[a],
                  last |-> IF state.agents[a] = None THEN None ELSE state.agents[a].last,
                  due |-> ResolveNextDue(config[a], state.agents[a])]]])

\* The schedule a run goes by: that of its runner, or the one that a change of the
\* configuration has replaced since the run began.
ScheduleOf(b) == IF batch[b].map # None THEN batch[b].map ELSE runner[batch[b].by].agents

\* Mutant: a run leaves the time of the next one as it was.
AdvanceNothing(agents, a, start) == [agents EXCEPT ![a].last = start]

\* advanceAgentSchedule
Advance(agents, a, start) ==
    [agents EXCEPT ![a].last = start, ![a].due = start + agents[a].interval]

-----------------------------------------------------------------------------
(* Timers *)

\* requestHeartbeatNow by cron jobs, hooks, finished commands, ...
Request(k, reason) ==
    /\ events < MaxEvents
    /\ events' = events + 1
    /\ wake' = RequestHeartbeatNow(wake, now, k, reason, Coalesce)
    /\ owed' = [owed EXCEPT ![k] = Higher(@, reason)]
    /\ UNCHANGED <<now, enabled, runner, batch, interrupted, slot, unsaved>>

\* The interval timer of a runner.
IntervalTimerFires(r) ==
    /\ runner[r].timer # None /\ runner[r].timer <= now
    /\ runner' = [runner EXCEPT ![r].timer = None]
    /\ wake' = RequestHeartbeatNow(wake, now, All, "interval", 0)
    /\ owed' = [owed EXCEPT ![All] = Higher(@, "interval")]
    /\ UNCHANGED <<now, enabled, batch, events, interrupted, slot, unsaved>>

\* The callback of the wake layer's timer.
WakeTimerFires ==
    LET w == Fired(wake) IN
    /\ wake.timer # None /\ wake.timer.due <= now
    /\ \/ /\ w.handler = None
          /\ wake' = w
          /\ UNCHANGED batch
       \/ /\ w.handler # None /\ Occupied(w)
          /\ wake' = Postponed(w, now, wake.timer)
          /\ UNCHANGED batch
       \/ /\ w.handler # None /\ ~ Occupied(w)
          /\ wake' = Taken(w)
          /\ \E b \in Batches \ UnderWay :
                batch' = [batch EXCEPT ![b] = Between(w.handler, wake.timer.delay, w.pending)]
    /\ UNCHANGED <<now, enabled, runner, events>>
    /\ UNCHANGED history

-----------------------------------------------------------------------------
(* Batches *)

\* The handler has answered the wake of batch b.
Answered(b) == batch' = [batch EXCEPT ![b] = Between(@.by, @.delay, @.rest)]
Settled(k) == owed' = [owed EXCEPT ![k] = wake.pending[k]]

\* The batch calls the handler, which turns the wake down at once ...
TurnedDown(b, k) ==
    LET r == batch[b].by IN
    /\ batch[b].at = "idle" /\ batch[b].rest[k] # None
    /\ \/ runner[r].at = "stopped" /\ UNCHANGED runner
       \/ runner[r].at = "live" /\ ~ enabled /\ UNCHANGED runner
       \/ runner[r].at = "live" /\ enabled /\ runner[r].agents = NoAgents /\ UNCHANGED runner
       \/ /\ runner[r].at = "live" /\ enabled
          /\ k # All /\ runner[r].agents # NoAgents /\ runner[r].agents[k] = None
          /\ runner' = [runner EXCEPT ![r] = ScheduleNext(@)]
    /\ batch' = [batch EXCEPT ![b].rest[k] = None]
    /\ Settled(k)
    /\ UNCHANGED <<now, enabled, wake, events, interrupted, slot, unsaved>>

\* ... or begins a run over the agents it names.
BeginRun(b, k) ==
    LET agents == runner[batch[b].by].agents IN
    /\ batch[b].at = "idle" /\ batch[b].rest[k] # None
    /\ runner[batch[b].by].at = "live" /\ enabled
    /\ agents # NoAgents
    /\ k # All => agents[k] # None
    /\ batch' = [batch EXCEPT ![b] = [@ EXCEPT !.rest[k] = None, !.at = "visiting", !.key = k,
                                         !.reason = batch[b].rest[k], !.start = now,
                                         !.left = IF k = All THEN Scheduled(agents) ELSE {k}]]
    /\ UNCHANGED <<now, enabled, wake, runner, events>>
    /\ UNCHANGED history

\* Mutant: every agent is due.
DueAlways(b, a) == TRUE

\* An interval run passes over the agents that are not due.
Due(b, a) ==
    batch[b].key = All /\ batch[b].reason = "interval" => batch[b].start >= ScheduleOf(b)[a].due

\* runOnce gets past its first checks and awaits the agent's turn ...
Execute(b, a) ==
    /\ batch[b].at = "visiting" /\ a \in batch[b].left /\ Due(b, a)
    /\ enabled
    /\ batch' = [batch EXCEPT ![b].at = "executing", ![b].agent = a]
    /\ slot' = [slot EXCEPT ![a] = batch[b].start]
    /\ UNCHANGED <<now, enabled, wake, runner, events, owed, interrupted,
                   unsaved>>

\* ... which ends, in whatever way ...
Noted(b, a) ==
    IF batch[b].map = None
    THEN /\ runner' = [runner EXCEPT ![batch[b].by].agents = Advance(@, a, batch[b].start)]
         /\ unsaved' = unsaved \ {a}
    ELSE /\ UNCHANGED runner
         /\ unsaved' = unsaved \cup {a}
ExecuteEnds(b) ==
    /\ batch[b].at = "executing"
    /\ Noted(b, batch[b].agent)
    /\ batch' = [batch EXCEPT ![b] =
          [@ EXCEPT !.at = "visiting", !.agent = None,
                    !.left = batch[b].left \ {batch[b].agent},
                    !.map = IF batch[b].map = None THEN None
                            ELSE Advance(batch[b].map, batch[b].agent, batch[b].start)]]
    /\ UNCHANGED <<now, enabled, wake, events, owed, interrupted, slot>>

\* ... or heartbeats are off by now, or perhaps those of this agent, and it is passed
\* over ...
Disabled(b, a) ==
    /\ batch[b].at = "visiting" /\ a \in batch[b].left /\ Due(b, a)
    /\ ~ enabled \/ runner[batch[b].by].agents[a] = None
    /\ batch' = [batch EXCEPT ![b].left = @ \ {a}]
    /\ UNCHANGED <<now, enabled, wake, runner, events>>
    /\ UNCHANGED history

\* Mutant: a busy lane ends the wake.
RetriedNever(w, k, reason) == w

\* The answer "requests-in-flight" as the batch takes it.
BusyAnswer(w, k, reason) == Retried(w, now, k, reason)

\* ... or the main lane is busy: the run ends with that answer, and without arming the
\* interval timer; a run of one agent arms it, and counts as one.
LaneBusy(b, a) ==
    LET r == batch[b].by
        k == batch[b].key
    IN
    /\ batch[b].at = "visiting" /\ a \in batch[b].left /\ Due(b, a)
    /\ enabled
    /\ wake' = BusyAnswer(wake, k, batch[b].reason)
    /\ runner' = IF k = All THEN runner
                 ELSE [runner EXCEPT ![r] = ScheduleNext(
                          IF batch[b].map # None THEN @
                          ELSE [@ EXCEPT !.agents = Advance(runner[r].agents, a, batch[b].start)])]
    /\ Answered(b)
    /\ UNCHANGED <<now, enabled, events>>
    /\ UNCHANGED history

\* Mutant: a run that found nobody due does not arm the interval timer.
RearmedIfRan(b) == IF batch[b].reason = "interval" THEN runner[batch[b].by]
                   ELSE ScheduleNext(runner[batch[b].by])

\* The finally block of run.
Rearmed(b) == ScheduleNext(runner[batch[b].by])

\* The run has visited everybody.
EndRun(b) ==
    /\ batch[b].at = "visiting"
    /\ \A a \in batch[b].left : ~ Due(b, a)
    /\ runner' = [runner EXCEPT ![batch[b].by] = Rearmed(b)]
    /\ Answered(b)
    /\ Settled(batch[b].key)
    /\ UNCHANGED <<now, enabled, wake, events, interrupted, slot, unsaved>>

BatchEnds(b) ==
    /\ batch[b].at = "idle" /\ batch[b].rest = NoWakes
    /\ batch' = [batch EXCEPT ![b] = None]
    /\ wake' = BatchOver(wake, now, batch[b].delay)
    /\ UNCHANGED <<now, enabled, runner, events>>
    /\ UNCHANGED history

-----------------------------------------------------------------------------
(* What happens to a runner *)

\* startHeartbeatRunner
StartRunner(r, config) ==
    /\ runner[r].at = "new" /\ \A q \in Runners : runner[q].at # "live"
    /\ runner' = [runner EXCEPT ![r] = Configured([@ EXCEPT !.at = "live"], config)]
    /\ wake' = Registered(wake, r, now)
    /\ interrupted' = IF UnderWay = {} THEN interrupted ELSE interrupted \cup {r}
    /\ UNCHANGED <<now, enabled, batch, events, owed, slot, unsaved>>

\* The cleanup of a runner, with the gateway's.
StopRunner(r) ==
    /\ runner[r].at = "live" /\ events < MaxEvents
    /\ events' = events + 1
    /\ runner' = [runner EXCEPT ![r].at = "stopped", ![r].timer = None]
    /\ wake' = Disposed(wake, r)
    /\ UNCHANGED <<now, enabled, batch>>
    /\ UNCHANGED history

UpdateConfig(r, config) ==
    /\ runner[r].at = "live" /\ events < MaxEvents
    /\ events' = events + 1
    /\ runner' = [runner EXCEPT ![r] = Configured(@, config)]
    /\ batch' = [b \in Batches |->
                    IF batch[b] # None /\ batch[b].by = r /\ batch[b].at # "idle"
                          /\ batch[b].map = None
                    THEN [batch[b] EXCEPT !.map = runner[r].agents] ELSE batch[b]]
    /\ UNCHANGED <<now, enabled, wake>>
    /\ UNCHANGED history

\* set-heartbeats
SetHeartbeatsEnabled ==
    /\ events < MaxEvents
    /\ events' = events + 1
    /\ enabled' = ~ enabled
    /\ UNCHANGED <<now, wake, runner, batch>>
    /\ UNCHANGED history

ClockTicks ==
    /\ now < MaxNow
    /\ now' = now + 1
    /\ UNCHANGED <<enabled, wake, runner, batch, events>>
    /\ UNCHANGED history

Next ==
    \/ ClockTicks \/ SetHeartbeatsEnabled \/ WakeTimerFires
    \/ \E k \in Targets, reason \in Asked : Request(k, reason)
    \/ \E r \in Runners : IntervalTimerFires(r) \/ StopRunner(r)
    \/ \E r \in Runners, config \in Configs : StartRunner(r, config) \/ UpdateConfig(r, config)
    \/ \E b \in UnderWay :
          \/ \E k \in Targets : TurnedDown(b, k) \/ BeginRun(b, k)
          \/ \E a \in Agents : Execute(b, a) \/ Disabled(b, a) \/ LaneBusy(b, a)
          \/ ExecuteEnds(b) \/ EndRun(b) \/ BatchEnds(b)

Spec == Init /\ [][Next]_vars

-----------------------------------------------------------------------------
(* Properties *)

\* The reason with which batch b holds a wake of target k, None if it does not.
HeldBy(b, k) == IF batch[b].key = k THEN batch[b].reason ELSE batch[b].rest[k]

\* A wake that was asked for is neither lost nor demoted until a handler has answered it
\* otherwise than with a busy lane, over coalescing, retries and restarts; and what is
\* pending has a timer or a batch whose end arms one, as long as there is a handler.
NoWakeLost ==
    /\ \A k \in Targets : owed[k] # None =>
          \/ AtLeast(wake.pending[k], owed[k])
          \/ \E b \in UnderWay : AtLeast(HeldBy(b, k), owed[k])
    /\ wake.pending # NoWakes /\ wake.handler # None => wake.timer # None \/ UnderWay # {}

\* Two batches of one handler never run together, unless it was registered while a batch
\* of the handler before it was under way: the end of that one clears the flag of both.
OneBatchAtATime ==
    \A r \in Runners \ interrupted : Cardinality({b \in UnderWay : batch[b].by = r}) <= 1

\* If runner r has agents, its interval timer is armed, or a wake for everybody that r is
\* to answer will arm it.
Beats(r) ==
    runner[r].at = "live" /\ runner[r].agents # NoAgents =>
        \/ runner[r].timer # None
        \/ wake.pending[All] # None
        \/ \E b \in UnderWay : batch[b].by = r /\ HeldBy(b, All) # None

\* Heartbeats never stop by themselves, over wakes of all kinds, busy lanes, changes of the
\* configuration and restarts: the step that stops them is taken while they are off.
KeepsBeating == [][\A r \in Runners : Beats(r) /\ ~ Beats(r)' => ~ enabled]_vars

\* "enable: turn heartbeats back on (use this if they were disabled)"
\* (src/docs/cli/system.md:41).
EnableResumes == enabled => \A r \in Runners : Beats(r)

\* The interval runs that execute an agent are an interval apart from the run before,
\* unless the configuration changed during that one, or a restart interrupted a batch.
OncePerInterval ==
    [][\A b \in UnderWay :
          /\ batch[b].at = "visiting" /\ batch'[b] # None /\ batch'[b].at = "executing"
          /\ batch[b].key = All /\ batch[b].reason = "interval" /\ interrupted = {}
          => LET a == batch'[b].agent
             IN  \/ slot[a] = None \/ a \in unsaved
                 \/ batch[b].start >= slot[a] + ScheduleOf(b)[a].interval]_vars

=============================================================================
