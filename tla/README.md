# Verification of ButterClaw's gateway core

ButterClaw is a self-hosted assistant gateway: one Node.js process receives messages
from many channels, runs a language-model agent for each session, and sends replies
back. Most of the repository is adapters and user interfaces. What can go wrong between
two lines of it, and what a unit test hardly reaches, is the coordination in the middle:
queues whose entries wait on each other, drains that await a run while the queue under
them changes, a restart that happens inside the same process, files that must survive a
crash, lock files that outlive their owners.

This directory holds TLA+ models of that middle part, TLC configurations that check them
on small instances, and TLAPS proofs for all instances. `PROJECT.json` is the index:
components, runs, mutants, the source lines each definition stands for, findings,
hazards and theorems. All paths below are relative to the repository copy in `src/`, so
that the gateway's own code is `src/src/...`.

Contents

1. [The system](#1-the-system): components, state, operations, interactions, hard parts
2. [The modules](#2-the-modules): how state and actions correspond to the code
3. [The runs](#3-the-runs): what each one checks, bounds, fairness
4. [The proofs](#4-the-proofs): assumptions and arguments
5. [Findings](#5-findings), and divergences read in the models but not run
6. [What is left out](#6-what-is-left-out)
7. [Plan](#7-plan)

## 1. The system

Everything modelled runs on the JavaScript event loop of one gateway process, except the
session lock, which several processes share. A *turn* is synchronous code up to its next
`await`; between two turns anything else may happen. That is the grain of every model: a
step is one turn (or one file operation, where other processes see the files).

### Components

**Command lanes** (`src/src/process/command-queue.ts`). State: a map of named lanes, each
with a FIFO of entries, a set of active task ids, a cap and a generation; a gateway-wide
drain flag. Operations: enqueue, the pump that starts tasks under the cap, completion,
change of cap, clear, mark draining, reset of all lanes (in-process restart), wait for
active tasks. Correct when: bookkeeping and tasks agree, no entry waits on a lane that
has room, entries start in order, a "drained" answer is true.

**Agent runs and the gateway run loop** (`src/src/agents/pi-embedded-runner/{run,runs,
lanes}.ts`, `src/src/cli/gateway-cli/run-loop.ts`, `src/src/gateway/server-lanes.ts`).
A run queues itself on its session's lane, and from there on a global lane, so that it
holds two slots (a manual cron run three); while it talks to the model it has a handle in
`ACTIVE_EMBEDDED_RUNS`. The run loop serves SIGUSR1 by draining lanes and handles with a
timeout, closing the server and starting it again in the same process. Correct when: one
run per session, nested lanes do not deadlock, a clean drain interrupts nothing, a drain
window closes.

**Followup queue** (`src/src/auto-reply/reply/queue/*.ts` on
`src/src/utils/queue-helpers.ts`). State: a map from session to a queue object (items,
settings, dropped count, draining flag), a cache of recent message ids. Operations:
enqueue with dedupe and drop policy, schedule a drain, the drain loop with its debounce
and awaited turns, clear. Correct when: an accepted message is answered, dropped by policy
or cleared, in order, by one drain, and gets its turn. What keeps a session busy is also a
run nobody dispatched, of the gateway's `agent` method.

**Outbound delivery queue** (`src/src/infra/outbound/{deliver,delivery-queue-storage,
delivery-queue-recovery}.ts`). State: files `{id}.json`, `{id}.delivered`, `failed/`.
Operations: write-ahead enqueue, send each payload, acknowledge (rename, unlink), fail
(read, write back), recovery at every start with backoff, budget and a retry limit; nobody
waits for a recovery, so that a restart in the process starts a second one beside it.
Correct when: an accepted message is sent in full or still on disk or given up, over any
crash; an acknowledged one is not replayed; recovery overlooks nothing and ends.

**Session write lock** (`src/src/agents/session-write-lock.ts`). State: a lock file per
session file, and in each process `HELD_LOCKS` with a count. Operations: acquire
(re-entrant, or O_EXCL with retry), inspection and reclaim of stale locks, release, the
watchdog, release on exit and on signals, the start-up sweep. Used around every write to
a transcript and to `sessions.json`. Correct when: one writer at a time, the count equals
the holders, no lock is left behind by a process that is alive.

**Cron service** (`src/src/cron/service/{ops,timer,jobs,store,locked,state}.ts`,
`src/src/cron/schedule.ts`). State: `jobs.json`, and in each service a copy of it, a
timer, and a `running` flag; a job carries its next slot, its last one, the result and a
running marker. Operations, each a section of one lock per file or a few of them: start
with the catch-up of missed jobs, tick, manual run (preflight, reserve, finish), add,
update, remove, reads that repair. Correct when: a job does not run beside itself, a marker
has an owner, no slot is passed over without a reason, a scheduler with jobs has a timer.

**Heartbeat wakes** (`src/src/infra/heartbeat-wake.ts`). State: pending wakes by target, one
timer, flags for a batch under way and for one asked for meanwhile, the handler.
Operations: request, the timer's callback that hands a batch to the handler, registration
and disposal of a handler. Correct when: no wake is lost or loses its priority, one batch
at a time, what is pending has a timer.

**Heartbeat runner** (`startHeartbeatRunner` in `src/src/infra/heartbeat-runner.ts`).
State: a schedule per agent, an interval timer, a stopped flag; for the process, whether
heartbeats are on. Operations: interval timer, run of a wake over the agents it names,
change of the configuration, pause, start and stop. Correct when: heartbeats go on over
busy lanes, reloads and pauses, and each agent has one per interval.

**Modelled later or not at all**: cron governor, evidence ledger, subagent registry and
announce queue, ACP control plane, exec approvals, auth-profile rotation, session store,
restart scheduler, gateway lock, node registry, the context engine's scoring, channels,
plugins, user interfaces. `PROJECT.json` lists each with its reason.

### Interactions

    channel --> dispatch --busy--> FollowupQueue --drain--> run of a followup turn
                    |                                          |
                    +--idle--> runEmbeddedPiAgent <------------+
                                   |  session lane, then global lane    (CommandLanes)
                                   |  ACTIVE_EMBEDDED_RUNS handle       (GatewayRestart)
                                   |  transcript under the session lock (SessionWriteLock)
                                   +--> reply --> deliverOutboundPayloads (DeliveryQueue)
    SIGUSR1 --> run loop: mark draining, wait for lanes and handles, close, reset, start
    start   --> recovery of deliveries, sweep of stale session locks, catch-up of cron
                jobs, a new heartbeat runner
    CronService --main job, or run of an agent--> wake, or the cron lane
    wakes of cron, hooks, commands --> HeartbeatWake --batch--> HeartbeatRunner --> run
    interval timer of HeartbeatRunner ----^        <--busy lane: retry--

### Where it is hard

- A drain awaits a run of `items[0]` and shifts the queue afterwards; meanwhile an
  overflow may have spliced the front off, or `/stop` emptied the array and deleted the
  key, or a new object taken the key.
- A reset disowns tasks that go on running; their completions arrive in a later
  generation.
- An entry of one lane holds its slot while it waits for another lane.
- A drain flag, two snapshots and two polls decide whether a restart interrupts anybody.
- A crash can come between any two file operations; a recovery reads entries that calls,
  or an earlier recovery, of its own process are still working on; `failDelivery` reads and
  writes back.
- A run of the gateway's `agent` method makes arrivals wait, and its end wakes nobody.
- A lock file is judged after it is read and removed, by its path, after that.
- A cron job runs between two sections of the lock; meanwhile it may be edited, disabled,
  removed or run by hand, the process may end, or a hot reload may start a second service
  with a copy of its own.
- Every path through a tick and through a heartbeat run must leave a timer behind.
- A restart in the process leaves the batch of the old heartbeat runner awaiting a run,
  and its end touches flags that the new runner uses.

The hazards in `PROJECT.json` give the line of each and the properties that cover it.

## 2. The modules

| module | models | composed with |
| --- | --- | --- |
| `CommandLanes` | `src/src/process/command-queue.ts` | |
| `GatewayRestart` | agent runs and the run loop on the lanes | `Q == INSTANCE CommandLanes`, `LanesSpec == Q!Spec` is checked |
| `FollowupQueue` | one session's followup queue and its drains | |
| `OutboundPromise` | what the delivery queue promises (abstract) | |
| `DeliveryQueue` | calls, recoveries, files, crashes, restarts | implements `OutboundPromise` |
| `SessionWriteLock` | the lock of one session file | |
| `CronService` | jobs, ticks, manual runs, edits, restarts and reloads | |
| `HeartbeatWake` | the wake layer: operators on its state | |
| `HeartbeatRunner` | the runner, its timers, the clock | extends `HeartbeatWake` |
| `CommandLanesProofs`, `GatewayRestartProofs` | theorems | the second uses the lemmas of the first under `LanesSpec`'s substitution |
| `DeliveryQueueProofs`, `DeliveryRecoveryProofs` | theorems | the second extends the first |
| `FollowupQueueProofs`, `SessionWriteLockProofs`, `HeartbeatRunnerProofs`, `CronServiceProofs` | theorems | |
| `MC...` | constants, symmetry, for TLC | |

Definitions keep the source's names. An operator commented `Mutant:` is a plausible bug,
defined before the definition it replaces; nothing refers to it except `PROJECT.json`,
which uses it to show that the property named there can fail. `map` in `PROJECT.json`
gives the source lines of every definition.

**CommandLanes.** An entry is one call of `enqueueCommandInLane` and stands for its task
id; `phase` says what has become of its promise. `queue`, `activeTaskIds`,
`maxConcurrent`, `generation` are the fields of `LaneState`, `lanes` the keys of the map
(a lane is made on first use; `resetAllLanes` only touches those that exist). `DrainLanes`
is `drainLane` with its pump: the longest prefix of the queue that fits under the cap
starts. `draining` of a lane is set and cleared inside one turn, so no step sees it. Time
stamps count pushes. `wait` is one call of `waitForActiveTasks`; whether its deadline has
passed is a choice.

**GatewayRestart.** A request is a chain of lane entries, outermost first: session and
main lane for a message; cron, session and nested lane for a manual cron run
(`resolveGlobalLane`). The inner enqueue happens in the turn that starts the outer task
and the outer task settles in the microtasks after the inner one: `OwesInner`,
`OwesUnwind` and `TurnOver` keep signals and timers from coming in between. `loop`,
`shutdown`, `isRestart` are where `runGatewayLoop` and its signal handler are, including
the time before `restartResolver` is armed. `ACTIVE_EMBEDDED_RUNS` is keyed by session id
and lanes by session key; the model has one session for both. `params.enqueue` overrides,
which exist for tests, are not modelled. Aborted runs may or may not end.

**FollowupQueue.** `queue[o]` are queue objects, which a drain may hold after the key was
deleted or given to another; `registry` is the key. `drain[o]` is where the async body of
`scheduleFollowupDrain` stands: debouncing, between the check of destinations and the
batch, or in an awaited turn with what it was given. Debounce times are left out: a timer
fires at any later time. `Enqueue` includes the second look of `agent-runner.ts`: a
message queued on a stale view of the active run schedules the drain itself. Two kinds of
run keep the session busy besides the turns of its drain. `primary` is a run that answers a
message at once (`runReplyAgent`), at whose end the drain is scheduled. `agentRun` is one of
the gateway's `agent` method, or of another caller of `runEmbeddedPiAgent` that is not a
dispatch: it is registered in `ACTIVE_EMBEDDED_RUNS`, and its end schedules nothing.
`behindAgent` is history: messages that were queued while such a run was all that was under
way. The remembered callbacks of a session choose no step and are left out, as are the texts of
summaries.

**DeliveryQueue.** Calls, recoveries and the `failDelivery` calls that a recovery
spreads when its budget is spent are workers with a stage between two awaits. A delivery
has `Parts` payloads; sending may fail with or without the message having reached the
channel. Its error may be an `AbortError`, as a send that times out throws: a call takes it
for the abort of its caller and acknowledges the entry (`cut` remembers that), a recovery
counts it as a failure. Before the first payload the channel's handler may fail to be made
(`HandlerFails`), which ends a call under every option. `strict`, `bestEffort` and `watched` (bestEffort with `onError`) are the options a
caller passes; an entry on disk keeps the flag and not the callback. `Leftover` are
entries an older version left with a retry count and no `lastAttemptAt`. `Crash` keeps
the files and nothing else. `Restart` is a restart inside the process: it starts a
recovery, and the earlier ones and all calls go on beside it, so that `listed`, `pending`
and `old` are kept for each start. Backoff and budget are over at any moment, so every schedule
of the code is a behaviour of the model. Channel adapters, plugin hooks that cancel or
rewrite a payload, and the retry loop of the restart notice are not modelled; a payload
that a hook cancels counts as sent. Nor is it modelled that two writers of one entry in one
process use the same temporary file (`delivery-queue-storage.ts`, `writeQueueEntry`): a
write is one step.

**SessionWriteLock.** A lock is named by the call that made it; `file` says which one is
at the path, `written` which payloads are on disk, `held` is `HELD_LOCKS`. A contender
opens, reads, judges what it read (`Stale`: pid, start time, own process, age), looks at
the file's age if there was no payload, and removes whatever is at the path. `disputed` is a
history variable: a removal hit a lock other than the one it was meant for. `pid` may give
two processes the same pid at different times. `StartTimes` says whether the platform
knows process start times; without it a lock of the own pid that `HELD_LOCKS` does not
know is taken for an orphan. `troubles` counts, together, locks that outlive `staleMs`,
releases by the watchdog or by a signal the process survives, and file operations that
fail; `MaxTroubles` bounds them.

**CronService.** `disk` is the file and `mem[s]` the copy of service *s*: the code
loads the file once, and again only where it forces it (`Start`, a tick, the end of a
manual run), so that a section may write a stale copy. A service is one start of
`CronService` in a process; `Boot`, `Crash` and `Reload` are the start of the gateway, the
end of the process and a hot reload, which starts a second service beside the ticks,
catch-up and manual runs of the first. A tick is three sections: due jobs are marked and
saved; workers run them (`StartDue`, `Ends`), in any order up to the concurrency; results
are applied, the slots advanced and the timer armed. A manual run is found due in one
section, reserved in another, run, and finished in a third. `Normalized`, `Maintained`,
`Recomputed` and `AfterRun` are the functions of `jobs.ts` and `timer.ts` that repair
markers, recompute slots and apply a result, with its back-off and its disabling or
deletion of a one-shot. Slots are small integers; a recurring job falls due every `Every`
ticks of the clock, or with a `Stagger` as cron expressions do. The timer is a boolean,
since delays are cut to a minute and a tick finds out for itself what is due. A tick that
fires while another runs arms the timer and nothing else. Ids are never used again. Left
out: what a job does and how long a core goes on after its timeout, schedule errors and
their limit, failure alerts, the minimum gap between two runs (below the clock's grain),
the run log, and `executeJob` and `runDueJobs`, which nothing of the gateway calls. The
cron lane of a manual run is in `GatewayRestart`.

**HeartbeatWake, HeartbeatRunner.** The functions of the wake layer are synchronous, so each
is an operator from a state to the next; the runner's actions apply them. A wake's target
is an agent or `All`; wakes of two sessions of one agent are not told apart. Reasons are
their priority classes. `batch[b]` is a call of the timer's callback: the wakes it still
has to hand over, and where the handler's loop over the agents stands; several exist when
a restart interrupted one. Every action of a batch is a turn of its own, also where the
code goes on in a microtask, which adds interleavings and takes none away. `map` is the
schedule that `updateConfig` replaced while a run was using it. An agent is awaited between
`Execute` and `ExecuteEnds`, in whatever way it ends; quiet hours and a preflight that
skips end it at once, and move the schedule as the code does. An agent that a change of
the configuration has taken out while a run is about to visit it may be run or passed
over, as the two ways of taking it out differ. The clock and all delays are small
integers; an interval is longer than, or as long as, the retry delay. `owed`, `interrupted`,
`slot` and `unsaved` are history. A thrown error of the handler cannot
happen with this handler and is left out.

## 3. The runs

| run | question | instance |
| --- | --- | --- |
| `lanes` | Are the lanes exact, work-conserving, FIFO, within their caps, and their drain honest? | 2 lanes, 3 entries, caps to 2, 2 resets, symmetric |
| `restart` | Over restarts: no overlap that a reset did not cause, visible handles, clean drains interrupt nothing, no deadlock, drains end; steps refine `CommandLanes` | a message and a cron run on one session, 2 restart signals, cap 1 |
| `followup` | No silent loss, order, one drain, everybody gets a turn | 3 messages, 2 destinations, a redelivery, mode changes, 1 failing turn, no overflow |
| `followup_full` | are cleared messages never run, with overflow? | 3 messages, symmetric, cap 2, every drop policy, 1 clear |
| `followup_agent_run` | does a message run next, whatever run it is queued behind? (violated) | 1 message, 1 run of the agent method |
| `delivery` | at least once, nothing overlooked, promise implemented | 2 deliveries of 2 payloads, one left over, 1 crash, 1 send fault, 1 disk fault |
| `delivery_restart` | with recoveries side by side: is an acknowledgement final, does each recovery end? | 1 delivery of 1 payload, 2 starts in a process, 1 crash, 1 send fault, 1 disk fault |
| `delivery_timeout` | is an entry removed only after success? (violated) | 1 strict delivery, 1 send fault |
| `session_lock` | exclusive unless disputed, counts exact, nothing leaked | 3 processes (one with a used pid), 5 calls (one sweep), 1 trouble |
| `cron` | one run at a time, markers with owners, no slot skipped silently, a scheduler that stays awake | a one-shot that succeeds and a recurring job that fails, 2 starts, 1 manual run, 1 edit, 1 failing save, 3 of these together, clock to 2 |
| `heartbeat` | no wake lost, one batch, heartbeats go on, once per interval | 2 agents, 2 runners, 3 configurations, 2 events, clock to 2 |
| `heartbeat_reenabled` | do heartbeats come back when turned on? (violated) | the same |

`PROJECT.json` lists these runs. Four configurations more are kept for what they refute; each
takes TLC seconds, and section 5 says what it finds:

| configuration | module | refuted | instance |
| --- | --- | --- | --- |
| `MCGatewayRestartOverlap.cfg` | `MCGatewayRestart` | `OneRunPerSession` | two messages, 1 restart |
| `MCFollowupQueueClear.cfg` | `MCFollowupQueue` | `NoSilentLoss`, with a clear | 2 messages, 1 clear |
| `MCFollowupQueueOverflow.cfg` | `MCFollowupQueue` | `NoSilentLoss`, with overflow | 3 messages, cap 2, drop policy `old` |
| `MCDeliveryQueueBestEffort.cfg` | `MCDeliveryQueue` | `PartialFailureKept` | 1 delivery, 1 crash, 2 send faults |

**Why the bounds are enough to be interesting.** A lane needs two running tasks and a
waiting one, and tasks of two generations at once (two resets make the case where a
completion is stale by more than one). A restart needs a request that is queued, one that
runs and one that is disowned; the second signal makes a run disowned twice and lets a
handler of one restart meet the start of the next. The cap of 1 on the main lane is the
one where nesting could deadlock. The followup queue needs a message under way, one
behind it and one that arrives; three objects let the key be deleted and made again
twice. A delivery needs two payloads so that one can be sent without the other, a crash,
and a fault at the worst place; the left-over entry exercises migration and the retry
limit. `MaxStarts` bounds the starts in one process: two give two recoveries that hold the
same entry, or a recovery that outlives the call it was started beside. The lock needs an owner, a contender that judges and another that overtakes it,
and a process with the owner's pid. The cron instance has a job of each kind, because a
one-shot is deleted when it succeeds and a recurring job backs off when it fails; two
starts give a crash with a marker on disk or two services side by side; three events are
enough for a manual run, an edit of its job and a restart around it. The heartbeat
instance has two agents so that a run visits one and finds the lane busy at the other,
two runners so that a batch outlives its handler, intervals of one and two ticks so that
an interval run finds an agent due and another not, and two events so that a pause ends,
or a wake meets a restart.

**Fairness.** `GatewayRestart`: an attempt, once begun, ends (runs have timeouts and
abort signals), a body without attempts left ends, an outer task unwinds after its inner
one; the timers of the run loop fire and `params.start()` and `server.close()` return.
Nothing promises a new attempt, a signal or an arrival. `FollowupQueue`: timers fire and
agent turns and runs end, those of the agent method too; failures are bounded. `QueuedGetTurn`
promises a turn to every message that was queued behind a run whose end schedules a drain,
or behind a drain, or behind nothing; one that was queued behind nothing but a run of the
agent method has it once there is such a run or a drain, and not otherwise
(`followup_agent_run`). `DeliveryQueue`: sends return or throw and file
operations complete; crashes are bounded, so one process lives to finish its recoveries.
`CommandLanes` and `SessionWriteLock` have no fairness: nothing in the lock's code
guarantees a contender its turn, and the property that nobody waits on a free lane is a
safety property (`WorkConserving`). The lanes' liveness is checked where tasks have
bodies, in `GatewayRestart`.

`CronService` and `HeartbeatRunner` state no fairness. That a scheduler or a runner does not
fall asleep is stated as a safety property instead (`SchedulerStaysAwake`, `KeepsBeating`): it
has a timer or something under way whose end arms one. Given that timers fire and runs
end, this is what the liveness of both comes to, at a fraction of its cost.

**Deadlock** is checked in every run except those of `SessionWriteLock`, `CronService` and
`HeartbeatRunner`, where every call may be over, the process may be down for good, or the
clock and the events used up; `DeliveryQueue` and `GatewayRestart` have an explicit stuttering step
for a process that is done, so that any other standstill is reported.

## 4. The proofs

The proofs hold for any finite or infinite sets of entries, deliveries, lanes, processes
and calls, any caps, retries and bounds (`CronService` has finitely many jobs, as a file
has); they assume only the named assumptions of the modules. Theorems have the form `Spec => [](...)` or `Spec => [][...]_vars`, except for the
two refinements and for the two theorems about followups that name the behaviours they are
about. Two kinds of assumption are made for the proofs. One says what the code cannot
confuse: an absent value is no value (`NoneAssumption`, `NoRunAssumption`,
`NoReasonAssumption`), and a session lane is no global one (`LanesAssumption`:
`resolveSessionLane` prefixes "session:", `src/src/agents/pi-embedded-runner/lanes.ts:3`).
The other says what the bounds are: numbers, and for `FollowupQueue` that the queue objects
are numbered from 1 without a gap (`BoundsAssumption`), which is how the model makes them.
For `CronService` the intervals, delays and limits are numbers too (`TimesAssumption`,
`LimitsAssumption`), and those the arithmetic divides by or adds are not zero.

**`CommandLanesProofs`**: `TypeCorrect`, `BookkeepingIsExact`, `LanesAreWorkConserving`,
`NothingOvertakes`, `DrainedIsSound`, `StartsStayWithinCap`. The properties are not
inductive on their own. `IInv` adds to the type invariant: `Consistent` (a queue has no
duplicates, holds exactly the queued entries of its lane in the order of their time
stamps, active ids are exactly the running tasks of the current generation, and are
finite, generations of tasks never exceed their lane's); `Full` for each lane
(work conservation); that time stamps lie before the clock; that what a wait has seen at
its start has started; and `DrainedMeansSettled`. The one hard lemma is about
`DrainLanes`: from consistent queues and active sets, pumping keeps them consistent,
leaves a lane either empty or full, and fills no lane beyond its cap. Every operation is
then a small change followed by that lemma, and an operation that does not pump must show
that it does not need to. Entries are FIFO because a queue is sorted by time stamp, so that
a prefix of it starts before the rest.

**`DeliveryQueueProofs`**: `TypeCorrect`, `NothingIsLost` (`AtLeastOnce`) and
`PromiseImplemented` (`PromiseKept`: every step of the queue is a step of
`OutboundPromise` or a stutter). `AtLeastOnce` speaks of files only. It is kept because of
what workers know, which is the strengthening `WorkersKnow`: whoever sends part *n* has
sent all parts before it; whoever is about to rename has sent all of them or serves an
abort error (`aborted` if its caller raised it, `cut` if the channel did); whoever writes
back has an entry in hand. The refinement maps the disk to the
status of each delivery (`Status`): a rename that takes the entry away is `Keep` (or
`Withdraw` after an abort), a move `GiveUp`, an enqueue `Accept`, and a `failDelivery`
that writes back an entry somebody acknowledged in between is `Reopen`.

**`SessionWriteLockProofs`**: `TypeCorrect`, `Exclusive` (`ExclusiveIfUndisputed`),
`Shared` (`SharedUntilLast`) and `NoLeak` (`NothingLeaked`). That nobody else holds the
session cannot be kept by looking at holders only: a call that is about to enter, to
remove its file or to reclaim another's decides it later. The strengthening `IInv` has
four parts. `Agreed`, which is conditional on `Undisputed`: calls that have made the file,
processes that hold the lock and releases that will remove it all mean the lock that is at
the path, and a contender about to reclaim has judged a lock whose process is dead.
`Living`: only processes that are alive hold, release or go on. `Made`: how far the calls
are that made those locks, so that a lock about to be removed is not the one being entered.
`Counted`: the count of an entry is the number of its holders, which makes the last
release the last one. A trouble or a dispute ends what is claimed and is never undone
(`DisputesStay`). `TypeOK`, the counts, `Living` and `Made` hold whatever happens.

**`GatewayRestartProofs`**: `LanesAreImplemented` (`LanesSpec`: every action of the gateway
is an action of `CommandLanes` or leaves the lanes alone), `TypeCorrect`,
`RunsOverlapOnlyAcrossRestarts`, `DrainedRestartsInterruptNoRun` and
`RegisteredRunsStayVisible`. Because of the refinement the invariant of the lanes holds of the gateway and is
its first conjunct, `P!IInv`. To it come: `Chained` (an entry is on the lane it was made for,
and a body is queued or runs only while the entry of its session runs), `Capped` (a session
lane keeps its cap of one, so that one run of a generation is active on it), `Marked` (while
the loop restarts, the lanes are marked as draining) and `Snapshot` (once the drain has
begun, a body that runs belongs to a task that is stale or that the wait has seen). Overlap
follows from `Chained` and `Capped`: two bodies are inside two running session entries, of
which one generation admits one. `Snapshot` is what a successful drain needs: entries that
were queued before the signal start while the gateway drains, but their inner entries are
refused, so that a body the wait has not seen cannot begin.

**`FollowupQueueProofs`**: `TypeCorrect`, `ClearedMessagesNeverRun` (`ClearedNeverRun`),
`OneDrainUntilCleared` (`OneDrain`), `NothingIsLost` (`NoSilentLoss`) and `AnsweredInTurn`
(`AnsweredInOrder`). All steps end in `Schedule`, `Finish` or `Continue`, so what these
three do is shown first (`Scheduled`, `Returned`), and each action is reduced to it
(`Arrives`, `TurnStarts`, `Skips`, `Answers`). `Shaped` says that objects not made yet are
empty. `Placed`, which is unconditional, says that a message is in the queue of one object
and that none of those was cleared: a turn takes from the front of a queue, so a cleared
message is not in it. `Held` says that until the first clear every drain is that of the key's
object. `InLine` is the invariant of the queue as a queue: the arrivals are distinct, the
first of them are answered, and the key's object holds exactly the others in their order;
and what a turn was given is still the front of the queue it was copied from, which is why
the shift or splice after the turn removes what was answered. The last two theorems are
`Spec /\ []Calm => ...`: they speak of the behaviours in which no queue is cleared and the
drop policy takes nothing. Those are the behaviours the properties are true in, as the
findings below say, and the run `followup` has no others; arrivals, redeliveries, failing turns, changes of the mode
and the interleavings of all of them with the awaits of a drain are unrestricted.

**`DeliveryRecoveryProofs`**: `AcknowledgedIsFinal` (`AckedIsFinal`) and
`RecoveryOverlooksNothing` (`NothingOverlooked`). Both hold with any number of recoveries
side by side. They rest on `Owned`: unless a recovery read an entry while a call or another
recovery had it (`shared`), one of them has it to itself (`OneOwner`), and a recovery in one
place at a time: its list, at work, or a deferral (`OnePlaceOf`); who is about to rename is
alone with the entry (`RenameAlone`, which follows); and who works on a file knows that
its delivery was accepted (`Known`).
`Final` says that what was acknowledged and not shared is in nobody's hands any more, so
that no step can send it or write it back. `Accounted` follows each recovery through its list: as
long as no file operation failed, an entry from before its start without a stamp is still on
its way (`Underway`), and what the recovery has read of it still holds of the file
(`AsRead`); a step beside a recovery deletes an entry, stamps it or leaves it as it is
(`BesideAccounted`).

**`HeartbeatRunnerProofs`**: `TypeCorrect`, `NoWakeIsLost`, `OneBatchRunsAtATime`,
`HeartbeatsKeepBeating` (`KeepsBeating`) and `IntervalRunsAreApart` (`OncePerInterval`).
`RunsShaped` says what a batch holds at each stage, `LiveHandles` that a handler is a live
runner's. `Exclusive` ties the running flag to the batches of the handler (`FlagHolds`,
`OneEach`), which gives `OneBatchAtATime`. `OwedIsKept` and `PendingIsArmed` are the two
halves of `NoWakeLost`: a wake is merged with the higher priority wherever it goes, and
every way out of a batch schedules what is pending. `Spacing` says that in the schedule of
the current runner, and in the one a batch goes through, an agent falls due an interval after
its last interval run, and that there is one batch at a time.

**`CronServiceProofs`**: `TypeCorrect`, `RunsAreApart` (`OneRunAtATime`), `NoLostWakeup`
(`SchedulerStaysAwake`), `MarkersAreOwned` (`MarkersHaveOwners`), `MarkersAreKept`
(`MarkersStay`) and `NothingIsSkipped` (`NoSilentSkip`). The argument has four layers.
`IInv` holds whatever happens. Besides the types it says that every record, in the file and
in each copy, is `Sound`: an enabled job lacks a next run only when it is a one-shot that has
succeeded, and its next run is later than its last or that of a one-shot that has not
succeeded (`Unserved`). Why this matters is `ComputedAgain`: where maintenance computes a
next run, because it is missing or served, a sound record gets back the one it had, so that
the maintenance every read does (`MaintainedRecord`) repairs markers and nothing else.
`Solo` says that an execution that is not disowned is the only one of its job. It rests on
`Marks` (such an execution has its marker on disk) and on a fact about each step: what it
begins had no marker there (`StepBeginsUnmarked`).
`Watchful` is about one service: when its start is done and no save has failed, a next run
in its memory means a timer or a tick. It is kept by all services and not only by the
current one, since a reload makes another one current (`AwakeKeeps`).
`Accompanied` is about the life of one service, while no save fails (`Calm`): its memory
and the file agree but for markers that are newer in memory or gone there because they were
too old (`Copies`), and, with cron enabled, each marker in either belongs to an execution. `Traced` is what is shown of every step there: the copy stays one,
markers and next runs of the file stay unless an execution is reported or one of the
exceptions in the property applies. `MarkersStay` and `NoSilentSkip` are read off it.
Without the copy neither could be shown, because ticks and manual runs decide on what was
read before and write back all of it.

**Only model-checked**: `AcceptedRequestsEnd`, `RestartOfStartedGatewayEnds`,
`QueuedGetTurn` and `RecoveryFinishes`: liveness under fairness and `ENABLED` are outside
the prover. Every invariant and action property of a passing run is a theorem. No theorem
needs induction over data. The violated properties of section 5 are TLC's as well.

## 5. Findings

Each is a property that the repository states and TLC refutes: of a run in `PROJECT.json`, or
of one of the configurations of section 3.

- `MCGatewayRestartOverlap.cfg`: after a drain timeout `resetAllLanes` clears the active ids under
  runs that go on, and the session lane admits a second run
  (`src/docs/concepts/queue.md:83`).
- `followup_agent_run`: a message that arrives while a run of the gateway's `agent` method
  is under way on its session, as subagents start one to announce a result, is queued; that
  run ends without scheduling a drain (`agent-runner.ts:248`, `pi-embedded-runner/runs.ts:302`),
  so that the message waits for another one (`src/docs/concepts/queue.md:30`).
- `MCFollowupQueueClear.cfg`: a drain whose object was cleared deletes the key of the object made after
  it (`drain.ts:180`), with the messages queued there: what is sent after `/stop` while the
  stopped turn winds up may be lost.
- `MCFollowupQueueOverflow.cfg`: an overflow during a turn splices the item under way off the
  front, and the shift after the turn removes a message that was never run.
- `delivery_timeout`: a call takes any `AbortError` for the abort of its caller
  (`deliver.ts:258`, `:544`); a send that times out throws one (`src/src/utils/fetch-timeout.ts:56`,
  used by Signal's client), and the entry of a strict message that was not sent is acknowledged.
  `AtLeastOnce` and `PromiseKept` count such a message as withdrawn (`cut`) and promise
  the others.
- `MCDeliveryQueueBestEffort.cfg`: the recovery replays a bestEffort entry without `onError`, so
  that a failure is swallowed and the entry acknowledged.
- `heartbeat_reenabled`: an interval wake that comes while heartbeats are off is turned down
  before the code that arms the interval timer, which has just cleared itself; turning
  heartbeats on again (`src/docs/cli/system.md:41`) sets a flag and arms nothing, so that
  they stay off until some other wake runs or the configuration changes.

Read while modelling, present in the models, and not given a run:

Runs, restarts and locks

- An entry queued before SIGUSR1 starts while the gateway drains; its inner enqueue is
  refused and the message is lost, although queued entries are "intentionally preserved"
  (`src/src/process/command-queue.ts:255`).
- A SIGUSR1 served while `params.start()` is pending finds no armed resolver
  (`run-loop.ts:93`): the lanes are never reset and the gateway refuses work until the next
  one. `RestartOfStartedGatewayEnds` speaks of a gateway that has started.
- A contender removes, by its path, a lock that was made after the one it judged
  (`session-write-lock.ts:558`): two calls hold the session. `ExclusiveIfUndisputed` sets
  this case apart (`disputed`).
- Where start times are unknown, a release that has left `HELD_LOCKS` and not yet removed
  its file is an orphan to the next call of its own process, whose fresh lock the removal
  then deletes (`session-write-lock.ts:149`, `:401`).
- The start-up sweep takes a lock file without a payload for stale whatever its age, and
  so removes one that is being written (`session-write-lock.ts:439`).

Followups and deliveries

- A followup summary runs in the place of the next item, which is then shifted
  (`drain.ts:152`): the item's text is not run on its own. The model does not count it as
  answered; overflow is switched off in the runs that check `NoSilentLoss`.
- Drops during a summary turn are forgotten with the summary (`drain.ts:140`).
- Destinations are checked before an await and the batch copied after it
  (`drain.ts:104-117`).
- With a cap of one outside collect mode a drain can find nothing to consume and
  reschedule itself without end (`drain.ts:164`, `drain.ts:183`).
- The recovery replays entries whose calls are under way in the same process
  (`server.impl.ts:1112`, `delivery-queue-recovery.ts:155`): a message is sent twice.
- A restart in the process starts a recovery and does not end the one before it
  (`server.impl.ts:1113`): the older one may send an entry again that the newer one has
  acknowledged, or write it back (`delivery-queue-storage.ts:184`). `AckedIsFinal` excludes
  exactly the entries that a recovery read while a call or another recovery had them
  (`shared`), and no others.
- `failDelivery` after an acknowledgement brings the entry back
  (`delivery-queue-storage.ts:184`); a crash between the last send and the rename replays
  the whole message. Both are at-least-once, which is what the storage's comments promise.
- The abort of a bestEffort call is one error per payload: a watched one is kept for
  replay, although its caller withdrew it.

Cron

- The end of `start` (`ops.ts:124`) and `add` (`ops.ts:251`) recompute every slot, also one
  that is due and not run yet, which is then skipped without a run: the recomputation
  that the comment in `timer.ts:988` is about. `NoSilentSkip` speaks of the ticks.
- A one-shot interrupted by a crash is not replayed by the catch-up
  (`service.restart-catchup.test.ts:195`) and is run by the first tick, whose test of what is
  due has no such exception; of a recurring job (`:118`) the slot is skipped.
- A hot reload stops the old service by its timer only. Its tick arms the timer again in the
  `finally` (`timer.ts:729`), so that a stopped scheduler goes on, also when the new
  configuration turns cron off (`src/docs/automation/cron-jobs.md:482`).
- The start of the new service clears the markers of jobs that the old one runs; the old
  one's copy is stale, and a manual run it reserves writes that copy back: a one-shot that
  has finished and was deleted is there again and runs again.
- Disabling a job that runs clears its marker (`ops.ts:310`), and any read clears the marker
  of a disabled job that was run by force, so that a second forced run may start beside
  the first. A job removed or disabled while it waits in a batch is started all the same.
- When the save of a result fails, the marker on disk has no owner for `STUCK_RUN_MS`, and
  the slot runs again. When the save in `start` fails, no timer is armed.

Heartbeats

- After a restart in the process, the end of the old runner's batch clears the running
  flag under the new runner's batch (`heartbeat-wake.ts:187`), which a second one may then
  overlap; `OneBatchAtATime` sets this case apart (`interrupted`). The wakes that the
  interrupted batch has not handed over go to the stopped runner, which answers
  "disabled", and are gone.
- A targeted run that finds the lane busy moves the schedule (`heartbeat-runner.ts:1114`) and
  arms the interval timer, which the comment at `:1148` says a busy lane must not do.
- A wake for everybody that is retried after a busy lane runs the agents before the busy
  one again, unless it is an interval wake.
- A change of the configuration during a run replaces the records that the run writes to;
  the agent's time is lost and its next interval run comes at once. `OncePerInterval` sets
  this case apart (`unsaved`).
- A normal timer that is due before the retry delay is over undercuts the cooldown.

## 6. What is left out

Time is abstracted everywhere: a timer fires, a deadline passes and a backoff is over at
any moment. That makes the safety results independent of the numbers in the code, and
says nothing about them. Logging, diagnostics, message texts and formats are left out.
What runs are (prompts, tools, models), what channels do, and how configuration is
validated are outside. Components that are not modelled are listed with reasons in
`PROJECT.json`; the scoring of the context engine (truth boundary, significance, decay,
persona) is sequential arithmetic on floating-point numbers and text, which TLC has no
numbers for.

## 7. Plan

In the order of importance for the system; 1 to 7 are done.

1. `CommandLanes`, `CommandLanesProofs`: everything else runs on them.
2. `GatewayRestart`: the composition, where lanes, runs and restarts meet.
3. `FollowupQueue`: what happens to a message that finds the agent busy.
4. `OutboundPromise`, `DeliveryQueue`, `DeliveryQueueProofs`: what happens to a reply.
5. `SessionWriteLock`, `SessionWriteLockProofs`: who may write a session.
6. `CronService`, `CronServiceProofs`: what runs without a message, at a time.
7. `HeartbeatWake`, `HeartbeatRunner`, `HeartbeatRunnerProofs`: what runs without a message,
   at an interval.
8. `EvidenceLedger`: buffer, chained writes, failures, clear, rebind. Abstract
   specification: an append-only log of what was recorded, per session. The hazard: a failed
   batch goes back to the front of the buffer (`evidence-ledger.ts:184`) while the batch
   after it is written, or after the ledger was cleared or bound to another session.
9. The restart scheduler, whose emitted signal refuses every later one until it is consumed
   (`src/src/infra/restart.ts:113`), before `GatewayRestart`; exec approvals, subagent
   registry, ACP actor queue, cron governor, as far as they add questions the others do
   not ask.

The safety properties of the passing runs are proved. The theorem worth proving next is
that `EvidenceLedger`, once it is there, implements its log.
