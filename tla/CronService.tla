---------------------------- MODULE CronService ----------------------------
(***************************************************************************)
(* The cron service (src/src/cron/service): jobs.json, the copy of it each *)
(* CronService instance keeps in memory, timer ticks, the catch-up of a    *)
(* start, manual runs, edits, crashes and hot reloads of the scheduler.    *)
(*                                                                         *)
(* Code under locked() is serialised per store file, over all instances    *)
(* (locked.ts); such a section is one step here.  Jobs execute outside of  *)
(* it and are kept apart by a marker in the job's record, runningAtMs,     *)
(* which is written under the lock before a job starts and taken away with *)
(* its result.  Saving is an atomic rename, which may fail: the section    *)
(* then throws with its changes in memory and none on disk.                *)
(***************************************************************************)
EXTENDS Integers, FiniteSets, Functions

CONSTANTS
    Jobs,           \* job ids
    Services,       \* CronService instances of one process
    Calls,          \* bound: manual runs asked for
    Initially,      \* the sets of jobs that jobs.json may hold at first
    kind,           \* "at", "every" or "cron", for each job
    at,             \* atMs of an "at" job, anchorMs of an "every" job
    Every,          \* everyMs, and the distance of the slots of a cron expression
    DeleteAfterRun, \* one-shot jobs with deleteAfterRun
    Outcomes,       \* how the core of each job may end: "ok", "skipped", "error", "permanent"
    Backoff,        \* errorBackoffMs
    MaxAttempts,    \* retries of a one-shot job
    StuckRun,       \* STUCK_RUN_MS
    MaxConcurrent,  \* cron.maxConcurrentRuns
    MaxImmediate,   \* maxMissedJobsPerRestart
    Stagger,        \* missedJobStaggerMs
    MaxNow,         \* bound: the clock
    MaxEdits,       \* bound: additions, updates and removals
    MaxFaults,      \* bound: saves that fail
    MaxStarts,      \* bound: starts of a service
    MaxEvents,      \* bound: all of these, and manual runs, together
    None

ASSUME TimesAssumption ==
    /\ Every \in Nat \ {0} /\ Backoff \in Nat \ {0} /\ Stagger \in Nat \ {0}
    /\ StuckRun \in Nat /\ MaxNow \in Nat
    /\ kind \in [Jobs -> {"at", "every", "cron"}] /\ at \in [Jobs -> Nat]
ASSUME LimitsAssumption ==
    /\ Initially \subseteq SUBSET Jobs /\ IsFiniteSet(Jobs)
    /\ MaxAttempts \in Nat /\ MaxConcurrent \in Nat \ {0} /\ MaxImmediate \in Nat
    /\ MaxEdits \in Nat /\ MaxFaults \in Nat /\ MaxStarts \in Nat /\ MaxEvents \in Nat
    /\ Outcomes \in [Jobs -> SUBSET {"ok", "skipped", "error", "permanent"}]

VARIABLES
    now,
    disk,           \* jobs.json
    mem,            \* state.store of each service, None when not loaded
    svc,            \* state of each service: start(), timer, onTimer
    current,        \* the service behind the gateway's cron methods, None when down
    call,           \* manual runs
    work,           \* executions by who reports them: a tick, a catch-up or a manual run
    known,          \* ids given out by createJob
    disowned,       \* history: jobs whose execution has been without its marker
    edits, faults, starts

vars == <<now, disk, mem, svc, current, call, work, known, disowned, edits, faults, starts>>

Time == 0 .. MaxNow
Tick(s) == <<"tick", s>>
Catchup(s) == <<"catchup", s>>
Manual(c) == <<"manual", c>>
Owners == {Tick(s) : s \in Services} \cup {Catchup(s) : s \in Services}
              \cup {Manual(c) : c \in Calls}

Job == [enabled : BOOLEAN, next : Nat \cup {None}, running : Time \cup {None},
        lastRun : Time \cup {None}, status : {"ok", "skipped", "error", None},
        errors : 0 .. MaxAttempts + 1]
Store == [Jobs -> Job \cup {None}]

ASSUME NoneAssumption ==
    /\ None \notin Nat /\ None \notin Jobs /\ None \notin Services
    /\ None \notin {"ok", "skipped", "error", "permanent"}
    /\ None \notin Job /\ None \notin Store

Service == [startup : {"off", "plan", "run", "arm", "done", "failed"}, enabled : BOOLEAN,
            aside : SUBSET Jobs, timer : BOOLEAN, running : BOOLEAN, bound : BOOLEAN]
Execution == [at : {"none", "waiting", "running", "ended"}, started : Time, ended : Time,
              status : (UNION {Outcomes[j] : j \in Jobs}) \cup {None}]
Call == [at : {"idle", "reserving", "running", "over"}, job : Jobs \cup {None},
         keeps : BOOLEAN, now : Time, svc : Services \cup {None}]

Off == [startup |-> "off", enabled |-> FALSE, aside |-> {}, timer |-> FALSE,
        running |-> FALSE, bound |-> FALSE]
NoExecution == [at |-> "none", started |-> 0, ended |-> 0, status |-> None]
Waiting == [NoExecution EXCEPT !.at = "waiting"]
NoWork == [j \in Jobs |-> NoExecution]
Idle == [at |-> "idle", job |-> None, keeps |-> FALSE, now |-> 0, svc |-> None]
Over == [Idle EXCEPT !.at = "over"]

\* The timer of a service is armed only while its start got as far as loading jobs,
\* and a tick waits for executions of its own.
TypeOK ==
    /\ now \in Time
    /\ disk \in Store
    /\ mem \in [Services -> Store \cup {None}]
    /\ svc \in [Services -> Service]
    /\ \A s \in Services : svc[s].timer => svc[s].enabled /\ mem[s] # None
    /\ \A s \in Services : svc[s].running <=> work[Tick(s)] # NoWork
    /\ current \in Services \cup {None}
    /\ call \in [Calls -> Call]
    /\ work \in [Owners -> [Jobs -> Execution]]
    /\ known \in SUBSET Jobs /\ disowned \in SUBSET Jobs
    /\ edits \in 0 .. MaxEdits /\ faults \in 0 .. MaxFaults /\ starts \in 0 .. MaxStarts

-----------------------------------------------------------------------------
(* Schedules *)

Stored(st) == {j \in Jobs : st[j] # None}
Marked(r) == r # None /\ r.running # None

\* The first slot of an interval, after its anchor, that is not before t.
EverySlot(j, t) ==
    IF t < at[j] THEN at[j]
    ELSE LET steps == (t - at[j] + Every - 1) \div Every
         IN  at[j] + (IF steps < 1 THEN 1 ELSE steps) * Every

\* The first slot of a cron expression after t, and the last one before it.
CronSlot(t) == (t \div Every + 1) * Every
PreviousCronSlot(t) == ((t - 1) \div Every) * Every

\* computeJobNextRunAtMs.  A one-shot stays due until it has succeeded.
ComputeNext(j, r, t) ==
    IF ~ r.enabled THEN None
    ELSE CASE kind[j] = "every" ->
                 IF r.lastRun # None /\ r.lastRun + Every > t THEN r.lastRun + Every
                 ELSE EverySlot(j, t)
           [] kind[j] = "cron" -> CronSlot(t)
           [] kind[j] = "at" ->
                 IF r.status = "ok" /\ r.lastRun # None /\ at[j] <= r.lastRun THEN None
                 ELSE at[j]

\* Mutant: any marker is taken for a stale one.
NormalizedAnyMarker(r) ==
    [r EXCEPT !.running = None, !.next = IF r.enabled THEN @ ELSE None]

\* normalizeJobTickState: a disabled job has no next run and no marker, and a marker
\* older than STUCK_RUN_MS is taken for one whose owner is gone.
Normalized(r) ==
    IF ~ r.enabled THEN [r EXCEPT !.next = None, !.running = None]
    ELSE [r EXCEPT !.running = IF @ # None /\ now - @ > StuckRun THEN None ELSE @]

\* recomputeNextRuns: every next run that is missing or past is computed anew.
Recomputed(st) ==
    [j \in Jobs |->
        IF st[j] = None THEN None
        ELSE LET r == Normalized(st[j])
             IN  IF r.enabled /\ (r.next = None \/ now >= r.next)
                 THEN [r EXCEPT !.next = ComputeNext(j, r, now)] ELSE r]

\* Mutant: past next runs are advanced whether they were served or not.
ServedUnchecked(r) == r.next # None /\ now >= r.next /\ r.running = None

\* The past next run was served already.
Served(r) ==
    /\ r.next # None /\ now >= r.next /\ r.running = None
    /\ r.lastRun # None /\ r.lastRun >= r.next

\* recomputeNextRunsForMaintenance
Maintained(st, recomputeExpired) ==
    [j \in Jobs |->
        IF st[j] = None THEN None
        ELSE LET r == Normalized(st[j])
             IN  IF r.enabled /\ (r.next = None \/ (recomputeExpired /\ Served(r)))
                 THEN [r EXCEPT !.next = ComputeNext(j, r, now)] ELSE r]

MaxOf(a, b) == IF a # None /\ a > b THEN a ELSE b

\* applyJobResult: the record after a run, None when a one-shot is deleted.  A forced run
\* keeps the rhythm of an interval.
AfterRun(j, r, e, keeps) ==
    LET failed == e.status \in {"error", "permanent"}
        errors == IF ~ failed THEN 0
                  ELSE IF r.errors > MaxAttempts THEN r.errors ELSE r.errors + 1
        ran == [r EXCEPT !.running = None, !.lastRun = e.started, !.errors = errors,
                         !.status = IF failed THEN "error" ELSE e.status]
        natural == ComputeNext(j, IF keeps THEN [ran EXCEPT !.lastRun = r.lastRun]
                                  ELSE ran, e.ended)
        next == IF kind[j] = "at"
                THEN IF e.status = "error" /\ errors <= MaxAttempts
                     THEN e.ended + Backoff ELSE None
                ELSE IF ~ r.enabled THEN None
                ELSE IF failed THEN MaxOf(natural, e.ended + Backoff) ELSE natural
    IN  IF kind[j] = "at" /\ j \in DeleteAfterRun /\ e.status = "ok" THEN None
        ELSE [ran EXCEPT !.next = next,
                         !.enabled = @ /\ (kind[j] = "at" => next # None)]

\* isErrorBackoffPending, of a recurring job
BackoffPending(r) ==
    r.status = "error" /\ r.lastRun # None /\ now < r.lastRun + Backoff

PastDue(r) == r.next # None /\ now >= r.next

\* Mutant: a tick looks at the next run only.
RunnableMarked(r) == r # None /\ r.enabled /\ PastDue(r)

\* isRunnableJob, as a tick uses it.
Runnable(r) == r # None /\ r.enabled /\ r.running = None /\ PastDue(r)

\* isRunnableJob, as the catch-up of a start uses it: a one-shot that has run is only
\* retried, and the last slot of a cron expression is made up for.
Missed(j, r) ==
    /\ r # None /\ r.enabled /\ r.running = None
    /\ IF kind[j] = "at" /\ r.status # None
       THEN r.status = "error" /\ r.lastRun # None /\ PastDue(r) /\ r.next > r.lastRun
       ELSE \/ PastDue(r)
            \/ /\ kind[j] = "cron" /\ r.lastRun # None
               /\ r.next = None \/ ~ BackoffPending(r)
               /\ PreviousCronSlot(now) > r.lastRun

-----------------------------------------------------------------------------
(* Sections of the lock *)

\* Room for another edit, manual run, start or failure.
Room == edits + faults + starts + Cardinality({c \in Calls : call[c] # Idle}) < MaxEvents

\* persist: the atomic save of a section, or its failure.
Save(st, saved) ==
    /\ saved \/ (faults < MaxFaults /\ Room)
    /\ disk' = IF saved THEN st ELSE disk
    /\ faults' = IF saved THEN faults ELSE faults + 1

\* A section that saves only what it changed.
SaveChanged(old, st, saved) ==
    IF st = old THEN saved /\ UNCHANGED <<disk, faults>> ELSE Save(st, saved)

\* ensureLoaded without forceReload trusts the copy in memory.
InMemory(s) == IF mem[s] = None THEN disk ELSE mem[s]
Keep(s, st) == mem' = [mem EXCEPT ![s] = st]

\* Mutant: the timer is armed with cron disabled, too.
ArmedAlways(s, st) == \E j \in Stored(st) : st[j].enabled /\ st[j].next # None

\* Mutant: a job that is already due arms no timer.
ArmedForFuture(s, st) ==
    svc[s].enabled /\ \E j \in Stored(st) : st[j].enabled /\ st[j].next # None /\ st[j].next > now

\* armTimer: the delay is floored and capped, so that an armed timer may fire any time.
Armed(s, st) == svc[s].enabled /\ \E j \in Stored(st) : st[j].enabled /\ st[j].next # None

Rearm(s, st) == svc' = [svc EXCEPT ![s].timer = Armed(s, st)]

With(st, o) ==
    [j \in Jobs |-> IF work[o][j].at = "ended" /\ st[j] # None
                    THEN AfterRun(j, st[j], work[o][j], FALSE) ELSE st[j]]
Dropped(o) == work' = [work EXCEPT ![o] = NoWork]
Busy(o) == \E j \in Jobs : work[o][j].at \in {"waiting", "running"}

Marking(st, js) ==
    [j \in Jobs |-> IF j \in js THEN [st[j] EXCEPT !.running = now] ELSE st[j]]
Queued(o, js) ==
    work' = [work EXCEPT ![o] = [j \in Jobs |-> IF j \in js THEN Waiting ELSE NoExecution]]

-----------------------------------------------------------------------------
(* Starting *)

\* Mutant: a start leaves the markers it finds.
UnmarkedNone(st) == st

\* The markers of runs that an earlier process, or an earlier service, began.
Unmarked(st) ==
    [j \in Jobs |-> IF Marked(st[j]) THEN [st[j] EXCEPT !.running = None] ELSE st[j]]

\* start() of service s: nothing when cron is disabled, otherwise its first section,
\* which clears every marker it finds and sets those jobs aside.
Start(s, on, before, saved) ==
    LET marked == {j \in Jobs : Marked(disk[j])}
        cleared == Unmarked(disk)
        phase == IF ~ on THEN "done" ELSE IF saved THEN "plan" ELSE "failed"
    IN
    /\ starts < MaxStarts /\ Room
    /\ starts' = starts + 1
    /\ current' = s
    /\ IF on THEN Keep(s, cleared) /\ SaveChanged(disk, cleared, saved)
             ELSE saved /\ UNCHANGED <<mem, disk, faults>>
    /\ svc' = [before EXCEPT ![s] = [Off EXCEPT !.startup = phase, !.enabled = on,
                                                !.aside = IF on THEN marked ELSE {}]]
    /\ UNCHANGED <<now, call, work, known, edits>>

\* The gateway process starts.
Boot(s, on, saved) == current = None /\ Start(s, on, svc, saved)

\* A change of the configuration under cron, or a restart in the same process: the
\* timer of the old service is stopped, unless its tick waits for the lock by now, and
\* whatever it has under way goes on.
Reload(s, on, saved) ==
    /\ current # None
    /\ svc[s] = Off
    /\ \E fired \in {FALSE, svc[current].timer} :
          Start(s, on, [svc EXCEPT ![current].timer = fired], saved)

\* planStartupCatchup: the jobs with the earliest next run go first, up to a limit.
PlanCatchup(s, saved) ==
    LET missed == {j \in Jobs \ svc[s].aside : Missed(j, mem[s][j])}
        due(j) == IF mem[s][j].next = None THEN 0 ELSE mem[s][j].next
        earliest(js) == \A i \in js, j \in missed \ js : due(i) <= due(j)
        size == IF Cardinality(missed) < MaxImmediate THEN Cardinality(missed)
                ELSE MaxImmediate
    IN
    /\ svc[s].startup = "plan"
    /\ IF missed = {}
       THEN /\ saved
            /\ svc' = [svc EXCEPT ![s].startup = "arm", ![s].aside = {}]
            /\ UNCHANGED <<disk, faults, mem, work>>
       ELSE \E js \in SUBSET missed :
            /\ Cardinality(js) = size /\ earliest(js)
            /\ Keep(s, Marking(mem[s], js))
            /\ Save(Marking(mem[s], js), saved)
            /\ svc' = [svc EXCEPT ![s].startup = IF saved THEN "run" ELSE "failed",
                                  ![s].aside = IF saved THEN missed \ js ELSE {}]
            /\ IF saved THEN Queued(Catchup(s), js) ELSE UNCHANGED work
    /\ UNCHANGED <<now, current, call, known, edits, starts>>

\* applyStartupCatchupOutcomes: the jobs that were set aside are put off, one after the
\* other (in the order of their next runs, which is left open here).
ApplyCatchup(s, saved) ==
    LET ran == With(mem[s], Catchup(s))
        late == {j \in svc[s].aside : ran[j] # None /\ ran[j].enabled}
    IN
    /\ svc[s].startup = "run"
    /\ ~ Busy(Catchup(s))
    /\ \E turn \in Bijection(late, 1 .. Cardinality(late)) :
          LET st == Maintained([j \in Jobs |-> IF j \in late
                                    THEN [ran[j] EXCEPT !.next = now + Stagger * turn[j]]
                                    ELSE ran[j]], FALSE)
          IN  Keep(s, st) /\ Save(st, saved)
    /\ Dropped(Catchup(s))
    /\ svc' = [svc EXCEPT ![s].startup = IF saved THEN "arm" ELSE "failed", ![s].aside = {}]
    /\ UNCHANGED <<now, current, call, known, edits, starts>>

\* The last section of start(): every past next run is computed anew and the timer armed.
ArmScheduler(s, saved) ==
    LET st == Recomputed(mem[s]) IN
    /\ svc[s].startup = "arm"
    /\ Keep(s, st)
    /\ SaveChanged(mem[s], st, saved)
    /\ svc' = [svc EXCEPT ![s].startup = IF saved THEN "done" ELSE "failed",
                          ![s].timer = IF saved THEN Armed(s, st) ELSE @]
    /\ UNCHANGED <<now, current, call, work, known, edits, starts>>

\* The process ends; jobs.json stays.  (Bound: only while it may be started again.)
Crash ==
    /\ current # None /\ starts < MaxStarts /\ Room
    /\ current' = None
    /\ mem' = [s \in Services |-> None]
    /\ svc' = [s \in Services |-> Off]
    /\ call' = [c \in Calls |-> IF call[c] = Idle THEN Idle ELSE Over]
    /\ work' = [o \in Owners |-> NoWork]
    /\ UNCHANGED <<now, disk, known, edits, faults, starts>>

-----------------------------------------------------------------------------
(* Ticks *)

\* onTimer finds no tick under way: it reads the file again, marks and saves the jobs
\* that are due, and leaves a timer armed while they run.  (With a tick under way it
\* only arms the timer again.)
TimerFires(s, saved) ==
    LET due == {j \in Jobs : Runnable(disk[j])}
        idle == Maintained(disk, TRUE)
        marking == Marking(disk, due)
    IN
    /\ svc[s].timer /\ ~ svc[s].running
    /\ IF due = {}
       THEN /\ Keep(s, idle)
            /\ SaveChanged(disk, idle, saved)
            /\ Rearm(s, idle)
            /\ UNCHANGED work
       ELSE /\ Keep(s, marking)
            /\ Save(marking, saved)
            /\ IF saved
               THEN /\ svc' = [svc EXCEPT ![s].running = TRUE, ![s].bound = TRUE]
                    /\ Queued(Tick(s), due)
               ELSE Rearm(s, marking) /\ UNCHANGED work
    /\ UNCHANGED <<now, current, call, known, edits, starts>>

Running(o) == {j \in Jobs : work[o][j].at = "running"}
Started(o, j) ==
    work' = [work EXCEPT ![o][j] = [@ EXCEPT !.at = "running", !.started = now]]

\* runDueJob: a worker of the tick takes the next job, whatever has become of it, and
\* sets the marker of its object, which may be the one in memory.
StartDue(s, j) ==
    /\ work[Tick(s)][j].at = "waiting"
    /\ Cardinality(Running(Tick(s))) < MaxConcurrent
    /\ Started(Tick(s), j)
    /\ mem' = IF svc[s].bound /\ mem[s][j] # None
              THEN [mem EXCEPT ![s][j].running = now] ELSE mem
    /\ UNCHANGED <<now, disk, svc, current, call, known, edits, faults, starts>>

\* runStartupCatchupCandidate: one after the other.
StartMissed(s, j) ==
    /\ work[Catchup(s)][j].at = "waiting"
    /\ Running(Catchup(s)) = {}
    /\ Started(Catchup(s), j)
    /\ UNCHANGED <<now, disk, mem, svc, current, call, known, edits, faults, starts>>

\* executeJobCoreWithTimeout returns, also by its timeout.
Ends(o, j, status) ==
    /\ work[o][j].at = "running"
    /\ work' = [work EXCEPT ![o][j] = [@ EXCEPT !.at = "ended", !.ended = now,
                                                !.status = status]]
    /\ UNCHANGED <<now, disk, mem, svc, current, call, known, edits, faults, starts>>

\* The results of a tick are applied together, to the file as it is by now, and its
\* finally block arms the timer, whether the service was stopped meanwhile or not.
ApplyTick(s, saved) ==
    LET st == Maintained(With(disk, Tick(s)), FALSE) IN
    /\ svc[s].running
    /\ ~ Busy(Tick(s))
    /\ Keep(s, st)
    /\ Save(st, saved)
    /\ Dropped(Tick(s))
    /\ svc' = [svc EXCEPT ![s].running = FALSE, ![s].bound = FALSE,
                          ![s].timer = Armed(s, st)]
    /\ UNCHANGED <<now, current, call, known, edits, starts>>

-----------------------------------------------------------------------------
(* Manual runs *)

\* inspectManualRunPreflight finds the job runnable ...
Preflight(c, j, force) ==
    LET s == current
        st == Maintained(InMemory(s), FALSE)
    IN
    /\ current # None
    /\ call[c] = Idle /\ Room
    /\ st[j] # None /\ st[j].running = None
    /\ force \/ (st[j].enabled /\ PastDue(st[j]))
    /\ call' = [call EXCEPT ![c] = [at |-> "reserving", job |-> j, now |-> now, svc |-> s,
                                    keeps |-> force /\ kind[j] = "every"]]
    /\ Keep(s, st)
    /\ UNCHANGED <<now, disk, svc, current, work, known, edits, faults, starts>>

\* ... or not, which leaves what its maintenance did in memory.
PreflightRefused ==
    LET s == current
        st == Maintained(InMemory(s), FALSE)
    IN
    /\ current # None
    /\ \E j \in Jobs : ~ Runnable(st[j])
    /\ Keep(s, st)
    /\ UNCHANGED <<now, disk, svc, current, call, work, known, edits, faults, starts>>

\* Mutant: the second section trusts the first one.
MayReserveUnchecked(r) == r # None

\* The second section of prepareManualRun looks at the marker again.
MayReserve(r) == r # None /\ r.running = None

\* prepareManualRun: mark, save, and run outside of the lock.
Reserve(c, saved) ==
    LET s == call[c].svc
        j == call[c].job
        st == [mem[s] EXCEPT ![j].running = call[c].now]
    IN
    /\ call[c].at = "reserving"
    /\ IF MayReserve(mem[s][j])
       THEN /\ Keep(s, st)
            /\ Save(st, saved)
            /\ call' = [call EXCEPT ![c] = IF saved THEN [@ EXCEPT !.at = "running"] ELSE Over]
            /\ work' = IF saved
                       THEN [work EXCEPT ![Manual(c)][j] =
                                [Waiting EXCEPT !.at = "running", !.started = call[c].now]]
                       ELSE work
       ELSE /\ saved
            /\ call' = [call EXCEPT ![c] = Over]
            /\ UNCHANGED <<mem, disk, faults, work>>
    /\ UNCHANGED <<now, svc, current, known, edits, starts>>

\* finishPreparedManualRun: the result goes to the copy in memory, and from there, as
\* a snapshot of the job, into what the file holds by now.
FinishManual(c, saved) ==
    LET s == call[c].svc
        j == call[c].job
        after == AfterRun(j, mem[s][j], work[Manual(c)][j], call[c].keeps)
        merged == [disk EXCEPT ![j] = IF @ = None THEN None ELSE after]
        st == Maintained(merged, TRUE)
    IN
    /\ call[c].at = "running"
    /\ work[Manual(c)][j].at = "ended"
    /\ IF mem[s][j] = None
       THEN saved /\ UNCHANGED <<mem, disk, faults, svc>>
       ELSE /\ Keep(s, st)
            /\ Save(st, saved)
            /\ svc' = [svc EXCEPT ![s].bound = FALSE,
                                  ![s].timer = IF saved THEN Armed(s, st) ELSE @]
    /\ call' = [call EXCEPT ![c] = Over]
    /\ Dropped(Manual(c))
    /\ UNCHANGED <<now, current, known, edits, starts>>

-----------------------------------------------------------------------------
(* Edits *)

\* What the sections of add, update and remove do with the store they made.
Edit(s, st, saved) ==
    /\ edits < MaxEdits /\ Room
    /\ edits' = edits + 1
    /\ Keep(s, st)
    /\ Save(st, saved)
    /\ IF saved THEN Rearm(s, st) ELSE UNCHANGED svc
    /\ UNCHANGED <<now, current, call, work, starts>>

NewJob(j) == LET r == [enabled |-> TRUE, next |-> None, running |-> None, lastRun |-> None,
                       status |-> None, errors |-> 0]
             IN  [r EXCEPT !.next = ComputeNext(j, r, now)]

\* add: every past next run is computed anew, not only the new job's.
Add(j, saved) ==
    /\ current # None
    /\ j \notin known
    /\ known' = known \cup {j}
    /\ Edit(current, Recomputed([InMemory(current) EXCEPT ![j] = NewJob(j)]), saved)

\* update: of enabled, of the schedule (which stays what it is), or of something else.
Update(j, patch, saved) ==
    LET st == InMemory(current)
        r == [st[j] EXCEPT !.enabled = CASE patch = "enable" -> TRUE
                                         [] patch = "disable" -> FALSE
                                         [] OTHER -> @]
        updated == IF patch = "other" /\ (~ r.enabled \/ r.next # None) THEN r
                   ELSE IF r.enabled THEN [r EXCEPT !.next = ComputeNext(j, r, now)]
                   ELSE [r EXCEPT !.next = None, !.running = None]
    IN
    /\ current # None
    /\ st[j] # None
    /\ Edit(current, [st EXCEPT ![j] = updated], saved)
    /\ UNCHANGED known

Remove(j, saved) ==
    LET st == IF mem[current] = None THEN Recomputed(disk) ELSE mem[current] IN
    /\ current # None
    /\ j \in known
    /\ Edit(current, [st EXCEPT ![j] = None], saved)
    /\ UNCHANGED known

\* list and status: maintenance, saved when it changed something.
Read(saved) ==
    LET st == Maintained(InMemory(current), FALSE) IN
    /\ current # None
    /\ Keep(current, st)
    /\ SaveChanged(InMemory(current), st, saved)
    /\ UNCHANGED <<now, svc, current, call, work, known, edits, starts>>

-----------------------------------------------------------------------------
(* The system *)

\* createJob's records, at time 0.
Init ==
    /\ now = 0
    /\ known \in Initially
    /\ disk = [j \in Jobs |-> IF j \in known THEN NewJob(j) ELSE None]
    /\ mem = [s \in Services |-> None]
    /\ svc = [s \in Services |-> Off]
    /\ current = None
    /\ call = [c \in Calls |-> Idle]
    /\ work = [o \in Owners |-> NoWork]
    /\ disowned = {}
    /\ edits = 0 /\ faults = 0 /\ starts = 0

ClockTicks ==
    /\ now < MaxNow
    /\ now' = now + 1
    /\ UNCHANGED <<disk, mem, svc, current, call, work, known, edits, faults, starts>>

\* What a service does by itself, and a manual run after its preflight ...
ServiceStep(s, saved) ==
    PlanCatchup(s, saved) \/ ApplyCatchup(s, saved) \/ ArmScheduler(s, saved)
        \/ TimerFires(s, saved) \/ ApplyTick(s, saved)
CallStep(c, saved) == Reserve(c, saved) \/ FinishManual(c, saved)

\* ... the executions ...
Execute ==
    \/ \E s \in Services, j \in Jobs : StartDue(s, j) \/ StartMissed(s, j)
    \/ \E o \in Owners, j \in Jobs : \E status \in Outcomes[j] : Ends(o, j, status)

\* ... and what users ask for.
Ask ==
    \/ \E c \in Calls, j \in Jobs, force \in BOOLEAN : Preflight(c, j, force)
    \/ PreflightRefused
Change(saved) ==
    \/ \E j \in Jobs : Add(j, saved) \/ Remove(j, saved)
    \/ \E j \in Jobs, patch \in {"enable", "disable", "schedule", "other"} :
          Update(j, patch, saved)
    \/ Read(saved)

Step ==
    \/ ClockTicks
    \/ Crash
    \/ \E s \in Services, on \in BOOLEAN, saved \in BOOLEAN :
          Boot(s, on, saved) \/ Reload(s, on, saved)
    \/ \E s \in Services, saved \in BOOLEAN : ServiceStep(s, saved)
    \/ \E c \in Calls, saved \in BOOLEAN : CallStep(c, saved)
    \/ Execute
    \/ Ask
    \/ \E saved \in BOOLEAN : Change(saved)

UnderWay(j) == \E o \in Owners : work[o][j].at # "none"

\* A catch-up or a manual run of s marks a job on a copy in memory that does not know
\* of the marker on disk, because another service wrote it since.
OverlooksMarker(j) ==
    \E s \in Services :
        /\ mem[s] # None /\ Marked(disk[j]) /\ ~ Marked(mem[s][j])
        /\ \/ work[Catchup(s)][j].at = "none" /\ work'[Catchup(s)][j].at = "waiting"
           \/ \E c \in Calls : /\ call[c].svc = s /\ call[c].job = j
                              /\ call[c].at = "reserving" /\ call'[c].at = "running"

\* History: an execution loses its marker, or another one has overlooked it.
Account ==
    disowned' = {j \in Jobs : /\ UnderWay(j)'
                              /\ j \in disowned \/ ~ Marked(disk'[j]) \/ OverlooksMarker(j)}

Next == Step /\ Account

Spec == Init /\ [][Next]_vars

-----------------------------------------------------------------------------
(* Properties *)

Alone == \A s \in Services : s # current => svc[s] = Off
Calm == Alone /\ faults = 0

\* A job is executed by one owner at a time, over ticks, catch-ups and manual runs of
\* two services, unless an execution had lost its marker or a stale copy in memory overlooked it.
OneRunAtATime ==
    \A j \in Jobs \ disowned : Cardinality({o \in Owners : work[o][j].at # "none"}) <= 1

\* Within one service, the marker of an execution is on disk until its result is: only
\* disabling or removing the job, a start, or STUCK_RUN_MS take it away before.  (A job
\* that is disabled, and runs because it was forced to, keeps no marker.)
MarkersStay ==
    [][Calm => \A j \in Jobs :
          Marked(disk[j]) /\ UnderWay(j) /\ UnderWay(j)' /\ ~ Marked(disk'[j]) =>
             \/ disk'[j] = None \/ ~ disk'[j].enabled \/ ~ disk[j].enabled
             \/ current' # current
             \/ disk[j].running + StuckRun < now
             \/ j \in disowned]_vars

\* A marker on disk is that of an execution whose result will take it away; otherwise
\* the job would be blocked until STUCK_RUN_MS.
MarkersHaveOwners ==
    Calm /\ current # None /\ svc[current].enabled =>
        \A j \in Jobs : Marked(disk[j]) => UnderWay(j)

Reported(j) == \E o \in Owners : work[o][j].at = "ended" /\ work'[o][j].at = "none"

\* A past next run of a job is not advanced without the job having run: reading, edits
\* of other jobs and ticks leave it for a tick to come.  What does advance it is an
\* addition, a start, and an update of the job itself.
NoSilentSkip ==
    [][Calm /\ current # None /\ svc[current].enabled => \A j \in Jobs :
          /\ disk[j] # None /\ disk[j].enabled /\ PastDue(disk[j])
          /\ disk'[j] # None /\ disk'[j].enabled /\ disk'[j].next # disk[j].next
          => \/ Reported(j)
             \/ known' # known
             \/ svc' # svc /\ svc[current].startup \in {"run", "arm"}
             \/ \E patch \in {"enable", "schedule"} : Update(j, patch, TRUE)]_vars

Serving == current # None /\ svc[current].enabled /\ svc[current].startup = "done"
HasNext(r) == r # None /\ r.enabled /\ r.next # None

\* No lost wakeup: while a job has a next run, in jobs.json and in the service's copy of
\* it, the service has a timer or a tick that will arm one, over ticks that find a job
\* still running, edits in the middle of a tick, and the stop of the service before it.
SchedulerStaysAwake ==
    Serving /\ faults = 0 /\ (\E j \in Jobs : HasNext(disk[j]) /\ HasNext(mem[current][j]))
        => svc[current].timer \/ svc[current].running

=============================================================================
