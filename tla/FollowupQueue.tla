---------------------------- MODULE FollowupQueue ----------------------------
(***************************************************************************)
(* The followup queue of one session: messages that arrive while the agent *)
(* is busy are queued and run as followup turns (src/src/auto-reply/reply/ *)
(* queue/{state,enqueue,drain,cleanup}.ts on src/src/utils/                *)
(* queue-helpers.ts, called from agent-runner.ts).                         *)
(*                                                                         *)
(* FOLLOWUP_QUEUES maps the session's key to a queue object.  A drain keeps *)
(* a reference to its object while it awaits a run, during which messages  *)
(* are queued, dropped on overflow or cleared, and the key may be given a  *)
(* new object.  A step is one JavaScript turn.  Debounce timers may fire   *)
(* at any later time.  The remembered callbacks are left out: the only     *)
(* caller passes restartIfIdle = false, so they choose no step.            *)
(***************************************************************************)
EXTENDS Integers, Sequences, FiniteSets, SequencesExt

CONSTANTS
    Msgs,           \* messages that arrive while the session is busy
    messageId,      \* their provider message ids: redeliveries share one
    route,          \* where the reply to each must go
    Unroutable,     \* routes resolveCrossChannelKey cannot key
    Settings,       \* queue settings in force at an arrival: [mode, cap, dropPolicy]
    Queues,         \* bound: queue objects made, 1 .. n
    MaxFailures,    \* bound: followup turns that throw
    MaxClears,      \* bound: calls of clearSessionQueues
    None

ASSUME SettingsAssumption ==
    Settings \subseteq [mode : {"collect", "followup"}, cap : Nat \ {0},
                        dropPolicy : {"old", "new", "summarize"}]
ASSUME BoundsAssumption ==
    /\ IsFiniteSet(Queues) /\ Queues = 1 .. Cardinality(Queues)
    /\ MaxFailures \in Nat /\ MaxClears \in Nat
    /\ None \notin Queues

VARIABLES
    registry,   \* FOLLOWUP_QUEUES.get(key), or None
    made,       \* queue objects made so far
    queue,      \* the objects: FollowupQueueState
    drain,      \* the drain of each object: scheduleFollowupDrain's async body
    primary,    \* a run that answers a message at once is under way on the session
    agentRun,   \* so is one of the gateway's agent method: see AgentRunStarts
    behindAgent,\* messages that were queued behind nothing but such a run
    recentIds,  \* RECENT_QUEUE_MESSAGE_IDS
    fate,       \* what has become of each message
    arrivals,   \* accepted messages in their order
    failures,
    clears

runs == <<primary, agentRun, behindAgent>>
vars == <<registry, made, queue, drain, runs, recentIds, fate, arrivals, failures, clears>>

\* The texts of summaryLines are left out; hasRun says that lastRun is set.
QueueState == [items : Seq(Msgs), draining : BOOLEAN, mode : {"collect", "followup"},
               cap : Nat \ {0}, dropPolicy : {"old", "new", "summarize"},
               droppedCount : Nat, hasRun : BOOLEAN]

\* `taken` is what the awaited turn was given of the queue and `told` whether its
\* prompt reports drops; `force` is collectState.forceIndividualCollect.
DrainState == [at : {"idle", "debounce", "collect", "running"},
               kind : {"item", "batch", "summary"},
               taken : Seq(Msgs), told : BOOLEAN, force : BOOLEAN]

\* buildRecentMessageIdKey
RecentId(m) == <<route[m], messageId[m]>>

Fates == {"new", "refused", "queued", "dropped", "cleared", "answered"}

\* The draining flag of an object says whether it has a drain: beginQueueDrain
\* trusts it.
TypeOK ==
    /\ \A o \in Queues : queue[o].draining <=> drain[o].at # "idle"
    /\ registry \in Queues \cup {None}
    /\ made \in 0 .. Cardinality(Queues)
    /\ queue \in [Queues -> QueueState]
    /\ drain \in [Queues -> DrainState]
    /\ primary \in BOOLEAN /\ agentRun \in BOOLEAN /\ behindAgent \subseteq Msgs
    /\ recentIds \subseteq {RecentId(m) : m \in Msgs}
    /\ fate \in [Msgs -> Fates]
    /\ arrivals \in Seq(Msgs)
    /\ failures \in 0 .. MaxFailures
    /\ clears \in 0 .. MaxClears

EmptyQueue(st) == [items |-> <<>>, draining |-> FALSE, mode |-> st.mode, cap |-> st.cap,
                   dropPolicy |-> st.dropPolicy, droppedCount |-> 0, hasRun |-> FALSE]

Idle == [at |-> "idle", kind |-> "item", taken |-> <<>>, told |-> FALSE, force |-> FALSE]

Init ==
    /\ registry = None
    /\ made = 0
    /\ \E st \in Settings : queue = [o \in Queues |-> EmptyQueue(st)]
    /\ drain = [o \in Queues |-> Idle]
    /\ primary = TRUE /\ agentRun = FALSE /\ behindAgent = {}
    /\ recentIds = {}
    /\ fate = [m \in Msgs |-> "new"]
    /\ arrivals = <<>>
    /\ failures = 0
    /\ clears = 0

-----------------------------------------------------------------------------
(* The queue object *)

HasWork(q) == q.items # <<>> \/ q.droppedCount > 0

\* applyQueueRuntimeSettings
Configured(q, st) == [q EXCEPT !.mode = st.mode, !.cap = st.cap, !.dropPolicy = st.dropPolicy]

Overflows(q) == Len(q.items) >= q.cap

\* applyQueueDropPolicy: how many entries are spliced off the front.
DropCount(q) == IF Overflows(q) THEN Len(q.items) - q.cap + 1 ELSE 0

\* Mutant: the newest message is run first.
PushedInFront(q, m) ==
    LET n == DropCount(q) IN
    [q EXCEPT !.items = <<m>> \o SubSeq(@, n + 1, Len(@)),
              !.droppedCount = IF q.dropPolicy = "summarize" THEN @ + n ELSE @]

\* The queue object after the drop policy made room and the message was pushed.
Pushed(q, m) ==
    LET n == DropCount(q) IN
    [q EXCEPT !.items = Append(SubSeq(@, n + 1, Len(@)), m),
              !.droppedCount = IF q.dropPolicy = "summarize" THEN @ + n ELSE @]

\* previewQueueSummaryPrompt: there is a summary to tell.
HasSummary(q) == q.dropPolicy = "summarize" /\ q.droppedCount > 0

\* hasCrossChannelItems on resolveCrossChannelKey
CrossChannel(items) ==
    LET routes == {route[m] : m \in ToSet(items)}
    IN  Cardinality(routes) > 1 \/ routes \cap Unroutable # {}

-----------------------------------------------------------------------------
(* Scheduling a drain *)

\* scheduleFollowupDrain(key) on the objects qs: beginQueueDrain and the first
\* pass of the loop.  An object without work is drained, and deleted, at once.
Schedule(reg, qs, ds) ==
    IF reg = None \/ (reg # None /\ qs[reg].draining)
    THEN registry' = reg /\ queue' = qs /\ drain' = ds
    ELSE IF HasWork(qs[reg])
         THEN /\ registry' = reg
              /\ queue' = [qs EXCEPT ![reg].draining = TRUE]
              /\ drain' = [ds EXCEPT ![reg] = [Idle EXCEPT !.at = "debounce"]]
         ELSE registry' = None /\ queue' = qs /\ drain' = ds

\* Mutant: the finally block leaves the draining flag set.
FinishStillDraining(o, qs) ==
    /\ drain' = [drain EXCEPT ![o] = Idle]
    /\ queue' = qs
    /\ registry' = IF HasWork(qs[o]) THEN registry ELSE None

\* The finally block of the drain of o, from objects qs: the key is deleted,
\* whatever object it has by now, or scheduled again.
Finish(o, qs) ==
    LET released == [qs EXCEPT ![o].draining = FALSE]
        ended == [drain EXCEPT ![o] = Idle]
    IN  IF HasWork(released[o])
        THEN Schedule(registry, released, ended)
        ELSE registry' = None /\ queue' = released /\ drain' = ended

\* Back at the top of the loop with objects qs.
Continue(o, qs) ==
    IF HasWork(qs[o])
    THEN /\ queue' = qs
         /\ drain' = [drain EXCEPT ![o] =
                         [Idle EXCEPT !.at = "debounce", !.force = drain[o].force]]
         /\ UNCHANGED registry
    ELSE Finish(o, qs)

\* Mutant: the key is free again as soon as a turn starts.
StartTurnForgetsKey(o, kind, taken, told, force) ==
    /\ drain' = [drain EXCEPT ![o] = [at |-> "running", kind |-> kind, taken |-> taken,
                                      told |-> told, force |-> force]]
    /\ registry' = None
    /\ UNCHANGED queue

\* await effectiveRunFollowup(...)
StartTurn(o, kind, taken, told, force) ==
    /\ drain' = [drain EXCEPT ![o] = [at |-> "running", kind |-> kind, taken |-> taken,
                                      told |-> told, force |-> force]]
    /\ UNCHANGED <<registry, queue>>

-----------------------------------------------------------------------------
(* Arrivals *)

RunInProgress == primary \/ agentRun \/ \E o \in Queues : drain[o].at = "running"

\* A run whose end schedules a drain, or a drain, is under way.
Attended == primary \/ \E o \in Queues : drain[o].at # "idle"

\* The object getFollowupQueue returns: the registered one or a new one.
Target == IF registry = None THEN made + 1 ELSE registry

\* enqueueFollowupRun refuses redeliveries, and, under dropPolicy "new", messages
\* that find the queue full.
Redelivered(q, m) ==
    \/ RecentId(m) \in recentIds
    \/ \E i \in ToSet(q.items) : RecentId(i) = RecentId(m)
Refuses(q, m) == Redelivered(q, m) \/ (Overflows(q) /\ q.dropPolicy = "new")

\* Mutant: no second look.
SecondLookOmitted(active, o, after) ==
    /\ active \in BOOLEAN
    /\ registry' = o
    /\ queue' = after
    /\ UNCHANGED drain

\* agent-runner.ts looks again whether the run is active, and if it is not, the
\* drain is scheduled: nobody else would.
SecondLook(active, o, after) ==
    IF active THEN registry' = o /\ queue' = after /\ UNCHANGED drain
              ELSE Schedule(o, after, drain)

\* A message that found the session busy is queued.
Enqueue(m, st, active) ==
    LET o == Target
        fresh == IF registry = None THEN EmptyQueue(st) ELSE Configured(queue[registry], st)
        refused == Refuses(fresh, m)
        known == [fresh EXCEPT !.hasRun = @ \/ ~ Redelivered(fresh, m)]
        gone == {fresh.items[i] : i \in 1 .. DropCount(fresh)}
        after == [queue EXCEPT ![o] = IF refused THEN known ELSE Pushed(known, m)]
    IN
    /\ fate[m] = "new"
    /\ o \in Queues
    /\ active => RunInProgress
    /\ made' = IF registry = None THEN made + 1 ELSE made
    /\ recentIds' = IF refused THEN recentIds ELSE recentIds \cup {RecentId(m)}
    /\ fate' = [n \in Msgs |->
                    IF n = m THEN IF refused THEN "refused" ELSE "queued"
                    ELSE IF ~ refused /\ n \in gone /\ fate[n] = "queued" THEN "dropped"
                    ELSE fate[n]]
    /\ arrivals' = IF refused THEN arrivals ELSE Append(arrivals, m)
    /\ behindAgent' = IF active /\ ~ Attended THEN behindAgent \cup {m} ELSE behindAgent
    /\ SecondLook(active, o, after)
    /\ UNCHANGED <<primary, agentRun, failures, clears>>

\* A message finds the session idle and is run at once.
StartPrimary ==
    /\ ~ RunInProgress
    /\ primary' = TRUE
    /\ UNCHANGED <<registry, made, queue, drain, agentRun, behindAgent, recentIds, fate,
                   arrivals, failures, clears>>

\* That run ends: finalizeWithFollowup schedules the drain.
EndPrimary ==
    /\ primary
    /\ primary' = FALSE
    /\ Schedule(registry, queue, drain)
    /\ UNCHANGED <<made, agentRun, behindAgent, recentIds, fate, arrivals, failures, clears>>

\* The agent method of the gateway, which subagents use to announce their results,
\* runs the agent on the session without a dispatch: the run is registered, so that
\* arrivals find the session busy, ...
AgentRunStarts ==
    /\ ~ agentRun
    /\ agentRun' = TRUE
    /\ UNCHANGED <<registry, made, queue, drain, primary, behindAgent, recentIds, fate,
                   arrivals, failures, clears>>

\* ... and when it ends its waiters are told, but no drain is scheduled.
AgentRunEnds ==
    /\ agentRun
    /\ agentRun' = FALSE
    /\ UNCHANGED <<registry, made, queue, drain, primary, behindAgent, recentIds, fate,
                   arrivals, failures, clears>>

\* The five minutes of the recent-id cache are over.
ForgetId(id) ==
    /\ id \in recentIds
    /\ recentIds' = recentIds \ {id}
    /\ UNCHANGED <<registry, made, queue, drain, runs, fate, arrivals, failures, clears>>

\* Mutant: the key is deleted but the array a drain holds is not emptied.
ClearKeepsItems ==
    /\ registry # None
    /\ clears < MaxClears
    /\ clears' = clears + 1
    /\ fate' = [m \in Msgs |-> IF m \in ToSet(queue[registry].items) /\ fate[m] = "queued"
                               THEN "cleared" ELSE fate[m]]
    /\ registry' = None
    /\ UNCHANGED <<made, queue, drain, runs, recentIds, arrivals, failures>>

\* clearSessionQueues, also called by /stop: the object is emptied in place and
\* the key deleted.  A drain of it goes on.
Clear ==
    /\ registry # None
    /\ clears < MaxClears
    /\ clears' = clears + 1
    /\ queue' = [queue EXCEPT ![registry].items = <<>>, ![registry].droppedCount = 0,
                              ![registry].hasRun = FALSE]
    /\ fate' = [m \in Msgs |-> IF m \in ToSet(queue[registry].items) /\ fate[m] = "queued"
                               THEN "cleared" ELSE fate[m]]
    /\ registry' = None
    /\ UNCHANGED <<made, drain, runs, recentIds, arrivals, failures>>

-----------------------------------------------------------------------------
(* The drain *)

OthersKeep == UNCHANGED <<made, runs, recentIds, arrivals, failures, clears>>
NobodyHeard == UNCHANGED fate

\* Collect mode, mixed destinations (now, or before in this drain): one item.
CollectOne(o) ==
    LET q == queue[o]
        cross == CrossChannel(q.items) IN
    /\ drain[o].at = "debounce"
    /\ q.mode = "collect"
    /\ drain[o].force \/ cross
    /\ IF q.items = <<>> THEN Finish(o, queue)
       ELSE StartTurn(o, "item", <<Head(q.items)>>, FALSE, TRUE)
    /\ OthersKeep /\ NobodyHeard

\* Collect mode, one destination: the step is skipped, after an await ...
CollectSkips(o) ==
    /\ drain[o].at = "debounce"
    /\ queue[o].mode = "collect"
    /\ ~ drain[o].force /\ ~ CrossChannel(queue[o].items)
    /\ drain' = [drain EXCEPT ![o].at = "collect"]
    /\ UNCHANGED <<registry, queue>>
    /\ OthersKeep /\ NobodyHeard

\* ... and whatever is queued by now is run as one batch.
CollectBatch(o) ==
    LET q == queue[o] IN
    /\ drain[o].at = "collect"
    /\ IF q.items = <<>> /\ ~ q.hasRun THEN Finish(o, queue)
       ELSE StartTurn(o, "batch", q.items, HasSummary(q), FALSE)
    /\ OthersKeep /\ NobodyHeard

\* Other modes: the summary runs in the place of the next item, ...
NextSummary(o) ==
    LET q == queue[o] IN
    /\ drain[o].at = "debounce"
    /\ q.mode # "collect"
    /\ HasSummary(q)
    /\ IF ~ q.hasRun \/ q.items = <<>> THEN Finish(o, queue)
       ELSE StartTurn(o, "summary", <<Head(q.items)>>, TRUE, drain[o].force)
    /\ OthersKeep /\ NobodyHeard

\* ... otherwise the next item runs.
NextItem(o) ==
    LET q == queue[o] IN
    /\ drain[o].at = "debounce"
    /\ q.mode # "collect"
    /\ ~ HasSummary(q)
    /\ IF q.items = <<>> THEN Finish(o, queue)
       ELSE StartTurn(o, "item", <<Head(q.items)>>, FALSE, drain[o].force)
    /\ OthersKeep /\ NobodyHeard

\* Mutant: the drain empties the queue after its turn.
ConsumedAll(o) == Len(queue[o].items)

\* How many items the drain removes when its turn is done.
Consumed(o) ==
    LET n == Len(drain[o].taken) IN IF Len(queue[o].items) < n THEN Len(queue[o].items) ELSE n

\* The turn is done: shift or splice the queue, forget the summary that was told.
TurnDone(o) ==
    LET d == drain[o]
        rest == SubSeq(queue[o].items, Consumed(o) + 1, Len(queue[o].items))
        after == [queue EXCEPT ![o].items = rest,
                               ![o].droppedCount = IF d.told THEN 0 ELSE @]
        heard == IF d.kind = "summary" THEN {} ELSE ToSet(d.taken)
    IN
    /\ d.at = "running"
    /\ fate' = [m \in Msgs |-> IF m \in heard THEN "answered" ELSE fate[m]]
    /\ Continue(o, after)
    /\ OthersKeep

\* The turn throws: the queue keeps everything.
TurnFails(o) ==
    /\ drain[o].at = "running"
    /\ failures < MaxFailures
    /\ failures' = failures + 1
    /\ Finish(o, queue)
    /\ NobodyHeard
    /\ UNCHANGED <<made, runs, recentIds, arrivals, clears>>

DrainStep(o) ==
    \/ CollectOne(o) \/ CollectSkips(o) \/ CollectBatch(o)
    \/ NextSummary(o) \/ NextItem(o) \/ TurnDone(o)

Next ==
    \/ \E m \in Msgs, st \in Settings, active \in BOOLEAN : Enqueue(m, st, active)
    \/ StartPrimary \/ EndPrimary \/ AgentRunStarts \/ AgentRunEnds \/ Clear
    \/ \E id \in recentIds : ForgetId(id)
    \/ \E o \in Queues : DrainStep(o) \/ TurnFails(o)

Spec == Init /\ [][Next]_vars

\* Timers fire and agent turns end (runs have timeouts).
Fairness ==
    /\ WF_vars(EndPrimary) /\ WF_vars(AgentRunEnds)
    /\ \A o \in Queues : WF_vars(DrainStep(o))
FairSpec == Spec /\ Fairness

-----------------------------------------------------------------------------
(* Properties *)

InQueue(m) == \E o \in Queues :
    m \in ToSet(queue[o].items) /\ (registry = o \/ drain[o].at # "idle")

\* An accepted message that is not answered, dropped by policy or cleared is in a
\* queue that a drain holds or can find: none is lost between the queue's copy in
\* an awaited turn and the shift or splice after it.
NoSilentLoss == \A m \in Msgs : fate[m] = "queued" => InQueue(m)

\* Messages of the session are answered in the order they came in.
AnsweredInOrder ==
    \A i, j \in DOMAIN arrivals :
        i < j /\ fate[arrivals[j]] = "answered" => fate[arrivals[i]] # "queued"

\* The session has one drain at a time, whatever its objects.
OneDrain == Cardinality({o \in Queues : drain[o].at # "idle"}) <= 1

\* A message that was cleared is not given to a turn that starts later.
ClearedNeverRun ==
    [][\A o \in Queues : drain'[o].at = "running" /\ drain[o].at # "running" =>
          \A m \in ToSet(drain'[o].taken) : fate[m] # "cleared"]_vars

\* A queued message gets its turn, also when the run it waited for was over before it
\* was queued.  One that was queued behind nothing but a run of the agent method gets
\* it once there is a drain, or a run whose end schedules one.
QueuedGetTurn ==
    \A m \in Msgs : fate[m] = "queued" /\ (m \in behindAgent => Attended) ~> fate[m] # "queued"

\* "enqueue for the next agent turn after the current run ends"
\* (src/docs/concepts/queue.md): whatever run the message is queued behind.
QueuedRunsNext == \A m \in Msgs : fate[m] = "queued" ~> fate[m] # "queued"

=============================================================================
