------------------------ MODULE HeartbeatRunnerProofs ------------------------
(***************************************************************************)
(* Theorems about HeartbeatRunner, for every set of agents, runners,        *)
(* configurations and batches: its types, that no wake is lost, that        *)
(* batches of one handler exclude each other, that heartbeats never stop    *)
(* by themselves, and that interval runs are an interval apart.             *)
(***************************************************************************)
EXTENDS HeartbeatRunner, FiniteSetTheorems, WellFoundedInduction, TLAPS

-----------------------------------------------------------------------------
(* Numbers and reasons *)

\* A set of naturals has a least element: what the interval timer is set to exists.
LEMMA LeastExists ==
    ASSUME NEW S \in SUBSET Nat, S # {}
    PROVE  \E t \in S : \A u \in S : t <= u
<1> DEFINE Intervals0 == {0 .. t : t \in S}
<1>1. Intervals0 \in SUBSET FiniteSubsetsOf(Nat)
  <2>1. \A t \in S : 0 .. t \subseteq Nat /\ IsFiniteSet(0 .. t)
    BY FS_Interval
  <2> QED BY <2>1 DEF FiniteSubsetsOf
<1>2. Intervals0 # {}
  OBVIOUS
<1>3. IsWellFoundedOn(StrictSubsetOrdering(Nat), FiniteSubsetsOf(Nat))
  BY FS_StrictSubsetOrderingWellFounded
<1> HIDE DEF Intervals0
<1>4. PICK X \in Intervals0 : \A Y \in Intervals0 : ~ (<<Y, X>> \in StrictSubsetOrdering(Nat))
  BY <1>1, <1>2, <1>3, WFMin
<1>5. PICK t \in S : X = 0 .. t
  BY DEF Intervals0
<1>6. ASSUME NEW u \in S, u < t PROVE FALSE
  <2>1. 0 .. u \in Intervals0
    BY DEF Intervals0
  <2>2. (0 .. u) \subseteq (0 .. t) /\ 0 .. u # 0 .. t
    BY <1>6
  <2>3. <<0 .. u, 0 .. t>> \in StrictSubsetOrdering(Nat)
    BY <2>2 DEF StrictSubsetOrdering
  <2> QED BY <1>4, <1>5, <2>1, <2>3
<1> QED BY <1>6

\* Times, intervals and due times are naturals, and a due time is what the code adds up.
LEMMA TimesAreNaturals ==
    /\ Time \subseteq Nat /\ 0 \in Time
    /\ Intervals \subseteq Nat
    /\ Later \subseteq Nat
    /\ \A t \in Time, i \in Intervals \cup {Coalesce, Retry, 0} : t + i \in Later
<1>1. Time \subseteq Nat /\ 0 \in Time
  BY BoundsAssumption DEF Time
<1>2. Intervals \subseteq Nat
  BY ConfigsAssumption DEF Intervals
<1>3. Later \subseteq Nat
  BY <1>1, <1>2, DelaysAssumption DEF Later
<1>4. \A t \in Time, i \in Intervals \cup {Coalesce, Retry, 0} : t + i \in Later
  BY DEF Later
<1> QED BY <1>1, <1>2, <1>3, <1>4

LEMMA ReasonsRanked ==
    /\ Reasons = {"interval", "wake", "hook"}
    /\ \A x \in Reasons : Priority[x] \in Nat
    /\ Asked \subseteq Reasons
<1>1. Reasons = {"interval", "wake", "hook"}
  BY DEF Reasons, Priority
<1> QED BY <1>1, AskedAssumption DEF Priority

LEMMA AtLeastTransitive ==
    ASSUME NEW a \in Reasons \cup {None}, NEW b \in Reasons \cup {None},
           NEW c \in Reasons \cup {None}, AtLeast(a, b), AtLeast(b, c)
    PROVE  AtLeast(a, c)
BY ReasonsRanked DEF AtLeast

LEMMA AtLeastReflexive == ASSUME NEW a \in Reasons \cup {None} PROVE AtLeast(a, a)
BY ReasonsRanked DEF AtLeast

\* What remains of two requests is one of the two, and covers both.
LEMMA HigherCovers ==
    ASSUME NEW old \in Reasons \cup {None}, NEW new \in Reasons
    PROVE  /\ Higher(old, new) \in Reasons
           /\ AtLeast(Higher(old, new), old) /\ AtLeast(Higher(old, new), new)
           /\ Higher(old, new) \in {old, new}
BY ReasonsRanked, NoReasonAssumption DEF AtLeast, Higher

\* What covers both requests covers what remains of them.
LEMMA CoversHigher ==
    ASSUME NEW a, NEW old \in Reasons \cup {None}, NEW new \in Reasons,
           AtLeast(a, old), AtLeast(a, new)
    PROVE  AtLeast(a, Higher(old, new))
BY DEF Higher

-----------------------------------------------------------------------------
(* The operators of the wake layer *)

\* schedule leaves a timer behind, whatever it finds, and touches nothing else.
LEMMA ScheduleArms ==
    ASSUME NEW w \in WakeLayer, NEW t \in Time, NEW delay \in {0, Coalesce, Retry},
           NEW type \in {"normal", "retry"}
    PROVE  /\ Schedule(w, t, delay, type) \in WakeLayer
           /\ Schedule(w, t, delay, type).timer # None
           /\ Schedule(w, t, delay, type).pending = w.pending
           /\ Schedule(w, t, delay, type).handler = w.handler
           /\ Schedule(w, t, delay, type).running = w.running
<1> DEFINE timer == [due |-> t + delay, type |-> type, delay |-> delay]
<1>1. timer \in WakeTimer
  BY TimesAreNaturals DEF WakeTimer
<1>2. timer # None
  BY <1>1, NoneAssumption
<1> HIDE DEF timer
<1>3. [w EXCEPT !.timer = timer] \in WakeLayer
  BY <1>1 DEF WakeLayer
<1> QED BY <1>2, <1>3 DEF Schedule, WakeLayer, timer

\* queuePendingWakeReason
LEMMA QueueCovers ==
    ASSUME NEW w \in WakeLayer, NEW k \in Targets, NEW reason \in Reasons
    PROVE  /\ QueuePendingWakeReason(w, k, reason) \in WakeLayer
           /\ QueuePendingWakeReason(w, k, reason).handler = w.handler
           /\ QueuePendingWakeReason(w, k, reason).running = w.running
           /\ QueuePendingWakeReason(w, k, reason).timer = w.timer
           /\ QueuePendingWakeReason(w, k, reason).pending
                = [w.pending EXCEPT ![k] = Higher(@, reason)]
<1>1. w.pending[k] \in Reasons \cup {None}
  BY DEF WakeLayer, Wakes
<1>2. Higher(w.pending[k], reason) \in Reasons
  BY <1>1, HigherCovers
<1>3. [w.pending EXCEPT ![k] = Higher(@, reason)] \in Wakes
  BY <1>2 DEF WakeLayer, Wakes
<1> QED BY <1>3 DEF QueuePendingWakeReason, WakeLayer

\* A request or a retry: the target waits with what covers the request and what waited.
LEMMA AskedFor ==
    ASSUME NEW w \in WakeLayer, NEW t \in Time, NEW k \in Targets, NEW reason \in Reasons,
           NEW delay \in {0, Coalesce, Retry}, NEW type \in {"normal", "retry"}
    PROVE  LET v == Schedule(QueuePendingWakeReason(w, k, reason), t, delay, type)
           IN  /\ v \in WakeLayer /\ v.timer # None
               /\ v.handler = w.handler /\ v.running = w.running
               /\ v.pending = [w.pending EXCEPT ![k] = Higher(@, reason)]
               /\ \A j \in Targets : AtLeast(v.pending[j], w.pending[j])
               /\ AtLeast(v.pending[k], reason) /\ v.pending[k] # None
<1>1. PICK q \in WakeLayer :
         /\ q = QueuePendingWakeReason(w, k, reason)
         /\ q.handler = w.handler /\ q.running = w.running
         /\ q.pending = [w.pending EXCEPT ![k] = Higher(@, reason)]
  BY QueueCovers
<1>2. /\ Schedule(q, t, delay, type) \in WakeLayer
      /\ Schedule(q, t, delay, type).timer # None
      /\ Schedule(q, t, delay, type).pending = q.pending
      /\ Schedule(q, t, delay, type).handler = q.handler
      /\ Schedule(q, t, delay, type).running = q.running
  BY ScheduleArms
<1>3. w.pending \in [Targets -> Reasons \cup {None}]
  BY DEF WakeLayer, Wakes
<1>4. /\ \A j \in Targets : AtLeast(q.pending[j], w.pending[j])
      /\ AtLeast(q.pending[k], reason) /\ q.pending[k] # None
  BY <1>1, <1>3, HigherCovers, AtLeastReflexive, NoReasonAssumption
<1> QED BY <1>1, <1>2, <1>4

-----------------------------------------------------------------------------
(* The operators of the schedule *)

LEMMA NobodyScheduled ==
    ASSUME NEW agents \in Schedules
    PROVE  /\ agents = NoAgents <=> Scheduled(agents) = {}
           /\ \A a \in Agents : agents[a] # None => agents[a] \in AgentState
<1>1. agents \in [Agents -> AgentState \cup {None}]
  BY DEF Schedules
<1>2. Scheduled(agents) = {} => agents = NoAgents
  BY <1>1 DEF Scheduled, NoAgents
<1> QED BY <1>1, <1>2 DEF Scheduled, NoAgents

\* scheduleNext of a runner that is not stopped arms the timer exactly if it has agents.
LEMMA ScheduleNextArms ==
    ASSUME NEW s \in Runner
    PROVE  /\ ScheduleNext(s) \in Runner
           /\ ScheduleNext(s).at = s.at /\ ScheduleNext(s).agents = s.agents
           /\ s.at = "stopped" => ScheduleNext(s) = s
           /\ s.at # "stopped" => (ScheduleNext(s).timer # None <=> s.agents # NoAgents)
<1> DEFINE due == {s.agents[a].due : a \in Scheduled(s.agents)}
           timer == IF due = {} THEN None ELSE CHOOSE t \in due : \A u \in due : t <= u
<1>1. s.agents \in Schedules
  BY DEF Runner
<1>2. due \in SUBSET Later
  BY <1>1, NobodyScheduled DEF Scheduled, AgentState
<1>3. due = {} <=> s.agents = NoAgents
  BY <1>1, NobodyScheduled
<1>4. due # {} => timer \in due
  <2>1. ASSUME due # {} PROVE \E t \in due : \A u \in due : t <= u
    <3>1. due \in SUBSET Nat
      BY <1>2, TimesAreNaturals
    <3> HIDE DEF due
    <3> QED BY <2>1, <3>1, LeastExists
  <2> HIDE DEF due
  <2> QED BY <2>1
<1>5. None \notin Later
  BY TimesAreNaturals, NoneAssumption
<1>6. timer \in Later \cup {None} /\ (timer # None <=> due # {})
  <2> HIDE DEF due
  <2> QED BY <1>2, <1>4, <1>5
<1>7. ScheduleNext(s) = IF s.at = "stopped" THEN s ELSE [s EXCEPT !.timer = timer]
  BY DEF ScheduleNext
<1> HIDE DEF timer, due
<1> QED BY <1>3, <1>6, <1>7 DEF Runner

LEMMA ResolveNextDueType ==
    ASSUME now \in Time, NEW interval \in Intervals, NEW prev \in AgentState \cup {None}
    PROVE  ResolveNextDue(interval, prev) \in Later
<1>1. now + interval \in Later
  BY TimesAreNaturals
<1>2. prev # None /\ prev.last # None => prev.last + interval \in Later
  BY TimesAreNaturals DEF AgentState
<1>3. prev # None => prev.due \in Later
  BY DEF AgentState
<1> QED BY <1>1, <1>2, <1>3 DEF ResolveNextDue

\* The schedules that a change of the configuration makes.
ConfiguredAgents(state, config) ==
    [a \in Agents |->
        IF config[a] = None THEN None
        ELSE [interval |-> config[a],
              last |-> IF state.agents[a] = None THEN None ELSE state.agents[a].last,
              due |-> ResolveNextDue(config[a], state.agents[a])]]

LEMMA ConfiguredType ==
    ASSUME now \in Time, NEW s \in Runner, s.at # "stopped", NEW config \in Configs
    PROVE  /\ Configured(s, config) \in Runner
           /\ Configured(s, config).at = s.at
           /\ Configured(s, config).agents = ConfiguredAgents(s, config)
           /\ ConfiguredAgents(s, config) \in Schedules
           /\ Configured(s, config).timer # None <=> Configured(s, config).agents # NoAgents
<1>1. ASSUME NEW a \in Agents, config[a] # None
      PROVE  [interval |-> config[a],
              last |-> IF s.agents[a] = None THEN None ELSE s.agents[a].last,
              due |-> ResolveNextDue(config[a], s.agents[a])] \in AgentState
  <2>1. config[a] \in Intervals
    BY <1>1 DEF Intervals
  <2>2. s.agents[a] \in AgentState \cup {None}
    BY DEF Runner, Schedules
  <2>3. ResolveNextDue(config[a], s.agents[a]) \in Later
    BY <2>1, <2>2, ResolveNextDueType
  <2> QED BY <2>1, <2>2, <2>3 DEF AgentState
<1>2. ConfiguredAgents(s, config) \in Schedules
  BY <1>1 DEF ConfiguredAgents, Schedules
<1> DEFINE c == [s EXCEPT !.agents = ConfiguredAgents(s, config)]
<1>3. c \in Runner /\ c.at = s.at /\ c.agents = ConfiguredAgents(s, config)
  BY <1>2 DEF Runner
<1>4. Configured(s, config) = ScheduleNext(c)
  BY DEF Configured, ConfiguredAgents
<1> HIDE DEF c
<1> QED BY <1>2, <1>3, <1>4, ScheduleNextArms

\* advanceAgentSchedule changes the two times of one agent that has a schedule.
LEMMA AdvanceType ==
    ASSUME NEW agents \in Schedules, NEW a \in Agents, agents[a] # None, NEW start \in Time
    PROVE  /\ Advance(agents, a, start) \in Schedules
           /\ Scheduled(Advance(agents, a, start)) = Scheduled(agents)
           /\ Advance(agents, a, start)[a] # None
           /\ Advance(agents, a, start)[a].interval = agents[a].interval
           /\ Advance(agents, a, start)[a].last = start
           /\ Advance(agents, a, start)[a].due = start + agents[a].interval
           /\ \A o \in Agents \ {a} : Advance(agents, a, start)[o] = agents[o]
<1>1. agents \in [Agents -> AgentState \cup {None}] /\ agents[a] \in AgentState
  BY DEF Schedules
<1> DEFINE next == [agents[a] EXCEPT !.last = start, !.due = start + agents[a].interval]
<1>2. start + agents[a].interval \in Later
  BY <1>1, TimesAreNaturals DEF AgentState
<1>3. /\ next \in AgentState /\ next.interval = agents[a].interval
      /\ next.last = start /\ next.due = start + agents[a].interval
  BY <1>1, <1>2 DEF AgentState
<1>4. next # None
  BY <1>3, NoneAssumption
<1>5. Advance(agents, a, start) = [agents EXCEPT ![a] = next]
  BY <1>1 DEF Advance
<1> HIDE DEF next
<1> QED BY <1>1, <1>3, <1>4, <1>5 DEF Schedules, Scheduled

-----------------------------------------------------------------------------
(* The inductive invariant: types and the shape of the runs *)

\* What the locals of a call of the handler say of each other: a run goes over agents that
\* the schedule it goes by knows, and it has taken its wake out of those that rest.
Shaped(x, agents) ==
    /\ x.at = "idle" => x.key = None /\ x.map = None
    /\ x.at # "idle" =>
          /\ x.key \in Targets /\ x.reason \in Reasons /\ x.rest[x.key] = None
          /\ x.left \subseteq Scheduled(IF x.map # None THEN x.map ELSE agents)
    /\ x.at = "executing" => x.agent \in x.left

RunsShaped ==
    \A b \in UnderWay :
        runner[batch[b].by].at # "new" /\ Shaped(batch[b], runner[batch[b].by].agents)

\* A runner that is live is the handler of the wake layer.
LiveHandles == \A r \in Runners : runner[r].at = "live" => wake.handler = r

Base == TypeOK /\ RunsShaped /\ LiveHandles

RunnerOK(s) == s \in Runner /\ (s.timer # None => s.at = "live" /\ s.agents # NoAgents)

\* TypeOK says so of every runner.
LEMMA RunnersOK ==
    ASSUME TypeOK, NEW r \in Runners
    PROVE  RunnerOK(runner[r]) /\ runner[r].agents \in Schedules
BY DEF TypeOK, RunnerOK, Runner

\* One runner changes: the types of all of them remain.
LEMMA RunnerUpdated ==
    ASSUME TypeOK, NEW r \in Runners, NEW s, RunnerOK(s), runner' = [runner EXCEPT ![r] = s]
    PROVE  /\ runner' \in [Runners -> Runner]
           /\ \A q \in Runners : RunnerOK(runner'[q])
           /\ runner'[r] = s
           /\ \A q \in Runners \ {r} : runner'[q] = runner[q]
<1>1. runner \in [Runners -> Runner] /\ s \in Runner
  BY DEF TypeOK, RunnerOK
<1>2. \A q \in Runners : runner'[q] = IF q = r THEN s ELSE runner[q]
  BY <1>1
<1>3. \A q \in Runners : RunnerOK(runner[q])
  BY RunnersOK
<1> QED BY <1>1, <1>2, <1>3

LEMMA BatchesUnderWay ==
    ASSUME TypeOK
    PROVE  /\ \A b \in UnderWay : b \in Batches /\ batch[b] \in Batch /\ batch[b].by \in Runners
           /\ \A b \in Batches : b \in UnderWay <=> batch[b] # None
BY DEF TypeOK, UnderWay, Batch

\* One batch changes.
LEMMA BatchUpdated ==
    ASSUME TypeOK, NEW b \in Batches, NEW x \in Batch, batch' = [batch EXCEPT ![b] = x]
    PROVE  /\ batch' \in [Batches -> Batch \cup {None}]
           /\ UnderWay' = UnderWay \cup {b}
           /\ batch'[b] = x
           /\ \A c \in Batches \ {b} : batch'[c] = batch[c]
<1>1. batch \in [Batches -> Batch \cup {None}] /\ x # None
  BY NoneAssumption DEF TypeOK
<1>2. \A c \in Batches : batch'[c] = IF c = b THEN x ELSE batch[c]
  BY <1>1
<1> QED BY <1>1, <1>2 DEF UnderWay

\* A run goes by the same agents if theirs are the only times that change.
LEMMA ShapedAfter ==
    ASSUME NEW x, NEW agents, NEW next, Shaped(x, agents), Scheduled(next) = Scheduled(agents)
    PROVE  Shaped(x, next)
<1>1. CASE x.map # None
  BY <1>1 DEF Shaped
<1>2. CASE x.map = None
  BY <1>2 DEF Shaped
<1> QED BY <1>1, <1>2

LEMMA RunsShapedAfter ==
    ASSUME RunsShaped,
           \A b \in UnderWay' :
               \/ /\ runner'[batch'[b].by].at # "new"
                  /\ Shaped(batch'[b], runner'[batch'[b].by].agents)
               \/ /\ b \in UnderWay /\ batch'[b] = batch[b]
                  /\ runner[batch[b].by].at # "new" => runner'[batch[b].by].at # "new"
                  /\ Scheduled(runner'[batch[b].by].agents)
                        = Scheduled(runner[batch[b].by].agents)
    PROVE  RunsShaped'
BY ShapedAfter DEF RunsShaped

\* A wake between two calls of the handler.
LEMMA BetweenType ==
    ASSUME NEW r \in Runners, NEW delay \in {0, Coalesce, Retry}, NEW rest \in Wakes
    PROVE  /\ Between(r, delay, rest) \in Batch
           /\ \A agents : Shaped(Between(r, delay, rest), agents)
           /\ Between(r, delay, rest).by = r /\ Between(r, delay, rest).at = "idle"
           /\ Between(r, delay, rest).rest = rest /\ Between(r, delay, rest).key = None
BY TimesAreNaturals DEF Between, Batch, Shaped

-----------------------------------------------------------------------------
(* One lemma for each action that is not of a batch *)

LEMMA InitBase == Init => Base
<1> SUFFICES ASSUME Init PROVE Base
  OBVIOUS
<1>1. wake \in WakeLayer /\ wake.handler = None
  BY DEF Init, Unregistered, WakeLayer, NoWakes, Wakes
<1>2. NoAgents \in Schedules
  BY DEF NoAgents, Schedules
<1>3. runner \in [Runners -> Runner]
  BY <1>2 DEF Init, Runner
<1>4. UnderWay = {} /\ batch \in [Batches -> Batch \cup {None}]
  BY DEF Init, UnderWay
<1>5. \A r \in Runners : runner[r].at = "new" /\ runner[r].timer = None
  BY DEF Init
<1>6. owed \in Wakes /\ interrupted = {} /\ slot \in [Agents -> Time \cup {None}] /\ unsaved = {}
  BY DEF Init, NoWakes, Wakes
<1>7. now \in Time /\ enabled \in BOOLEAN /\ events \in 0 .. MaxEvents
  BY BoundsAssumption, TimesAreNaturals DEF Init
<1> QED BY <1>1, <1>3, <1>4, <1>5, <1>6, <1>7 DEF Base, TypeOK, RunsShaped, LiveHandles

LEMMA StutterBase == ASSUME Base, UNCHANGED vars PROVE Base'
<1>1. TypeOK'
  BY DEF Base, TypeOK, vars
<1>2. RunsShaped' /\ LiveHandles'
  BY DEF Base, RunsShaped, LiveHandles, UnderWay, vars
<1> QED BY <1>1, <1>2 DEF Base

LEMMA ClockTicksBase == ASSUME Base, ClockTicks PROVE Base'
<1>1. now' \in Time
  BY BoundsAssumption DEF ClockTicks, Base, TypeOK, Time
<1>2. TypeOK'
  BY <1>1 DEF ClockTicks, Base, TypeOK, history
<1>3. RunsShaped' /\ LiveHandles'
  BY DEF ClockTicks, Base, RunsShaped, LiveHandles, UnderWay
<1> QED BY <1>2, <1>3 DEF Base

LEMMA EventCounted == ASSUME TypeOK, events < MaxEvents PROVE events + 1 \in 0 .. MaxEvents
BY BoundsAssumption DEF TypeOK

LEMMA SetHeartbeatsEnabledBase == ASSUME Base, SetHeartbeatsEnabled PROVE Base'
<1>1. enabled' \in BOOLEAN /\ events' \in 0 .. MaxEvents
  BY EventCounted DEF SetHeartbeatsEnabled, Base
<1>2. TypeOK'
  BY <1>1 DEF SetHeartbeatsEnabled, Base, TypeOK, history
<1>3. RunsShaped' /\ LiveHandles'
  BY DEF SetHeartbeatsEnabled, Base, RunsShaped, LiveHandles, UnderWay
<1> QED BY <1>2, <1>3 DEF Base

\* A request for k, of whatever origin: what the wake layer and the history become.
LEMMA RequestEffect ==
    ASSUME TypeOK, NEW k \in Targets, NEW reason \in Reasons, NEW delay \in {0, Coalesce},
           wake' = RequestHeartbeatNow(wake, now, k, reason, delay),
           owed' = [owed EXCEPT ![k] = Higher(@, reason)]
    PROVE  /\ wake' \in WakeLayer /\ owed' \in Wakes
           /\ wake'.timer # None
           /\ wake'.handler = wake.handler /\ wake'.running = wake.running
           /\ wake'.pending = [wake.pending EXCEPT ![k] = Higher(@, reason)]
           /\ \A j \in Targets : AtLeast(wake'.pending[j], wake.pending[j])
           /\ AtLeast(wake'.pending[k], reason) /\ wake'.pending[k] # None
<1>1. wake \in WakeLayer /\ now \in Time /\ owed \in [Targets -> Reasons \cup {None}]
  BY DEF TypeOK, Wakes
<1>2. owed' \in Wakes
  BY <1>1, HigherCovers DEF Wakes
<1>3. wake' = Schedule(QueuePendingWakeReason(wake, k, reason), now, delay, "normal")
  BY DEF RequestHeartbeatNow
<1> QED BY <1>1, <1>2, <1>3, AskedFor

LEMMA RequestBase ==
    ASSUME Base, NEW k \in Targets, NEW reason \in Asked, Request(k, reason)
    PROVE  Base'
<1>1. reason \in Reasons
  BY ReasonsRanked
<1>2. wake' \in WakeLayer /\ owed' \in Wakes /\ wake'.handler = wake.handler
  BY <1>1, RequestEffect DEF Request, Base
<1>3. events' \in 0 .. MaxEvents
  BY EventCounted DEF Request, Base
<1>4. TypeOK'
  BY <1>2, <1>3 DEF Request, Base, TypeOK
<1>5. RunsShaped' /\ LiveHandles'
  BY <1>2 DEF Request, Base, RunsShaped, LiveHandles, UnderWay
<1> QED BY <1>4, <1>5 DEF Base

LEMMA IntervalTimerFiresBase ==
    ASSUME Base, NEW r \in Runners, IntervalTimerFires(r)
    PROVE  Base'
<1>1. "interval" \in Reasons /\ All \in Targets
  BY ReasonsRanked, TargetsAssumption
<1>2. wake' \in WakeLayer /\ owed' \in Wakes /\ wake'.handler = wake.handler
  BY <1>1, RequestEffect DEF IntervalTimerFires, Base
<1> DEFINE s == [runner[r] EXCEPT !.timer = None]
<1>3. s \in Runner /\ s.timer = None /\ s.at = runner[r].at /\ s.agents = runner[r].agents
  BY DEF Base, TypeOK, Runner
<1>4. runner' = [runner EXCEPT ![r] = s]
  BY DEF IntervalTimerFires
<1>5. RunnerOK(s)
  BY <1>3 DEF RunnerOK
<1> HIDE DEF s
<1>6. /\ runner' \in [Runners -> Runner]
      /\ \A q \in Runners : RunnerOK(runner'[q])
      /\ \A q \in Runners : runner'[q].at = runner[q].at /\ runner'[q].agents = runner[q].agents
  BY <1>3, <1>4, <1>5, RunnerUpdated DEF Base
<1>7. TypeOK'
  BY <1>2, <1>6 DEF IntervalTimerFires, Base, TypeOK, RunnerOK
<1>8. RunsShaped' /\ LiveHandles'
  BY <1>2, <1>6, BatchesUnderWay DEF IntervalTimerFires, Base, RunsShaped, LiveHandles, UnderWay
<1> QED BY <1>7, <1>8 DEF Base

\* The callback of the wake layer's timer gives everything that is pending to the handler,
\* or comes back later; without a handler it leaves what is pending.
LEMMA WakeTimerFiresEffect ==
    ASSUME TypeOK, WakeTimerFires
    PROVE  /\ wake' \in WakeLayer /\ wake'.handler = wake.handler
           /\ \/ /\ UNCHANGED batch /\ wake'.pending = wake.pending
                 /\ wake'.running = wake.running
                 /\ wake.handler # None => wake'.timer # None
              \/ /\ wake.handler \in Runners /\ ~ wake.running
                 /\ wake'.pending = NoWakes /\ wake'.running
                 /\ \E b \in Batches \ UnderWay, x \in Batch :
                       /\ batch' = [batch EXCEPT ![b] = x]
                       /\ x.by = wake.handler /\ x.at = "idle" /\ x.key = None
                       /\ x.rest = wake.pending
                       /\ \A agents : Shaped(x, agents)
<1>1. wake \in WakeLayer /\ now \in Time /\ wake.timer # None /\ wake.timer \in WakeTimer
  BY DEF TypeOK, WakeLayer, WakeTimerFires
<1>2. PICK w : w = Fired(wake)
  OBVIOUS
<1>3. w \in WakeLayer /\ w.handler = wake.handler /\ w.pending = wake.pending
  BY <1>1, <1>2 DEF Fired, WakeLayer
<1>4. w.running = wake.running
  BY <1>1, <1>2 DEF Fired, WakeLayer
<1>5. wake.timer.delay \in {0, Coalesce, Retry} /\ wake.timer.type \in {"normal", "retry"}
  BY <1>1 DEF WakeTimer
<1>6. CASE w.handler = None /\ wake' = w /\ UNCHANGED batch
  BY <1>3, <1>4, <1>6
<1>7. CASE w.handler # None /\ wake' = Postponed(w, now, wake.timer) /\ UNCHANGED batch
  <2>1. PICK v : v = [w EXCEPT !.scheduled = TRUE]
    OBVIOUS
  <2>2. v \in WakeLayer /\ v.handler = w.handler /\ v.pending = w.pending
    BY <1>3, <2>1 DEF WakeLayer
  <2>3. v.running = w.running
    BY <1>3, <2>1 DEF WakeLayer
  <2>4. PICK delay \in {0, Coalesce, Retry}, type \in {"normal", "retry"} :
           wake' = Schedule(v, now, delay, type)
    BY <1>5, <1>7, <2>1 DEF Postponed
  <2>5. now \in Time /\ v \in WakeLayer
    BY <1>1, <2>2
  <2>6. LET next == Schedule(v, now, delay, type)
        IN  /\ next \in WakeLayer /\ next.timer # None /\ next.pending = v.pending
            /\ next.handler = v.handler /\ next.running = v.running
    BY <2>5, ScheduleArms
  <2> QED BY <1>3, <1>4, <1>7, <2>2, <2>3, <2>4, <2>6
<1>8. CASE /\ w.handler # None /\ ~ w.running /\ wake' = Taken(w)
           /\ \E b \in Batches \ UnderWay :
                 batch' = [batch EXCEPT ![b] = Between(w.handler, wake.timer.delay, w.pending)]
  <2>1. wake' \in WakeLayer /\ wake'.handler = w.handler /\ wake'.pending = NoWakes
    BY <1>3, <1>8 DEF Taken, WakeLayer, NoWakes, Wakes
  <2>2. wake'.running
    BY <1>3, <1>8 DEF Taken, WakeLayer
  <2>3. w.handler \in Runners /\ w.pending \in Wakes
    BY <1>3, <1>8 DEF WakeLayer
  <2>4. PICK b \in Batches \ UnderWay :
           batch' = [batch EXCEPT ![b] = Between(w.handler, wake.timer.delay, w.pending)]
    BY <1>8
  <2>5. PICK x \in Batch : /\ x = Between(w.handler, wake.timer.delay, w.pending)
                           /\ x.by = w.handler /\ x.at = "idle" /\ x.key = None
                           /\ x.rest = w.pending /\ \A agents : Shaped(x, agents)
    BY <1>5, <2>3, BetweenType
  <2>6. ~ wake.running
    BY <1>4, <1>8
  <2>7. \E c \in Batches \ UnderWay, y \in Batch :
           /\ batch' = [batch EXCEPT ![c] = y]
           /\ y.by = wake.handler /\ y.at = "idle" /\ y.key = None
           /\ y.rest = wake.pending /\ \A agents : Shaped(y, agents)
    BY <1>3, <2>4, <2>5
  <2> QED BY <1>3, <2>1, <2>2, <2>3, <2>6, <2>7
<1>9. w.running = Occupied(w)
  BY DEF Occupied
<1> QED BY <1>2, <1>6, <1>7, <1>8, <1>9 DEF WakeTimerFires

LEMMA WakeTimerFiresBase == ASSUME Base, WakeTimerFires PROVE Base'
<1>1. wake' \in WakeLayer /\ wake'.handler = wake.handler
  BY WakeTimerFiresEffect DEF Base
<1>2. UNCHANGED <<now, enabled, runner, events, owed, interrupted, slot, unsaved>>
  BY DEF WakeTimerFires, history
<1>3. CASE UNCHANGED batch
  BY <1>1, <1>2, <1>3 DEF Base, TypeOK, RunsShaped, LiveHandles, UnderWay
<1>4. ASSUME NEW b \in Batches \ UnderWay, NEW x \in Batch,
             wake.handler \in Runners, x.by = wake.handler,
             batch' = [batch EXCEPT ![b] = x], \A agents : Shaped(x, agents)
      PROVE  Base'
  <2>1. /\ batch' \in [Batches -> Batch \cup {None}] /\ UnderWay' = UnderWay \cup {b}
        /\ batch'[b] = x /\ \A c \in Batches \ {b} : batch'[c] = batch[c]
    BY <1>4, BatchUpdated DEF Base
  <2>2. TypeOK'
    BY <1>1, <1>2, <2>1 DEF Base, TypeOK
  <2>3. runner[x.by].at # "new"
    BY <1>4, NoneAssumption DEF Base, TypeOK
  <2>4. RunsShaped'
    BY <1>2, <1>4, <2>1, <2>3, BatchesUnderWay DEF Base, RunsShaped
  <2> QED BY <1>1, <1>2, <2>2, <2>4 DEF Base, LiveHandles
<1> QED BY <1>3, <1>4, WakeTimerFiresEffect DEF Base

\* setHeartbeatWakeHandler keeps what is pending, and arms the timer for it.
LEMMA RegisteredKeeps ==
    ASSUME NEW w \in WakeLayer, NEW t \in Time, NEW r \in Runners
    PROVE  LET v == Registered(w, r, t)
           IN  /\ v \in WakeLayer /\ v.handler = r /\ v.pending = w.pending
               /\ v.pending # NoWakes => v.timer # None
<1>1. PICK fresh : fresh = [Unregistered EXCEPT !.handler = r, !.pending = w.pending]
  OBVIOUS
<1>2. fresh \in WakeLayer /\ fresh.handler = r /\ fresh.pending = w.pending
  BY <1>1 DEF Unregistered, WakeLayer
<1>3. /\ Schedule(fresh, t, Coalesce, "normal") \in WakeLayer
      /\ Schedule(fresh, t, Coalesce, "normal").timer # None
      /\ Schedule(fresh, t, Coalesce, "normal").pending = fresh.pending
      /\ Schedule(fresh, t, Coalesce, "normal").handler = fresh.handler
  BY <1>2, ScheduleArms
<1>4. Registered(w, r, t) = IF w.pending = NoWakes THEN fresh
                            ELSE Schedule(fresh, t, Coalesce, "normal")
  BY <1>1 DEF Registered
<1> QED BY <1>2, <1>3, <1>4

LEMMA StartRunnerEffect ==
    ASSUME Base, NEW r \in Runners, NEW config \in Configs, StartRunner(r, config)
    PROVE  /\ RunnerOK(runner'[r]) /\ runner'[r].at = "live"
           /\ runner'[r].timer # None <=> runner'[r].agents # NoAgents
           /\ runner'[r].agents
                = ConfiguredAgents([runner[r] EXCEPT !.at = "live"], config)
           /\ runner' \in [Runners -> Runner]
           /\ \A q \in Runners \ {r} : runner'[q] = runner[q] /\ runner[q].at # "live"
           /\ \A q \in Runners : RunnerOK(runner'[q])
           /\ wake' \in WakeLayer /\ wake'.handler = r /\ wake'.pending = wake.pending
           /\ wake'.pending # NoWakes => wake'.timer # None
           /\ wake.handler = None
<1>1. PICK l : l = [runner[r] EXCEPT !.at = "live"]
  OBVIOUS
<1>2. l \in Runner /\ l.at = "live"
  BY <1>1 DEF Base, TypeOK, Runner
<1>3. now \in Time
  BY DEF Base, TypeOK
<1>4. PICK s : s = Configured(l, config)
  OBVIOUS
<1>5. /\ s \in Runner /\ s.at = "live" /\ s.agents = ConfiguredAgents(l, config)
      /\ s.timer # None <=> s.agents # NoAgents
  BY <1>2, <1>3, <1>4, ConfiguredType
<1>6. runner' = [runner EXCEPT ![r] = s]
  BY <1>1, <1>4 DEF StartRunner
<1>7. RunnerOK(s)
  BY <1>5 DEF RunnerOK
<1>8. /\ runner' \in [Runners -> Runner] /\ runner'[r] = s
      /\ \A q \in Runners : RunnerOK(runner'[q])
      /\ \A q \in Runners \ {r} : runner'[q] = runner[q]
  BY <1>6, <1>7, RunnerUpdated DEF Base
<1>9. /\ wake' \in WakeLayer /\ wake'.handler = r /\ wake'.pending = wake.pending
      /\ wake'.pending # NoWakes => wake'.timer # None
  <2>1. wake \in WakeLayer /\ now \in Time /\ wake' = Registered(wake, r, now)
    BY DEF Base, TypeOK, StartRunner
  <2> QED BY <2>1, RegisteredKeeps
<1>10. \A q \in Runners : runner[q].at # "live"
  BY DEF StartRunner
<1>11. wake.handler = None
  BY <1>10 DEF Base, TypeOK, WakeLayer
<1> QED BY <1>1, <1>5, <1>7, <1>8, <1>9, <1>10, <1>11

LEMMA StartRunnerBase ==
    ASSUME Base, NEW r \in Runners, NEW config \in Configs, StartRunner(r, config)
    PROVE  Base'
<1>1. interrupted' \in SUBSET Runners
  BY DEF StartRunner, Base, TypeOK
<1>2. TypeOK'
  BY <1>1, StartRunnerEffect DEF StartRunner, Base, TypeOK, RunnerOK
<1>3. \A b \in UnderWay : batch[b].by \in Runners \ {r}
  BY BatchesUnderWay DEF StartRunner, Base, RunsShaped
<1>4. UnderWay' = UnderWay /\ batch' = batch
  BY DEF StartRunner, UnderWay
<1>5. \A q \in Runners \ {r} : runner'[q] = runner[q]
  BY StartRunnerEffect
<1>6. RunsShaped'
  BY <1>3, <1>4, <1>5 DEF Base, RunsShaped
<1>7. LiveHandles'
  BY StartRunnerEffect DEF LiveHandles
<1> QED BY <1>2, <1>6, <1>7 DEF Base

LEMMA StopRunnerEffect ==
    ASSUME Base, NEW r \in Runners, StopRunner(r)
    PROVE  /\ runner' \in [Runners -> Runner] /\ runner'[r].at = "stopped"
           /\ runner'[r].agents = runner[r].agents
           /\ \A q \in Runners : RunnerOK(runner'[q])
           /\ \A q \in Runners \ {r} : runner'[q] = runner[q]
           /\ wake' \in WakeLayer /\ wake.handler = r /\ wake'.handler = None
           /\ wake'.pending = wake.pending
<1>1. PICK s : s = [runner[r] EXCEPT !.at = "stopped", !.timer = None]
  OBVIOUS
<1>2. s \in Runner /\ s.at = "stopped" /\ s.timer = None /\ s.agents = runner[r].agents
  BY <1>1 DEF Base, TypeOK, Runner
<1>3. RunnerOK(s)
  BY <1>2 DEF RunnerOK
<1>4. runner' = [runner EXCEPT ![r] = s]
  BY <1>1 DEF StopRunner
<1>5. /\ runner' \in [Runners -> Runner] /\ runner'[r] = s
      /\ \A q \in Runners : RunnerOK(runner'[q])
      /\ \A q \in Runners \ {r} : runner'[q] = runner[q]
  BY <1>3, <1>4, RunnerUpdated DEF Base
<1>6. wake.handler = r /\ wake \in WakeLayer
  BY DEF StopRunner, Base, LiveHandles, TypeOK
<1>7. wake' = [wake EXCEPT !.handler = None]
  BY <1>6 DEF StopRunner, Disposed
<1>8. wake' \in WakeLayer /\ wake'.handler = None /\ wake'.pending = wake.pending
  BY <1>6, <1>7 DEF WakeLayer
<1> QED BY <1>2, <1>5, <1>6, <1>8

LEMMA StopRunnerBase == ASSUME Base, NEW r \in Runners, StopRunner(r) PROVE Base'
<1>1. events' \in 0 .. MaxEvents
  BY EventCounted DEF StopRunner, Base
<1>2. TypeOK'
  BY <1>1, StopRunnerEffect DEF StopRunner, Base, TypeOK, history, RunnerOK
<1>3. UnderWay' = UnderWay /\ batch' = batch
  BY DEF StopRunner, UnderWay
<1>4. RunsShaped'
  BY <1>3, StopRunnerEffect, BatchesUnderWay DEF Base, RunsShaped
<1>5. LiveHandles'
  BY StopRunnerEffect DEF Base, LiveHandles
<1> QED BY <1>2, <1>4, <1>5 DEF Base

LEMMA UpdateConfigEffect ==
    ASSUME Base, NEW r \in Runners, NEW config \in Configs, UpdateConfig(r, config)
    PROVE  /\ RunnerOK(runner'[r]) /\ runner'[r].at = "live"
           /\ runner'[r].timer # None <=> runner'[r].agents # NoAgents
           /\ runner'[r].agents = ConfiguredAgents(runner[r], config)
           /\ runner' \in [Runners -> Runner]
           /\ \A q \in Runners : RunnerOK(runner'[q])
           /\ \A q \in Runners \ {r} : runner'[q] = runner[q]
           /\ batch' \in [Batches -> Batch \cup {None}] /\ UnderWay' = UnderWay
           /\ \A b \in UnderWay :
                 /\ batch'[b] = IF /\ batch[b].by = r /\ batch[b].at # "idle"
                                   /\ batch[b].map = None
                                THEN [batch[b] EXCEPT !.map = runner[r].agents]
                                ELSE batch[b]
                 /\ batch'[b].by = batch[b].by /\ batch'[b].at = batch[b].at
                 /\ batch'[b].key = batch[b].key /\ batch'[b].reason = batch[b].reason
                 /\ batch'[b].rest = batch[b].rest /\ batch'[b].left = batch[b].left
                 /\ batch'[b].agent = batch[b].agent /\ batch'[b].start = batch[b].start
<1>1. now \in Time /\ runner[r] \in Runner /\ runner[r].at = "live"
  BY DEF Base, TypeOK, UpdateConfig
<1>2. PICK s : s = Configured(runner[r], config)
  OBVIOUS
<1>3. /\ s \in Runner /\ s.at = "live" /\ s.agents = ConfiguredAgents(runner[r], config)
      /\ s.timer # None <=> s.agents # NoAgents
  BY <1>1, <1>2, ConfiguredType
<1>4. RunnerOK(s)
  BY <1>3 DEF RunnerOK
<1>5. runner' = [runner EXCEPT ![r] = s]
  BY <1>2 DEF UpdateConfig
<1>6. /\ runner' \in [Runners -> Runner] /\ runner'[r] = s
      /\ \A q \in Runners : RunnerOK(runner'[q])
      /\ \A q \in Runners \ {r} : runner'[q] = runner[q]
  BY <1>4, <1>5, RunnerUpdated DEF Base
<1>7. runner[r].agents \in Schedules
  BY <1>1 DEF Runner
<1>8. ASSUME NEW b \in UnderWay
      PROVE  /\ batch'[b] = IF /\ batch[b].by = r /\ batch[b].at # "idle"
                               /\ batch[b].map = None
                            THEN [batch[b] EXCEPT !.map = runner[r].agents]
                            ELSE batch[b]
             /\ batch'[b] \in Batch
             /\ batch'[b].by = batch[b].by /\ batch'[b].at = batch[b].at
             /\ batch'[b].key = batch[b].key /\ batch'[b].reason = batch[b].reason
             /\ batch'[b].rest = batch[b].rest /\ batch'[b].left = batch[b].left
             /\ batch'[b].agent = batch[b].agent /\ batch'[b].start = batch[b].start
  <2>1. b \in Batches /\ batch[b] \in Batch /\ batch[b] # None
    BY BatchesUnderWay DEF Base
  <2>2. [batch[b] EXCEPT !.map = runner[r].agents] \in Batch
    BY <1>7, <2>1 DEF Batch
  <2>3. batch'[b] = IF /\ batch[b].by = r /\ batch[b].at # "idle" /\ batch[b].map = None
                    THEN [batch[b] EXCEPT !.map = runner[r].agents] ELSE batch[b]
    BY <2>1 DEF UpdateConfig
  <2> QED BY <2>1, <2>2, <2>3 DEF Batch
<1>9. \A b \in Batches \ UnderWay : batch'[b] = None
  BY DEF UpdateConfig, UnderWay
<1>10. batch' \in [Batches -> Batch \cup {None}]
  <2>1. \A b \in Batches : batch'[b] \in Batch \cup {None}
    BY <1>8, <1>9
  <2>2. batch' = [b \in Batches |-> batch'[b]]
    BY DEF UpdateConfig
  <2> QED BY <2>1, <2>2
<1>11. UnderWay' = UnderWay
  <2>1. \A b \in Batches : batch'[b] # None <=> b \in UnderWay
    BY <1>8, <1>9, NoneAssumption
  <2> QED BY <2>1 DEF UnderWay
<1> QED BY <1>3, <1>4, <1>6, <1>8, <1>10, <1>11

LEMMA UpdateConfigBase ==
    ASSUME Base, NEW r \in Runners, NEW config \in Configs, UpdateConfig(r, config)
    PROVE  Base'
<1>1. events' \in 0 .. MaxEvents
  BY EventCounted DEF UpdateConfig, Base
<1>2. wake' = wake /\ runner[r].at = "live"
  BY DEF UpdateConfig
<1>3. TypeOK'
  <2>1. /\ runner' \in [Runners -> Runner] /\ \A q \in Runners : RunnerOK(runner'[q])
        /\ batch' \in [Batches -> Batch \cup {None}]
    BY UpdateConfigEffect
  <2>2. runner'[r].at = "live" /\ \A q \in Runners \ {r} : runner'[q] = runner[q]
    BY UpdateConfigEffect
  <2>3. wake \in WakeLayer /\ (wake.handler # None => runner[wake.handler].at = "live")
    BY DEF Base, TypeOK
  <2>4. wake.handler # None => runner'[wake.handler].at = "live"
    BY <2>2, <2>3 DEF WakeLayer
  <2>5. wake' \in WakeLayer /\ (wake'.handler # None => runner'[wake'.handler].at = "live")
    BY <1>2, <2>3, <2>4
  <2> QED BY <1>1, <2>1, <2>5 DEF UpdateConfig, Base, TypeOK, history, RunnerOK
<1>4. ASSUME NEW b \in UnderWay
      PROVE  runner'[batch'[b].by].at # "new" /\ Shaped(batch'[b], runner'[batch'[b].by].agents)
  <2>1. /\ batch[b].by \in Runners /\ runner[batch[b].by].at # "new"
        /\ Shaped(batch[b], runner[batch[b].by].agents) /\ batch[b] \in Batch
    BY BatchesUnderWay DEF Base, RunsShaped
  <2>2. batch'[b].by = batch[b].by /\ runner'[batch[b].by].at # "new"
    BY <2>1, UpdateConfigEffect
  <2>3. CASE batch[b].by # r
    <3>1. runner'[batch[b].by] = runner[batch[b].by] /\ batch'[b] = batch[b]
      BY <2>1, <2>3, UpdateConfigEffect
    <3> QED BY <2>1, <2>2, <3>1
  <2>4. CASE batch[b].by = r /\ (batch[b].at = "idle" \/ batch[b].map # None)
    BY <2>1, <2>2, <2>4, UpdateConfigEffect DEF Shaped
  <2>5. CASE batch[b].by = r /\ batch[b].at # "idle" /\ batch[b].map = None
    <3>1. batch'[b] = [batch[b] EXCEPT !.map = runner[r].agents]
      BY <2>5, UpdateConfigEffect
    <3>2. runner[r].agents # None
      BY RunnersOK, NoneAssumption DEF Base
    <3>3. batch'[b].map # None /\ batch'[b].map = runner[r].agents
      BY <2>1, <3>1, <3>2 DEF Batch
    <3>4. /\ batch[b].key \in Targets /\ batch[b].reason \in Reasons
          /\ batch[b].rest[batch[b].key] = None
          /\ batch[b].left \subseteq Scheduled(runner[r].agents)
          /\ batch[b].at = "executing" => batch[b].agent \in batch[b].left
      BY <2>1, <2>5 DEF Shaped
    <3>5. Shaped(batch'[b], runner'[batch'[b].by].agents)
      BY <2>5, <3>3, <3>4, UpdateConfigEffect DEF Shaped
    <3> QED BY <2>2, <3>5
  <2> QED BY <2>3, <2>4, <2>5
<1>5. RunsShaped'
  BY <1>4, UpdateConfigEffect DEF RunsShaped
<1>6. LiveHandles'
  BY <1>2, UpdateConfigEffect DEF Base, LiveHandles
<1> QED BY <1>3, <1>5, <1>6 DEF Base

-----------------------------------------------------------------------------
(* The actions of batches: what each does to its batch and to its runner *)

\* A step that leaves the runners what they are, but for times and timers.
RunnersKept ==
    /\ runner' \in [Runners -> Runner]
    /\ \A q \in Runners :
          /\ RunnerOK(runner'[q]) /\ runner'[q].at = runner[q].at
          /\ Scheduled(runner'[q].agents) = Scheduled(runner[q].agents)

LEMMA KeptWhenUnchanged == ASSUME TypeOK, UNCHANGED runner PROVE RunnersKept
BY RunnersOK DEF TypeOK, RunnersKept

LEMMA KeptWhenUpdated ==
    ASSUME TypeOK, NEW r \in Runners, NEW s, RunnerOK(s), s.at = runner[r].at,
           Scheduled(s.agents) = Scheduled(runner[r].agents),
           runner' = [runner EXCEPT ![r] = s]
    PROVE  RunnersKept /\ runner'[r] = s /\ \A q \in Runners \ {r} : runner'[q] = runner[q]
<1>1. /\ runner' \in [Runners -> Runner] /\ runner'[r] = s
      /\ \A q \in Runners : RunnerOK(runner'[q])
      /\ \A q \in Runners \ {r} : runner'[q] = runner[q]
  BY RunnerUpdated
<1> QED BY <1>1 DEF RunnersKept

\* The interval timer of a runner that is or was live is set again.
LEMMA RearmedOK ==
    ASSUME NEW s, RunnerOK(s), s.at # "new"
    PROVE  /\ RunnerOK(ScheduleNext(s))
           /\ ScheduleNext(s).at = s.at /\ ScheduleNext(s).agents = s.agents
           /\ s.at = "live" => (ScheduleNext(s).timer # None <=> s.agents # NoAgents)
<1>1. s \in Runner /\ s.at \in {"live", "stopped"}
  BY DEF RunnerOK, Runner
<1> QED BY <1>1, ScheduleNextArms DEF RunnerOK

\* One of its agents has run.
LEMMA AdvancedOK ==
    ASSUME NEW s, RunnerOK(s), NEW a \in Scheduled(s.agents), NEW start \in Time
    PROVE  LET next == [s EXCEPT !.agents = Advance(@, a, start)]
           IN  /\ RunnerOK(next) /\ next.at = s.at /\ next.timer = s.timer
               /\ next.agents = Advance(s.agents, a, start)
               /\ Scheduled(next.agents) = Scheduled(s.agents)
               /\ next.agents # NoAgents /\ s.agents # NoAgents
<1>1. s \in Runner /\ s.agents \in Schedules /\ a \in Agents /\ s.agents[a] # None
  BY DEF RunnerOK, Runner, Scheduled
<1>2. /\ Advance(s.agents, a, start) \in Schedules
      /\ Scheduled(Advance(s.agents, a, start)) = Scheduled(s.agents)
      /\ Advance(s.agents, a, start)[a] # None
  BY <1>1, AdvanceType
<1>3. Advance(s.agents, a, start) # NoAgents /\ s.agents # NoAgents
  BY <1>1, <1>2 DEF NoAgents
<1>4. PICK g \in Schedules : g = Advance(s.agents, a, start)
  BY <1>2
<1>5. PICK next : next = [s EXCEPT !.agents = g]
  OBVIOUS
<1>6. next \in Runner /\ next.at = s.at /\ next.timer = s.timer /\ next.agents = g
  BY <1>1, <1>4, <1>5 DEF Runner
<1>7. next = [s EXCEPT !.agents = Advance(@, a, start)]
  BY <1>1, <1>4, <1>5
<1>8. RunnerOK(next)
  BY <1>3, <1>4, <1>6 DEF RunnerOK
<1> QED BY <1>2, <1>3, <1>4, <1>6, <1>7, <1>8

\* A step of batch b that leaves a batch behind preserves the invariant if what it leaves
\* has the shape of a run.
LEMMA BatchStepBase ==
    ASSUME Base, NEW b \in UnderWay, NEW x \in Batch, batch' = [batch EXCEPT ![b] = x],
           x.by = batch[b].by, Shaped(x, runner[x.by].agents), RunnersKept,
           wake' \in WakeLayer, wake'.handler = wake.handler,
           UNCHANGED <<now, enabled, events, interrupted>>,
           owed' \in Wakes, slot' \in [Agents -> Time \cup {None}], unsaved' \in SUBSET Agents
    PROVE  Base' /\ UnderWay' = UnderWay /\ batch'[b] = x
             /\ \A c \in Batches \ {b} : batch'[c] = batch[c]
<1>1. b \in Batches /\ batch[b].by \in Runners
  BY BatchesUnderWay DEF Base
<1>2. /\ batch' \in [Batches -> Batch \cup {None}] /\ UnderWay' = UnderWay \cup {b}
      /\ batch'[b] = x /\ \A c \in Batches \ {b} : batch'[c] = batch[c]
  BY <1>1, BatchUpdated DEF Base
<1>3. wake'.handler # None => runner'[wake'.handler].at = "live"
  BY DEF Base, TypeOK, RunnersKept, WakeLayer
<1>4. \A q \in Runners : runner'[q].timer # None =>
         runner'[q].at = "live" /\ runner'[q].agents # NoAgents
  BY DEF RunnersKept, RunnerOK
<1>5. TypeOK'
  BY <1>2, <1>3, <1>4 DEF Base, TypeOK, RunnersKept
<1>6. Shaped(x, runner'[x.by].agents) /\ runner'[x.by].at # "new"
  BY <1>1, ShapedAfter DEF RunnersKept, Base, RunsShaped
<1>7. RunsShaped'
  <2>1. \A c \in UnderWay \ {b} :
           /\ c \in Batches /\ batch'[c] = batch[c] /\ batch[c].by \in Runners
           /\ runner[batch[c].by].at # "new" /\ Shaped(batch[c], runner[batch[c].by].agents)
    BY <1>2, BatchesUnderWay DEF Base, RunsShaped
  <2>2. \A c \in UnderWay \ {b} :
           /\ runner'[batch'[c].by].at # "new"
           /\ Shaped(batch'[c], runner'[batch'[c].by].agents)
    BY <2>1, ShapedAfter DEF RunnersKept
  <2> QED BY <1>2, <1>6, <2>2 DEF RunsShaped
<1>8. LiveHandles'
  BY DEF LiveHandles, RunnersKept, Base
<1> QED BY <1>2, <1>5, <1>7, <1>8 DEF Base

\* What the invariant says of a batch under way.
LEMMA RunOf ==
    ASSUME Base, NEW b \in UnderWay
    PROVE  /\ b \in Batches /\ batch[b] \in Batch /\ batch[b].by \in Runners
           /\ runner[batch[b].by].at # "new" /\ RunnerOK(runner[batch[b].by])
           /\ runner[batch[b].by].agents \in Schedules
           /\ Shaped(batch[b], runner[batch[b].by].agents)
BY BatchesUnderWay, RunnersOK DEF Base, RunsShaped

LEMMA TurnedDownEffect ==
    ASSUME Base, NEW b \in UnderWay, NEW k \in Targets, TurnedDown(b, k)
    PROVE  /\ Base' /\ RunnersKept
           /\ UnderWay' = UnderWay /\ \A c \in Batches \ {b} : batch'[c] = batch[c]
           /\ batch[b].at = "idle" /\ batch[b].key = None
           /\ batch'[b].by = batch[b].by /\ batch'[b].at = "idle" /\ batch'[b].key = None
           /\ batch'[b].rest = [batch[b].rest EXCEPT ![k] = None]
           /\ owed' = [owed EXCEPT ![k] = wake.pending[k]]
           /\ \A q \in Runners : runner'[q].agents = runner[q].agents
           /\ \A q \in Runners \ {batch[b].by} : runner'[q] = runner[q]
<1> DEFINE r == batch[b].by
<1>1. PICK x : x = [batch[b] EXCEPT !.rest[k] = None]
  OBVIOUS
<1>2. /\ b \in Batches /\ batch[b] \in Batch /\ r \in Runners
      /\ runner[r].at # "new" /\ RunnerOK(runner[r])
      /\ Shaped(batch[b], runner[r].agents)
  BY RunOf
<1>3. batch[b].at = "idle" /\ batch[b].key = None /\ batch[b].map = None
  BY <1>2 DEF TurnedDown, Shaped
<1>4. [batch[b].rest EXCEPT ![k] = None] \in Wakes
  BY <1>2 DEF Batch, Wakes
<1>5. /\ x \in Batch /\ x.by = r /\ x.at = "idle" /\ x.key = None /\ x.map = None
      /\ x.rest = [batch[b].rest EXCEPT ![k] = None]
  BY <1>1, <1>2, <1>3, <1>4 DEF Batch
<1>6. Shaped(x, runner[x.by].agents)
  BY <1>5 DEF Shaped
<1>7. batch' = [batch EXCEPT ![b] = x]
  BY <1>1, <1>2 DEF TurnedDown
<1>8. /\ RunnersKept
      /\ \A q \in Runners : runner'[q].agents = runner[q].agents
      /\ \A q \in Runners \ {r} : runner'[q] = runner[q]
  <2>1. CASE UNCHANGED runner
    BY <2>1, KeptWhenUnchanged DEF Base
  <2>2. CASE runner' = [runner EXCEPT ![r] = ScheduleNext(@)]
    <3>1. PICK s : s = ScheduleNext(runner[r])
      OBVIOUS
    <3>2. RunnerOK(s) /\ s.at = runner[r].at /\ s.agents = runner[r].agents
      BY <1>2, <3>1, RearmedOK
    <3>3. runner' = [runner EXCEPT ![r] = s]
      BY <2>2, <3>1
    <3>4. /\ RunnersKept /\ runner'[r] = s
          /\ \A q \in Runners \ {r} : runner'[q] = runner[q]
      BY <1>2, <3>2, <3>3, KeptWhenUpdated DEF Base
    <3> QED BY <3>2, <3>4
  <2> QED BY <2>1, <2>2 DEF TurnedDown
<1>9. wake' = wake /\ wake \in WakeLayer /\ owed \in Wakes
  BY DEF TurnedDown, Base, TypeOK
<1>10. owed' = [owed EXCEPT ![k] = wake.pending[k]] /\ owed' \in Wakes
  BY <1>9 DEF TurnedDown, Settled, WakeLayer, Wakes
<1>11. UNCHANGED <<now, enabled, events, interrupted, slot, unsaved>>
  BY DEF TurnedDown
<1>12. slot' \in [Agents -> Time \cup {None}] /\ unsaved' \in SUBSET Agents
  BY <1>11 DEF Base, TypeOK
<1>13. /\ Base' /\ UnderWay' = UnderWay /\ batch'[b] = x
       /\ \A c \in Batches \ {b} : batch'[c] = batch[c]
  BY <1>5, <1>6, <1>7, <1>8, <1>9, <1>10, <1>11, <1>12, BatchStepBase
<1> QED BY <1>3, <1>5, <1>8, <1>10, <1>13

LEMMA BeginRunEffect ==
    ASSUME Base, NEW b \in UnderWay, NEW k \in Targets, BeginRun(b, k)
    PROVE  /\ Base'
           /\ UnderWay' = UnderWay /\ \A c \in Batches \ {b} : batch'[c] = batch[c]
           /\ batch[b].at = "idle"
           /\ batch'[b].by = batch[b].by /\ batch'[b].at = "visiting"
           /\ batch'[b].start = now /\ batch'[b].map = None
           /\ batch'[b].left \subseteq Scheduled(runner[batch[b].by].agents)
           /\ \A j \in Targets : HeldBy(b, j)' = HeldBy(b, j)
<1> DEFINE agents == runner[batch[b].by].agents
           left == IF k = All THEN Scheduled(agents) ELSE {k}
<1>1. PICK x : x = [batch[b] EXCEPT !.rest[k] = None, !.at = "visiting", !.key = k,
                                    !.reason = batch[b].rest[k], !.start = now, !.left = left]
  OBVIOUS
<1>2. /\ b \in Batches /\ batch[b] \in Batch /\ batch[b].by \in Runners
      /\ agents \in Schedules /\ Shaped(batch[b], agents)
  BY RunOf
<1>3. batch[b].at = "idle" /\ batch[b].key = None /\ batch[b].map = None
        /\ batch[b].rest[k] # None
  BY <1>2 DEF BeginRun, Shaped
<1>4. left \subseteq Scheduled(agents) /\ left \in SUBSET Agents
  BY TargetsAssumption DEF BeginRun, Scheduled
<1>5. batch[b].rest \in [Targets -> Reasons \cup {None}] /\ batch[b].rest[k] \in Reasons
  BY <1>2, <1>3 DEF Batch, Wakes
<1>6. [batch[b].rest EXCEPT ![k] = None] \in Wakes
  BY <1>5 DEF Wakes
<1>7. now \in Time
  BY DEF Base, TypeOK
<1> HIDE DEF left, agents
<1>8. /\ x \in Batch /\ x.by = batch[b].by /\ x.at = "visiting" /\ x.key = k /\ x.map = None
      /\ x.reason = batch[b].rest[k] /\ x.start = now /\ x.left = left
      /\ x.rest = [batch[b].rest EXCEPT ![k] = None]
  BY <1>1, <1>2, <1>3, <1>4, <1>5, <1>6, <1>7 DEF Batch
<1>9. x.rest[x.key] = None
  BY <1>5, <1>8
<1>10. Shaped(x, runner[x.by].agents)
  BY <1>4, <1>5, <1>8, <1>9 DEF Shaped, agents
<1>11. batch' = [batch EXCEPT ![b] = x]
  BY <1>1, <1>2 DEF BeginRun, left, agents
<1>12. UNCHANGED <<now, enabled, wake, runner, events, owed, interrupted, slot, unsaved>>
  BY DEF BeginRun, history
<1>13. RunnersKept
  BY <1>12, KeptWhenUnchanged DEF Base
<1>14. /\ wake' \in WakeLayer /\ wake'.handler = wake.handler
       /\ owed' \in Wakes /\ slot' \in [Agents -> Time \cup {None}] /\ unsaved' \in SUBSET Agents
  BY <1>12 DEF Base, TypeOK
<1>15. /\ Base' /\ UnderWay' = UnderWay /\ batch'[b] = x
       /\ \A c \in Batches \ {b} : batch'[c] = batch[c]
  BY <1>8, <1>10, <1>11, <1>12, <1>13, <1>14, BatchStepBase
<1>16. ASSUME NEW j \in Targets PROVE HeldBy(b, j)' = HeldBy(b, j)
  <2>1. batch[b].key # j
    BY <1>3, NoReasonAssumption
  <2>2. HeldBy(b, j)' = IF x.key = j THEN x.reason ELSE x.rest[j]
    BY <1>15 DEF HeldBy
  <2> QED BY <1>5, <1>8, <2>1, <2>2 DEF HeldBy
<1> QED BY <1>3, <1>4, <1>8, <1>15, <1>16 DEF agents

LEMMA ExecuteEffect ==
    ASSUME Base, NEW b \in UnderWay, NEW a \in Agents, Execute(b, a)
    PROVE  /\ Base'
           /\ UnderWay' = UnderWay /\ \A c \in Batches \ {b} : batch'[c] = batch[c]
           /\ batch'[b].by = batch[b].by /\ batch'[b].at = "executing" /\ batch'[b].agent = a
           /\ batch'[b].start = batch[b].start /\ batch'[b].map = batch[b].map
           /\ batch'[b].left = batch[b].left
           /\ \A j \in Targets : HeldBy(b, j)' = HeldBy(b, j)
<1>1. PICK x : x = [batch[b] EXCEPT !.at = "executing", !.agent = a]
  OBVIOUS
<1>2. /\ b \in Batches /\ batch[b] \in Batch /\ batch[b].by \in Runners
      /\ Shaped(batch[b], runner[batch[b].by].agents)
  BY RunOf
<1>3. batch[b].at = "visiting" /\ a \in batch[b].left
  BY DEF Execute
<1>4. /\ x \in Batch /\ x.by = batch[b].by /\ x.at = "executing" /\ x.agent = a
      /\ x.key = batch[b].key /\ x.reason = batch[b].reason /\ x.rest = batch[b].rest
      /\ x.start = batch[b].start /\ x.map = batch[b].map /\ x.left = batch[b].left
  BY <1>1, <1>2 DEF Batch
<1>5. Shaped(x, runner[x.by].agents)
  BY <1>2, <1>3, <1>4 DEF Shaped
<1>6. batch' = [batch EXCEPT ![b] = x]
  BY <1>1, <1>2 DEF Execute
<1>7. UNCHANGED <<now, enabled, wake, runner, events, owed, interrupted, unsaved>>
  BY DEF Execute
<1>8. RunnersKept
  BY <1>7, KeptWhenUnchanged DEF Base
<1>9. batch[b].start \in Time
  BY <1>2 DEF Batch
<1>10. /\ wake' \in WakeLayer /\ wake'.handler = wake.handler
       /\ owed' \in Wakes /\ slot' \in [Agents -> Time \cup {None}] /\ unsaved' \in SUBSET Agents
  BY <1>7, <1>9 DEF Base, TypeOK, Execute
<1>11. /\ Base' /\ UnderWay' = UnderWay /\ batch'[b] = x
       /\ \A c \in Batches \ {b} : batch'[c] = batch[c]
  BY <1>4, <1>5, <1>6, <1>7, <1>8, <1>10, BatchStepBase
<1> QED BY <1>4, <1>11 DEF HeldBy

LEMMA DisabledEffect ==
    ASSUME Base, NEW b \in UnderWay, NEW a \in Agents, Disabled(b, a)
    PROVE  /\ Base'
           /\ UnderWay' = UnderWay /\ \A c \in Batches \ {b} : batch'[c] = batch[c]
           /\ batch[b].at = "visiting"
           /\ batch'[b].by = batch[b].by /\ batch'[b].at = "visiting"
           /\ batch'[b].start = batch[b].start /\ batch'[b].map = batch[b].map
           /\ batch'[b].left \subseteq batch[b].left
           /\ \A j \in Targets : HeldBy(b, j)' = HeldBy(b, j)
<1>1. PICK x : x = [batch[b] EXCEPT !.left = @ \ {a}]
  OBVIOUS
<1>2. /\ b \in Batches /\ batch[b] \in Batch /\ batch[b].by \in Runners
      /\ Shaped(batch[b], runner[batch[b].by].agents)
  BY RunOf
<1>3. batch[b].at = "visiting"
  BY DEF Disabled
<1>4. /\ x \in Batch /\ x.by = batch[b].by /\ x.at = batch[b].at
      /\ x.key = batch[b].key /\ x.reason = batch[b].reason /\ x.rest = batch[b].rest
      /\ x.start = batch[b].start /\ x.map = batch[b].map /\ x.left \subseteq batch[b].left
  BY <1>1, <1>2 DEF Batch
<1>5. Shaped(x, runner[x.by].agents)
  BY <1>2, <1>3, <1>4 DEF Shaped
<1>6. batch' = [batch EXCEPT ![b] = x]
  BY <1>1, <1>2 DEF Disabled
<1>7. UNCHANGED <<now, enabled, wake, runner, events, owed, interrupted, slot, unsaved>>
  BY DEF Disabled, history
<1>8. RunnersKept
  BY <1>7, KeptWhenUnchanged DEF Base
<1>9. /\ wake' \in WakeLayer /\ wake'.handler = wake.handler
      /\ owed' \in Wakes /\ slot' \in [Agents -> Time \cup {None}] /\ unsaved' \in SUBSET Agents
  BY <1>7 DEF Base, TypeOK
<1>10. /\ Base' /\ UnderWay' = UnderWay /\ batch'[b] = x
       /\ \A c \in Batches \ {b} : batch'[c] = batch[c]
  BY <1>4, <1>5, <1>6, <1>7, <1>8, <1>9, BatchStepBase
<1> QED BY <1>3, <1>4, <1>10 DEF HeldBy

LEMMA ExecuteEndsEffect ==
    ASSUME Base, NEW b \in UnderWay, ExecuteEnds(b)
    PROVE  LET a == batch[b].agent IN
           /\ Base' /\ RunnersKept
           /\ UnderWay' = UnderWay /\ \A c \in Batches \ {b} : batch'[c] = batch[c]
           /\ batch[b].at = "executing" /\ a \in batch[b].left /\ a \in Agents
           /\ batch'[b].by = batch[b].by /\ batch'[b].at = "visiting"
           /\ batch'[b].start = batch[b].start /\ batch'[b].left = batch[b].left \ {a}
           /\ \A j \in Targets : HeldBy(b, j)' = HeldBy(b, j)
           /\ \A q \in Runners : runner'[q].timer = runner[q].timer
           /\ \A q \in Runners \ {batch[b].by} : runner'[q] = runner[q]
           /\ \/ /\ batch[b].map = None /\ batch'[b].map = None /\ unsaved' = unsaved \ {a}
                 /\ a \in Scheduled(runner[batch[b].by].agents)
                 /\ runner'[batch[b].by].agents
                       = Advance(runner[batch[b].by].agents, a, batch[b].start)
              \/ /\ batch[b].map # None /\ unsaved' = unsaved \cup {a}
                 /\ UNCHANGED runner
                 /\ batch[b].map \in Schedules /\ a \in Scheduled(batch[b].map)
                 /\ batch'[b].map = Advance(batch[b].map, a, batch[b].start)
<1> DEFINE a == batch[b].agent
           r == batch[b].by
           start == batch[b].start
<1>1. /\ b \in Batches /\ batch[b] \in Batch /\ r \in Runners
      /\ RunnerOK(runner[r]) /\ runner[r].agents \in Schedules
      /\ Shaped(batch[b], runner[r].agents)
  BY RunOf
<1>2. /\ batch[b].at = "executing" /\ a \in batch[b].left /\ a \in Agents
      /\ start \in Time /\ batch[b].map \in Schedules \cup {None}
  BY <1>1 DEF ExecuteEnds, Shaped, Batch
<1>3. a \in Scheduled(IF batch[b].map # None THEN batch[b].map ELSE runner[r].agents)
  BY <1>1, <1>2 DEF Shaped
<1>4. PICK m : m = IF batch[b].map = None THEN None ELSE Advance(batch[b].map, a, start)
  OBVIOUS
<1>5. /\ m \in Schedules \cup {None} /\ (m = None <=> batch[b].map = None)
      /\ m # None => Scheduled(m) = Scheduled(batch[b].map)
  <2>1. CASE batch[b].map = None
    BY <1>4, <2>1
  <2>2. CASE batch[b].map # None
    <3>1. batch[b].map \in Schedules /\ batch[b].map[a] # None
      BY <1>2, <1>3, <2>2 DEF Scheduled
    <3>2. m = Advance(batch[b].map, a, start)
      BY <1>4, <2>2
    <3>3. m \in Schedules /\ Scheduled(m) = Scheduled(batch[b].map)
      BY <1>2, <3>1, <3>2, AdvanceType
    <3> QED BY <2>2, <3>3, NoneAssumption
  <2> QED BY <2>1, <2>2
<1>6. PICK x : x = [batch[b] EXCEPT !.at = "visiting", !.agent = None, !.left = @ \ {a},
                                    !.map = m]
  OBVIOUS
<1>7. /\ x \in Batch /\ x.by = r /\ x.at = "visiting" /\ x.left = batch[b].left \ {a}
      /\ x.key = batch[b].key /\ x.reason = batch[b].reason /\ x.rest = batch[b].rest
      /\ x.start = start /\ x.map = m
  BY <1>1, <1>5, <1>6 DEF Batch
<1>8. Shaped(x, runner[x.by].agents)
  BY <1>1, <1>2, <1>5, <1>7 DEF Shaped
<1>9. batch' = [batch EXCEPT ![b] = x]
  BY <1>1, <1>4, <1>6 DEF ExecuteEnds
<1>10. UNCHANGED <<now, enabled, wake, events, owed, interrupted, slot>>
  BY DEF ExecuteEnds
<1>11. /\ RunnersKept
       /\ \A q \in Runners : runner'[q].timer = runner[q].timer
       /\ \A q \in Runners \ {r} : runner'[q] = runner[q]
       /\ \/ /\ batch[b].map = None /\ unsaved' = unsaved \ {a}
             /\ a \in Scheduled(runner[r].agents)
             /\ runner'[r].agents = Advance(runner[r].agents, a, start)
          \/ /\ batch[b].map # None /\ unsaved' = unsaved \cup {a}
             /\ UNCHANGED runner
             /\ batch[b].map \in Schedules /\ a \in Scheduled(batch[b].map)
  <2>1. CASE batch[b].map = None
    <3>1. PICK s : s = [runner[r] EXCEPT !.agents = Advance(@, a, start)]
      OBVIOUS
    <3>2. a \in Scheduled(runner[r].agents)
      BY <1>3, <2>1
    <3>3. /\ RunnerOK(s) /\ s.at = runner[r].at /\ s.timer = runner[r].timer
          /\ s.agents = Advance(runner[r].agents, a, start)
          /\ Scheduled(s.agents) = Scheduled(runner[r].agents)
      BY <1>1, <1>2, <3>1, <3>2, AdvancedOK
    <3>4. runner' = [runner EXCEPT ![r].agents = Advance(@, a, start)] /\ unsaved' = unsaved \ {a}
      BY <2>1 DEF ExecuteEnds, Noted
    <3>5. runner' = [runner EXCEPT ![r] = s]
      BY <3>1, <3>4
    <3>6. /\ RunnersKept /\ runner'[r] = s
          /\ \A q \in Runners \ {r} : runner'[q] = runner[q]
      BY <1>1, <3>3, <3>5, KeptWhenUpdated DEF Base
    <3> QED BY <2>1, <3>2, <3>3, <3>4, <3>6
  <2>2. CASE batch[b].map # None
    <3>1. UNCHANGED runner /\ unsaved' = unsaved \cup {a}
      BY <2>2 DEF ExecuteEnds, Noted
    <3>2. RunnersKept
      BY <3>1, KeptWhenUnchanged DEF Base
    <3>3. batch[b].map \in Schedules /\ a \in Scheduled(batch[b].map)
      BY <1>2, <1>3, <2>2
    <3> QED BY <2>2, <3>1, <3>2, <3>3
  <2> QED BY <2>1, <2>2
<1>12. unsaved' \in SUBSET Agents
  BY <1>2, <1>11 DEF Base, TypeOK
<1>13. /\ wake' \in WakeLayer /\ wake'.handler = wake.handler
       /\ owed' \in Wakes /\ slot' \in [Agents -> Time \cup {None}]
  BY <1>10 DEF Base, TypeOK
<1>14. /\ Base' /\ UnderWay' = UnderWay /\ batch'[b] = x
       /\ \A c \in Batches \ {b} : batch'[c] = batch[c]
  BY <1>7, <1>8, <1>9, <1>10, <1>11, <1>12, <1>13, BatchStepBase
<1>15. \A j \in Targets : HeldBy(b, j)' = HeldBy(b, j)
  BY <1>7, <1>14 DEF HeldBy
<1> QED BY <1>2, <1>4, <1>5, <1>7, <1>11, <1>14, <1>15

\* The answer to a wake leaves the batch between two calls.
LEMMA AnsweredShape ==
    ASSUME Base, NEW b \in UnderWay, Answered(b)
    PROVE  \E x \in Batch :
              /\ batch' = [batch EXCEPT ![b] = x] /\ x.by = batch[b].by
              /\ x.at = "idle" /\ x.key = None /\ x.rest = batch[b].rest
              /\ \A agents : Shaped(x, agents)
<1>1. b \in Batches /\ batch[b] \in Batch
  BY RunOf
<1>2. /\ batch[b].by \in Runners /\ batch[b].delay \in {0, Coalesce, Retry}
      /\ batch[b].rest \in Wakes
  BY <1>1 DEF Batch
<1>3. PICK x : x = Between(batch[b].by, batch[b].delay, batch[b].rest)
  OBVIOUS
<1>4. /\ x \in Batch /\ x.by = batch[b].by /\ x.at = "idle" /\ x.key = None
      /\ x.rest = batch[b].rest /\ \A agents : Shaped(x, agents)
  BY <1>2, <1>3, BetweenType
<1>5. batch' = [batch EXCEPT ![b] = x]
  BY <1>1, <1>3 DEF Answered
<1> QED BY <1>4, <1>5

\* The wake of a run that found the lane busy goes back to what is pending.
LEMMA RetriedEffect ==
    ASSUME TypeOK, NEW k \in Targets, NEW reason \in Reasons,
           wake' = Retried(wake, now, k, reason)
    PROVE  /\ wake' \in WakeLayer /\ wake'.timer # None
           /\ wake'.handler = wake.handler /\ wake'.running = wake.running
           /\ \A j \in Targets : AtLeast(wake'.pending[j], wake.pending[j])
           /\ AtLeast(wake'.pending[k], reason) /\ wake'.pending[k] # None
<1>1. wake \in WakeLayer /\ now \in Time
  BY DEF TypeOK
<1>2. wake' = Schedule(QueuePendingWakeReason(wake, k, reason), now, Retry, "retry")
  BY DEF Retried
<1>3. /\ wake' \in WakeLayer /\ wake'.timer # None
      /\ wake'.handler = wake.handler /\ wake'.running = wake.running
      /\ wake'.pending = [wake.pending EXCEPT ![k] = Higher(@, reason)]
      /\ \A j \in Targets : AtLeast(wake'.pending[j], wake.pending[j])
      /\ AtLeast(wake'.pending[k], reason) /\ wake'.pending[k] # None
  BY <1>1, <1>2, AskedFor
<1> QED BY <1>3

LEMMA LaneBusyEffect ==
    ASSUME Base, NEW b \in UnderWay, NEW a \in Agents, LaneBusy(b, a)
    PROVE  LET r == batch[b].by
               k == batch[b].key
           IN
           /\ Base' /\ RunnersKept
           /\ UnderWay' = UnderWay /\ \A c \in Batches \ {b} : batch'[c] = batch[c]
           /\ batch[b].at = "visiting" /\ k \in Targets /\ batch[b].reason \in Reasons
           /\ batch'[b].by = r /\ batch'[b].at = "idle" /\ batch'[b].key = None
           /\ batch'[b].rest = batch[b].rest
           /\ wake'.timer # None /\ wake'.handler = wake.handler
           /\ wake'.running = wake.running
           /\ \A j \in Targets : AtLeast(wake'.pending[j], wake.pending[j])
           /\ AtLeast(wake'.pending[k], batch[b].reason) /\ wake'.pending[k] # None
           /\ \A q \in Runners \ {r} : runner'[q] = runner[q]
           /\ k = All => UNCHANGED runner
           /\ runner[r].at = "live" /\ k # All =>
                 (runner'[r].timer # None <=> runner'[r].agents # NoAgents)
           /\ \/ runner'[r].agents = runner[r].agents
              \/ /\ batch[b].map = None /\ a \in Scheduled(runner[r].agents)
                 /\ runner'[r].agents = Advance(runner[r].agents, a, batch[b].start)
<1> DEFINE r == batch[b].by
           k == batch[b].key
           start == batch[b].start
<1>1. /\ b \in Batches /\ batch[b] \in Batch /\ r \in Runners
      /\ runner[r].at # "new" /\ RunnerOK(runner[r]) /\ runner[r].agents \in Schedules
      /\ Shaped(batch[b], runner[r].agents)
  BY RunOf
<1>2. /\ batch[b].at = "visiting" /\ a \in batch[b].left /\ k \in Targets
      /\ batch[b].reason \in Reasons /\ start \in Time
  BY <1>1 DEF LaneBusy, Shaped, Batch
<1>3. batch[b].map = None => a \in Scheduled(runner[r].agents)
  BY <1>1, <1>2 DEF Shaped
<1>4. /\ wake' \in WakeLayer /\ wake'.timer # None
      /\ wake'.handler = wake.handler /\ wake'.running = wake.running
      /\ \A j \in Targets : AtLeast(wake'.pending[j], wake.pending[j])
      /\ AtLeast(wake'.pending[k], batch[b].reason) /\ wake'.pending[k] # None
  <2>1. PICK key \in Targets, reason \in Reasons : key = k /\ reason = batch[b].reason
    BY <1>2
  <2>2. wake' = Retried(wake, now, key, reason)
    BY <2>1 DEF LaneBusy, BusyAnswer
  <2>3. TypeOK
    BY DEF Base
  <2> QED BY <2>1, <2>2, <2>3, RetriedEffect
<1>5. PICK s : s = IF batch[b].map # None THEN runner[r]
                   ELSE [runner[r] EXCEPT !.agents = Advance(@, a, start)]
  OBVIOUS
<1>6. /\ RunnerOK(s) /\ s.at = runner[r].at
      /\ Scheduled(s.agents) = Scheduled(runner[r].agents)
      /\ \/ s.agents = runner[r].agents
         \/ /\ batch[b].map = None /\ a \in Scheduled(runner[r].agents)
            /\ s.agents = Advance(runner[r].agents, a, start)
  <2>1. CASE batch[b].map # None
    BY <1>1, <1>5, <2>1
  <2>2. CASE batch[b].map = None
    <3>1. s = [runner[r] EXCEPT !.agents = Advance(@, a, start)]
      BY <1>5, <2>2
    <3>2. a \in Scheduled(runner[r].agents)
      BY <1>3, <2>2
    <3> QED BY <1>1, <1>2, <2>2, <3>1, <3>2, AdvancedOK
  <2> QED BY <2>1, <2>2
<1>7. PICK n : n = ScheduleNext(s)
  OBVIOUS
<1>8. /\ RunnerOK(n) /\ n.at = runner[r].at /\ n.agents = s.agents
      /\ n.at = "live" => (n.timer # None <=> n.agents # NoAgents)
  BY <1>1, <1>6, <1>7, RearmedOK
<1>9. /\ RunnersKept
      /\ \A q \in Runners \ {r} : runner'[q] = runner[q]
      /\ k = All => UNCHANGED runner
      /\ k # All => runner'[r] = n
  <2>1. CASE k = All
    <3>1. UNCHANGED runner
      BY <2>1 DEF LaneBusy
    <3> QED BY <2>1, <3>1, KeptWhenUnchanged DEF Base
  <2>2. CASE k # All
    <3>1. runner' = [runner EXCEPT ![r] = ScheduleNext(s)]
      BY <1>5, <2>2 DEF LaneBusy
    <3>2. runner' = [runner EXCEPT ![r] = n]
      BY <1>7, <3>1
    <3>3. Scheduled(n.agents) = Scheduled(runner[r].agents)
      BY <1>6, <1>8
    <3>4. /\ RunnersKept /\ runner'[r] = n
          /\ \A q \in Runners \ {r} : runner'[q] = runner[q]
      BY <1>1, <1>8, <3>2, <3>3, KeptWhenUpdated DEF Base
    <3> QED BY <2>2, <3>4
  <2> QED BY <2>1, <2>2
<1>10. PICK x \in Batch : /\ batch' = [batch EXCEPT ![b] = x] /\ x.by = r
                          /\ x.at = "idle" /\ x.key = None /\ x.rest = batch[b].rest
                          /\ \A agents : Shaped(x, agents)
  BY AnsweredShape DEF LaneBusy
<1>11. UNCHANGED <<now, enabled, events, owed, interrupted, slot, unsaved>>
  BY DEF LaneBusy, history
<1>12. /\ owed' \in Wakes /\ slot' \in [Agents -> Time \cup {None}]
       /\ unsaved' \in SUBSET Agents
  BY <1>11 DEF Base, TypeOK
<1>13. /\ Base' /\ UnderWay' = UnderWay /\ batch'[b] = x
       /\ \A c \in Batches \ {b} : batch'[c] = batch[c]
  BY <1>4, <1>9, <1>10, <1>11, <1>12, BatchStepBase
<1>14. /\ runner[r].at = "live" /\ k # All =>
             (runner'[r].timer # None <=> runner'[r].agents # NoAgents)
       /\ \/ runner'[r].agents = runner[r].agents
          \/ /\ batch[b].map = None /\ a \in Scheduled(runner[r].agents)
             /\ runner'[r].agents = Advance(runner[r].agents, a, start)
  BY <1>6, <1>8, <1>9
<1> QED BY <1>2, <1>4, <1>9, <1>10, <1>13, <1>14

LEMMA EndRunEffect ==
    ASSUME Base, NEW b \in UnderWay, EndRun(b)
    PROVE  LET r == batch[b].by
               k == batch[b].key
           IN
           /\ Base' /\ RunnersKept
           /\ UnderWay' = UnderWay /\ \A c \in Batches \ {b} : batch'[c] = batch[c]
           /\ batch[b].at = "visiting" /\ k \in Targets
           /\ batch'[b].by = r /\ batch'[b].at = "idle" /\ batch'[b].key = None
           /\ batch'[b].rest = batch[b].rest
           /\ owed' = [owed EXCEPT ![k] = wake.pending[k]]
           /\ \A q \in Runners : runner'[q].agents = runner[q].agents
           /\ \A q \in Runners \ {r} : runner'[q] = runner[q]
           /\ runner[r].at = "live" => (runner'[r].timer # None <=> runner'[r].agents # NoAgents)
<1> DEFINE r == batch[b].by
           k == batch[b].key
<1>1. /\ b \in Batches /\ batch[b] \in Batch /\ r \in Runners
      /\ runner[r].at # "new" /\ RunnerOK(runner[r])
      /\ Shaped(batch[b], runner[r].agents)
  BY RunOf
<1>2. batch[b].at = "visiting" /\ k \in Targets
  BY <1>1 DEF EndRun, Shaped
<1>3. PICK n : n = ScheduleNext(runner[r])
  OBVIOUS
<1>4. /\ RunnerOK(n) /\ n.at = runner[r].at /\ n.agents = runner[r].agents
      /\ n.at = "live" => (n.timer # None <=> n.agents # NoAgents)
  BY <1>1, <1>3, RearmedOK
<1>5. runner' = [runner EXCEPT ![r] = n]
  BY <1>3 DEF EndRun, Rearmed
<1>6. /\ RunnersKept /\ runner'[r] = n /\ \A q \in Runners \ {r} : runner'[q] = runner[q]
  BY <1>1, <1>4, <1>5, KeptWhenUpdated DEF Base
<1>7. PICK x \in Batch : /\ batch' = [batch EXCEPT ![b] = x] /\ x.by = r
                         /\ x.at = "idle" /\ x.key = None /\ x.rest = batch[b].rest
                         /\ \A agents : Shaped(x, agents)
  BY AnsweredShape DEF EndRun
<1>8. UNCHANGED <<now, enabled, wake, events, interrupted, slot, unsaved>>
  BY DEF EndRun
<1>9. owed' = [owed EXCEPT ![k] = wake.pending[k]] /\ owed' \in Wakes
  <2>1. wake.pending \in Wakes /\ owed \in Wakes
    BY DEF Base, TypeOK, WakeLayer
  <2> QED BY <1>2, <2>1 DEF EndRun, Settled, Wakes
<1>10. /\ wake' \in WakeLayer /\ wake'.handler = wake.handler
       /\ slot' \in [Agents -> Time \cup {None}] /\ unsaved' \in SUBSET Agents
  BY <1>8 DEF Base, TypeOK
<1>11. /\ Base' /\ UnderWay' = UnderWay /\ batch'[b] = x
       /\ \A c \in Batches \ {b} : batch'[c] = batch[c]
  BY <1>6, <1>7, <1>8, <1>9, <1>10, BatchStepBase
<1>12. \A q \in Runners : runner'[q].agents = runner[q].agents
  BY <1>4, <1>6
<1> QED BY <1>2, <1>4, <1>6, <1>7, <1>9, <1>11, <1>12

LEMMA BatchEndsEffect ==
    ASSUME Base, NEW b \in UnderWay, BatchEnds(b)
    PROVE  /\ Base' /\ UnderWay' = UnderWay \ {b}
           /\ \A c \in Batches \ {b} : batch'[c] = batch[c]
           /\ \A j \in Targets : HeldBy(b, j) = None
           /\ wake'.handler = wake.handler /\ wake'.pending = wake.pending
           /\ wake'.pending # NoWakes => wake'.timer # None
<1>1. /\ b \in Batches /\ batch[b] \in Batch /\ batch[b].delay \in {0, Coalesce, Retry}
      /\ Shaped(batch[b], runner[batch[b].by].agents)
  BY RunOf DEF Batch
<1>2. batch[b].key = None /\ batch[b].rest = NoWakes
  BY <1>1 DEF BatchEnds, Shaped
<1>3. PICK over : over = [wake EXCEPT !.running = FALSE]
  OBVIOUS
<1>4. over \in WakeLayer /\ over.handler = wake.handler /\ over.pending = wake.pending
  BY <1>3 DEF Base, TypeOK, WakeLayer
<1>5. now \in Time
  BY DEF Base, TypeOK
<1>6. PICK delay \in {0, Coalesce, Retry} : delay = batch[b].delay
  BY <1>1
<1>7. PICK v : v = Schedule(over, now, delay, "normal")
  OBVIOUS
<1>8. /\ v \in WakeLayer /\ v.timer # None /\ v.pending = over.pending
      /\ v.handler = over.handler
  BY <1>4, <1>5, <1>7, ScheduleArms
<1>9. wake' = IF wake.pending # NoWakes \/ wake.scheduled THEN v ELSE over
  BY <1>3, <1>6, <1>7 DEF BatchEnds, BatchOver
<1>10. /\ wake' \in WakeLayer /\ wake'.handler = wake.handler /\ wake'.pending = wake.pending
       /\ wake'.pending # NoWakes => wake'.timer # None
  BY <1>4, <1>8, <1>9
<1>11. batch' = [batch EXCEPT ![b] = None]
  BY DEF BatchEnds
<1>12. /\ batch' \in [Batches -> Batch \cup {None}] /\ batch'[b] = None
       /\ \A c \in Batches \ {b} : batch'[c] = batch[c]
  BY <1>1, <1>11 DEF Base, TypeOK
<1>13. UnderWay' = UnderWay \ {b}
  BY <1>12 DEF UnderWay
<1>14. UNCHANGED <<now, enabled, runner, events, owed, interrupted, slot, unsaved>>
  BY DEF BatchEnds, history
<1>15. TypeOK'
  BY <1>10, <1>12, <1>14 DEF Base, TypeOK
<1>16. RunsShaped'
  BY <1>12, <1>13, <1>14, BatchesUnderWay DEF Base, RunsShaped
<1>17. LiveHandles'
  BY <1>10, <1>14 DEF Base, LiveHandles
<1>18. \A j \in Targets : HeldBy(b, j) = None
  BY <1>2, NoReasonAssumption DEF HeldBy, NoWakes
<1> QED BY <1>10, <1>12, <1>13, <1>15, <1>16, <1>17, <1>18 DEF Base

-----------------------------------------------------------------------------
(* Types *)

LEMMA NextBase == ASSUME Base, [Next]_vars PROVE Base'
<1>1. CASE ClockTicks
  BY <1>1, ClockTicksBase
<1>2. CASE SetHeartbeatsEnabled
  BY <1>2, SetHeartbeatsEnabledBase
<1>3. CASE WakeTimerFires
  BY <1>3, WakeTimerFiresBase
<1>4. CASE \E k \in Targets, reason \in Asked : Request(k, reason)
  BY <1>4, RequestBase
<1>5. CASE \E r \in Runners : IntervalTimerFires(r) \/ StopRunner(r)
  BY <1>5, IntervalTimerFiresBase, StopRunnerBase
<1>6. CASE \E r \in Runners, config \in Configs : StartRunner(r, config) \/ UpdateConfig(r, config)
  BY <1>6, StartRunnerBase, UpdateConfigBase
<1>7. ASSUME NEW b \in UnderWay, NEW k \in Targets, TurnedDown(b, k) \/ BeginRun(b, k)
      PROVE  Base'
  BY <1>7, TurnedDownEffect, BeginRunEffect
<1>8. ASSUME NEW b \in UnderWay, NEW a \in Agents, Execute(b, a) \/ Disabled(b, a) \/ LaneBusy(b, a)
      PROVE  Base'
  BY <1>8, ExecuteEffect, DisabledEffect, LaneBusyEffect
<1>9. ASSUME NEW b \in UnderWay, ExecuteEnds(b) \/ EndRun(b) \/ BatchEnds(b)
      PROVE  Base'
  BY <1>9, ExecuteEndsEffect, EndRunEffect, BatchEndsEffect
<1>10. CASE UNCHANGED vars
  BY <1>10, StutterBase
<1> QED BY <1>1, <1>2, <1>3, <1>4, <1>5, <1>6, <1>7, <1>8, <1>9, <1>10 DEF Next

LEMMA BaseCorrect == Spec => []Base
<1>1. Base /\ [Next]_vars => Base'
  BY NextBase
<1> QED BY InitBase, <1>1, PTL DEF Spec

\* The variables have their types in every reachable state: above all, the interval timer is
\* always set to a due time that scheduleNext found, and only a live runner with agents has
\* one; a run never goes over an agent that its schedule does not know.
THEOREM TypeCorrect == Spec => []TypeOK
<1>1. Base => TypeOK
  BY DEF Base
<1> QED BY BaseCorrect, <1>1, PTL

-----------------------------------------------------------------------------
(* No wake is lost *)

\* The two parts of NoWakeLost: what is owed is pending or held, and what is pending is
\* not forgotten.
OwedIsKept ==
    \A k \in Targets : owed[k] # None =>
        \/ AtLeast(wake.pending[k], owed[k])
        \/ \E b \in UnderWay : AtLeast(HeldBy(b, k), owed[k])
PendingIsArmed ==
    wake.pending # NoWakes /\ wake.handler # None => wake.timer # None \/ UnderWay # {}

\* A step that neither settles nor takes anything.
LEMMA OwedStaysKept ==
    ASSUME OwedIsKept, UNCHANGED <<owed, wake>>, UnderWay' = UnderWay,
           \A b \in UnderWay, k \in Targets : HeldBy(b, k)' = HeldBy(b, k)
    PROVE  OwedIsKept'
BY DEF OwedIsKept

\* A step that changes one batch, and not what it holds.
LEMMA HeldByOthers ==
    ASSUME Base, NEW b \in UnderWay, \A c \in Batches \ {b} : batch'[c] = batch[c]
    PROVE  \A c \in UnderWay \ {b}, k \in Targets : HeldBy(c, k)' = HeldBy(c, k)
BY BatchesUnderWay DEF HeldBy, Base

LEMMA HeldIsReason ==
    ASSUME Base, NEW b \in UnderWay, NEW k \in Targets
    PROVE  HeldBy(b, k) \in Reasons \cup {None}
BY BatchesUnderWay DEF HeldBy, Base, Batch, Wakes

\* What a request adds is pending; what was owed remains so.
LEMMA AskedIsKept ==
    ASSUME Base, OwedIsKept, UNCHANGED batch, NEW k \in Targets, NEW reason \in Reasons,
           owed' = [owed EXCEPT ![k] = Higher(@, reason)],
           wake' \in WakeLayer,
           \A j \in Targets : AtLeast(wake'.pending[j], wake.pending[j]),
           AtLeast(wake'.pending[k], reason)
    PROVE  OwedIsKept'
<1>1. owed \in [Targets -> Reasons \cup {None}] /\ wake.pending \in [Targets -> Reasons \cup {None}]
      /\ wake'.pending \in [Targets -> Reasons \cup {None}]
  BY DEF Base, TypeOK, WakeLayer, Wakes
<1>2. UnderWay' = UnderWay /\ \A b \in UnderWay, j \in Targets : HeldBy(b, j)' = HeldBy(b, j)
  BY DEF UnderWay, HeldBy
<1>3. ASSUME NEW j \in Targets, owed'[j] # None
      PROVE  AtLeast(wake'.pending[j], owed'[j]) \/ \E b \in UnderWay : AtLeast(HeldBy(b, j), owed'[j])
  <2>1. CASE j # k
    <3>1. owed'[j] = owed[j]
      BY <1>1, <2>1
    <3>2. CASE AtLeast(wake.pending[j], owed[j])
      BY <1>1, <3>1, <3>2, AtLeastTransitive
    <3> QED BY <1>3, <3>1, <3>2 DEF OwedIsKept
  <2>2. CASE j = k
    <3>1. owed'[j] = Higher(owed[k], reason)
      BY <1>1, <2>2
    <3>2. CASE AtLeast(reason, owed[k])
      BY <2>2, <3>1, <3>2 DEF Higher
    <3>3. CASE ~ AtLeast(reason, owed[k])
      <4>1. owed'[k] = owed[k] /\ owed[k] # None
        BY <2>2, <3>1, <3>3 DEF Higher, AtLeast
      <4>2. CASE AtLeast(wake.pending[k], owed[k])
        BY <1>1, <2>2, <4>1, <4>2, AtLeastTransitive
      <4> QED BY <2>2, <4>1, <4>2 DEF OwedIsKept
    <3> QED BY <3>2, <3>3
  <2> QED BY <2>1, <2>2
<1> QED BY <1>2, <1>3 DEF OwedIsKept

\* A settled wake is owed as far as it is pending again.
LEMMA SettledIsKept ==
    ASSUME Base, OwedIsKept, NEW b \in UnderWay, NEW k \in Targets, UnderWay' = UnderWay,
           \A c \in Batches \ {b} : batch'[c] = batch[c], UNCHANGED wake,
           owed' = [owed EXCEPT ![k] = wake.pending[k]],
           \A j \in Targets \ {k} : HeldBy(b, j)' = HeldBy(b, j)
    PROVE  OwedIsKept'
<1>1. owed \in [Targets -> Reasons \cup {None}] /\ wake.pending \in [Targets -> Reasons \cup {None}]
  BY DEF Base, TypeOK, WakeLayer, Wakes
<1>2. \A c \in UnderWay, j \in Targets \ {k} : HeldBy(c, j)' = HeldBy(c, j)
  BY HeldByOthers
<1>3. owed'[k] = wake'.pending[k] /\ AtLeast(wake'.pending[k], owed'[k])
  BY <1>1, AtLeastReflexive
<1>4. \A j \in Targets \ {k} : owed'[j] = owed[j] /\ wake'.pending[j] = wake.pending[j]
  BY <1>1
<1> QED BY <1>2, <1>3, <1>4 DEF OwedIsKept

LEMMA WakeTimerFiresKeeps == ASSUME Base, OwedIsKept, WakeTimerFires PROVE OwedIsKept'
<1>1. UNCHANGED owed
  BY DEF WakeTimerFires, history
<1>2. CASE UNCHANGED batch /\ wake'.pending = wake.pending
  BY <1>1, <1>2 DEF OwedIsKept, UnderWay, HeldBy
<1>3. ASSUME NEW b \in Batches \ UnderWay, NEW x \in Batch, batch' = [batch EXCEPT ![b] = x],
             x.key = None, x.rest = wake.pending
      PROVE  OwedIsKept'
  <2>1. /\ UnderWay' = UnderWay \cup {b} /\ batch'[b] = x
        /\ \A c \in Batches \ {b} : batch'[c] = batch[c]
    BY <1>3, BatchUpdated DEF Base
  <2>2. \A c \in UnderWay, j \in Targets : HeldBy(c, j)' = HeldBy(c, j)
    BY <1>3, <2>1, BatchesUnderWay DEF HeldBy, Base
  <2>3. \A j \in Targets : HeldBy(b, j)' = wake.pending[j]
    BY <1>3, <2>1, NoReasonAssumption DEF HeldBy
  <2>4. ASSUME NEW j \in Targets, owed'[j] # None
        PROVE  \E c \in UnderWay' : AtLeast(HeldBy(c, j)', owed'[j])
    BY <1>1, <2>1, <2>2, <2>3, <2>4 DEF OwedIsKept
  <2> QED BY <2>4 DEF OwedIsKept
<1> QED BY <1>2, <1>3, WakeTimerFiresEffect DEF Base

LEMMA TurnedDownKeeps ==
    ASSUME Base, OwedIsKept, NEW b \in UnderWay, NEW k \in Targets, TurnedDown(b, k)
    PROVE  OwedIsKept'
<1>1. /\ UnderWay' = UnderWay /\ \A c \in Batches \ {b} : batch'[c] = batch[c]
      /\ batch[b].key = None /\ batch'[b].key = None
      /\ batch'[b].rest = [batch[b].rest EXCEPT ![k] = None]
      /\ owed' = [owed EXCEPT ![k] = wake.pending[k]]
  BY TurnedDownEffect
<1>2. batch[b].rest \in [Targets -> Reasons \cup {None}]
  BY BatchesUnderWay DEF Base, Batch, Wakes
<1>3. \A j \in Targets \ {k} : HeldBy(b, j)' = HeldBy(b, j)
  BY <1>1, <1>2, NoReasonAssumption DEF HeldBy
<1>4. UNCHANGED wake
  BY DEF TurnedDown
<1> QED BY <1>1, <1>3, <1>4, SettledIsKept

LEMMA EndRunKeeps ==
    ASSUME Base, OwedIsKept, NEW b \in UnderWay, EndRun(b)
    PROVE  OwedIsKept'
<1>1. PICK k \in Targets : k = batch[b].key
  BY EndRunEffect
<1>2. /\ UnderWay' = UnderWay /\ \A c \in Batches \ {b} : batch'[c] = batch[c]
      /\ batch'[b].key = None /\ batch'[b].rest = batch[b].rest
      /\ owed' = [owed EXCEPT ![k] = wake.pending[k]]
  BY <1>1, EndRunEffect
<1>3. \A j \in Targets \ {k} : HeldBy(b, j)' = HeldBy(b, j)
  BY <1>1, <1>2, NoReasonAssumption DEF HeldBy
<1>4. UNCHANGED wake
  BY DEF EndRun
<1> QED BY <1>2, <1>3, <1>4, SettledIsKept

\* The wake of a run that found the lane busy is pending again, with its reason.
LEMMA LaneBusyKeeps ==
    ASSUME Base, OwedIsKept, NEW b \in UnderWay, NEW a \in Agents, LaneBusy(b, a)
    PROVE  OwedIsKept'
<1>1. /\ UnderWay' = UnderWay /\ \A c \in Batches \ {b} : batch'[c] = batch[c]
      /\ batch[b].key \in Targets /\ batch[b].reason \in Reasons
      /\ batch'[b].key = None /\ batch'[b].rest = batch[b].rest
      /\ \A j \in Targets : AtLeast(wake'.pending[j], wake.pending[j])
      /\ AtLeast(wake'.pending[batch[b].key], batch[b].reason)
  BY LaneBusyEffect
<1>2. UNCHANGED owed /\ owed \in [Targets -> Reasons \cup {None}]
        /\ wake.pending \in [Targets -> Reasons \cup {None}]
        /\ wake'.pending \in [Targets -> Reasons \cup {None}]
  <2>1. Base'
    BY LaneBusyEffect
  <2> QED BY <2>1 DEF LaneBusy, history, Base, TypeOK, WakeLayer, Wakes
<1>3. \A c \in UnderWay \ {b}, j \in Targets : HeldBy(c, j)' = HeldBy(c, j)
  BY <1>1, HeldByOthers
<1>4. \A j \in Targets \ {batch[b].key} : HeldBy(b, j)' = HeldBy(b, j)
  BY <1>1, NoReasonAssumption DEF HeldBy
<1>5. ASSUME NEW j \in Targets, owed[j] # None
      PROVE  \/ AtLeast(wake'.pending[j], owed[j])
             \/ \E c \in UnderWay : AtLeast(HeldBy(c, j)', owed[j])
  <2>1. CASE AtLeast(wake.pending[j], owed[j])
    BY <1>1, <1>2, <2>1, AtLeastTransitive
  <2>2. ASSUME NEW c \in UnderWay, AtLeast(HeldBy(c, j), owed[j]),
               c # b \/ j # batch[b].key
        PROVE  AtLeast(HeldBy(c, j)', owed[j])
    BY <1>3, <1>4, <2>2
  <2>3. CASE j = batch[b].key /\ AtLeast(HeldBy(b, j), owed[j])
    <3>1. AtLeast(batch[b].reason, owed[j])
      BY <2>3 DEF HeldBy
    <3> QED BY <1>1, <1>2, <2>3, <3>1, AtLeastTransitive
  <2> QED BY <1>5, <2>1, <2>2, <2>3 DEF OwedIsKept
<1> QED BY <1>1, <1>2, <1>5 DEF OwedIsKept

LEMMA BatchEndsKeeps ==
    ASSUME Base, OwedIsKept, NEW b \in UnderWay, BatchEnds(b)
    PROVE  OwedIsKept'
<1>1. /\ UnderWay' = UnderWay \ {b} /\ \A c \in Batches \ {b} : batch'[c] = batch[c]
      /\ \A j \in Targets : HeldBy(b, j) = None
      /\ wake'.pending = wake.pending
  BY BatchEndsEffect
<1>2. \A c \in UnderWay \ {b}, j \in Targets : HeldBy(c, j)' = HeldBy(c, j)
  BY <1>1, HeldByOthers
<1>3. \A j \in Targets : owed[j] # None => ~ AtLeast(HeldBy(b, j), owed[j])
  BY <1>1 DEF AtLeast
<1>4. UNCHANGED owed
  BY DEF BatchEnds, history
<1> QED BY <1>1, <1>2, <1>3, <1>4 DEF OwedIsKept

LEMMA NextKeepsOwed == ASSUME Base, OwedIsKept, [Next]_vars PROVE OwedIsKept'
<1>1. CASE ClockTicks \/ SetHeartbeatsEnabled \/ UNCHANGED vars
  BY <1>1 DEF ClockTicks, SetHeartbeatsEnabled, vars, history, OwedIsKept, UnderWay, HeldBy
<1>2. CASE WakeTimerFires
  BY <1>2, WakeTimerFiresKeeps
<1>3. ASSUME NEW k \in Targets, NEW reason \in Asked, Request(k, reason) PROVE OwedIsKept'
  <2>1. reason \in Reasons
    BY ReasonsRanked
  <2>2. /\ wake' = RequestHeartbeatNow(wake, now, k, reason, Coalesce)
        /\ owed' = [owed EXCEPT ![k] = Higher(@, reason)] /\ UNCHANGED batch
    BY <1>3 DEF Request
  <2>3. /\ wake' \in WakeLayer
        /\ \A j \in Targets : AtLeast(wake'.pending[j], wake.pending[j])
        /\ AtLeast(wake'.pending[k], reason)
    BY <2>1, <2>2, RequestEffect DEF Base
  <2> QED BY <2>1, <2>2, <2>3, AskedIsKept
<1>4. ASSUME NEW r \in Runners, IntervalTimerFires(r) PROVE OwedIsKept'
  <2>1. "interval" \in Reasons /\ All \in Targets
    BY ReasonsRanked, TargetsAssumption
  <2>2. /\ wake' = RequestHeartbeatNow(wake, now, All, "interval", 0)
        /\ owed' = [owed EXCEPT ![All] = Higher(@, "interval")] /\ UNCHANGED batch
    BY <1>4 DEF IntervalTimerFires
  <2>3. /\ wake' \in WakeLayer
        /\ \A j \in Targets : AtLeast(wake'.pending[j], wake.pending[j])
        /\ AtLeast(wake'.pending[All], "interval")
    BY <2>1, <2>2, RequestEffect DEF Base
  <2> QED BY <2>1, <2>2, <2>3, AskedIsKept
<1>5. ASSUME NEW r \in Runners, StopRunner(r) PROVE OwedIsKept'
  <2>1. wake'.pending = wake.pending
    BY <1>5, StopRunnerEffect
  <2> QED BY <1>5, <2>1 DEF StopRunner, history, OwedIsKept, UnderWay, HeldBy
<1>6. ASSUME NEW r \in Runners, NEW config \in Configs, StartRunner(r, config) PROVE OwedIsKept'
  <2>1. wake'.pending = wake.pending
    BY <1>6, StartRunnerEffect
  <2> QED BY <1>6, <2>1 DEF StartRunner, OwedIsKept, UnderWay, HeldBy
<1>7. ASSUME NEW r \in Runners, NEW config \in Configs, UpdateConfig(r, config) PROVE OwedIsKept'
  <2>1. \A b \in UnderWay : /\ batch'[b].key = batch[b].key /\ batch'[b].rest = batch[b].rest
                            /\ batch'[b].reason = batch[b].reason
    BY <1>7, UpdateConfigEffect
  <2>2. UnderWay' = UnderWay
    BY <1>7, UpdateConfigEffect
  <2>3. \A b \in UnderWay, k \in Targets : HeldBy(b, k)' = HeldBy(b, k)
    BY <2>1 DEF HeldBy
  <2>4. UNCHANGED <<owed, wake>>
    BY <1>7 DEF UpdateConfig, history
  <2> QED BY <2>2, <2>3, <2>4, OwedStaysKept
<1>8. ASSUME NEW b \in UnderWay, NEW k \in Targets, TurnedDown(b, k) PROVE OwedIsKept'
  BY <1>8, TurnedDownKeeps
<1>9. ASSUME NEW b \in UnderWay, UNCHANGED <<owed, wake>>, UnderWay' = UnderWay,
             \A c \in Batches \ {b} : batch'[c] = batch[c],
             \A j \in Targets : HeldBy(b, j)' = HeldBy(b, j)
      PROVE  OwedIsKept'
  <2>1. \A c \in UnderWay, j \in Targets : HeldBy(c, j)' = HeldBy(c, j)
    BY <1>9, HeldByOthers
  <2> QED BY <1>9, <2>1, OwedStaysKept
<1>10. ASSUME NEW b \in UnderWay, NEW k \in Targets, BeginRun(b, k) PROVE OwedIsKept'
  <2>1. UNCHANGED <<owed, wake>>
    BY <1>10 DEF BeginRun, history
  <2> QED BY <1>9, <1>10, <2>1, BeginRunEffect
<1>11. ASSUME NEW b \in UnderWay, NEW a \in Agents, Execute(b, a) PROVE OwedIsKept'
  <2>1. UNCHANGED <<owed, wake>>
    BY <1>11 DEF Execute
  <2> QED BY <1>9, <1>11, <2>1, ExecuteEffect
<1>12. ASSUME NEW b \in UnderWay, NEW a \in Agents, Disabled(b, a) PROVE OwedIsKept'
  <2>1. UNCHANGED <<owed, wake>>
    BY <1>12 DEF Disabled, history
  <2> QED BY <1>9, <1>12, <2>1, DisabledEffect
<1>13. ASSUME NEW b \in UnderWay, ExecuteEnds(b) PROVE OwedIsKept'
  <2>1. UNCHANGED <<owed, wake>>
    BY <1>13 DEF ExecuteEnds
  <2> QED BY <1>9, <1>13, <2>1, ExecuteEndsEffect
<1>14. ASSUME NEW b \in UnderWay, NEW a \in Agents, LaneBusy(b, a) PROVE OwedIsKept'
  BY <1>14, LaneBusyKeeps
<1>15. ASSUME NEW b \in UnderWay, EndRun(b) \/ BatchEnds(b) PROVE OwedIsKept'
  BY <1>15, EndRunKeeps, BatchEndsKeeps
<1> QED BY <1>1, <1>2, <1>3, <1>4, <1>5, <1>6, <1>7, <1>8, <1>10, <1>11, <1>12, <1>13, <1>14,
           <1>15 DEF Next

LEMMA NextArmsPending == ASSUME Base, PendingIsArmed, [Next]_vars PROVE PendingIsArmed'
<1>1. CASE UNCHANGED wake /\ UnderWay' = UnderWay
  BY <1>1 DEF PendingIsArmed
<1>2. CASE ClockTicks \/ SetHeartbeatsEnabled \/ UNCHANGED vars
  BY <1>1, <1>2 DEF ClockTicks, SetHeartbeatsEnabled, vars, UnderWay
<1>3. CASE WakeTimerFires
  BY <1>3, WakeTimerFiresEffect DEF Base, PendingIsArmed
<1>4. ASSUME NEW k \in Targets, NEW reason \in Asked, Request(k, reason) PROVE PendingIsArmed'
  <2>1. wake'.timer # None
    BY <1>4, ReasonsRanked, RequestEffect DEF Request, Base
  <2> QED BY <2>1 DEF PendingIsArmed
<1>5. ASSUME NEW r \in Runners, IntervalTimerFires(r) PROVE PendingIsArmed'
  <2>1. wake'.timer # None
    BY <1>5, ReasonsRanked, TargetsAssumption, RequestEffect DEF IntervalTimerFires, Base
  <2> QED BY <2>1 DEF PendingIsArmed
<1>6. ASSUME NEW r \in Runners, StopRunner(r) PROVE PendingIsArmed'
  BY <1>6, StopRunnerEffect DEF PendingIsArmed
<1>7. ASSUME NEW r \in Runners, NEW config \in Configs, StartRunner(r, config) PROVE PendingIsArmed'
  BY <1>7, StartRunnerEffect DEF PendingIsArmed
<1>8. ASSUME NEW r \in Runners, NEW config \in Configs, UpdateConfig(r, config)
      PROVE  PendingIsArmed'
  <2>1. UnderWay' = UnderWay
    BY <1>8, UpdateConfigEffect
  <2> QED BY <1>1, <1>8, <2>1 DEF UpdateConfig
<1>9. ASSUME NEW b \in UnderWay, NEW k \in Targets, TurnedDown(b, k) \/ BeginRun(b, k)
      PROVE  PendingIsArmed'
  <2>1. UnderWay' = UnderWay
    BY <1>9, TurnedDownEffect, BeginRunEffect
  <2> QED BY <1>1, <1>9, <2>1 DEF TurnedDown, BeginRun
<1>10. ASSUME NEW b \in UnderWay, NEW a \in Agents, Execute(b, a) \/ Disabled(b, a)
       PROVE  PendingIsArmed'
  <2>1. UnderWay' = UnderWay
    BY <1>10, ExecuteEffect, DisabledEffect
  <2> QED BY <1>1, <1>10, <2>1 DEF Execute, Disabled
<1>11. ASSUME NEW b \in UnderWay, NEW a \in Agents, LaneBusy(b, a) PROVE PendingIsArmed'
  BY <1>11, LaneBusyEffect DEF PendingIsArmed
<1>12. ASSUME NEW b \in UnderWay, ExecuteEnds(b) \/ EndRun(b) PROVE PendingIsArmed'
  <2>1. UnderWay' = UnderWay
    BY <1>12, ExecuteEndsEffect, EndRunEffect
  <2> QED BY <1>1, <1>12, <2>1 DEF ExecuteEnds, EndRun
<1>13. ASSUME NEW b \in UnderWay, BatchEnds(b) PROVE PendingIsArmed'
  BY <1>13, BatchEndsEffect DEF PendingIsArmed
<1> QED BY <1>2, <1>3, <1>4, <1>5, <1>6, <1>7, <1>8, <1>9, <1>10, <1>11, <1>12, <1>13 DEF Next

\* A wake that was asked for is pending or held by a batch, with a priority no lower than
\* asked, until a handler has answered it otherwise than with a busy lane, and what is
\* pending has a timer or a batch whose end arms one: over coalescing, the retries of a busy
\* lane, changes of the configuration and of the handler, for any number of agents, runners
\* and batches (queuePendingWakeReason, schedule and setHeartbeatWakeHandler).
THEOREM NoWakeIsLost == Spec => []NoWakeLost
<1>1. Init => OwedIsKept /\ PendingIsArmed
  BY DEF Init, OwedIsKept, PendingIsArmed, NoWakes, Unregistered
<1>2. Base /\ OwedIsKept /\ PendingIsArmed /\ [Next]_vars => OwedIsKept' /\ PendingIsArmed'
  BY NextKeepsOwed, NextArmsPending
<1>3. OwedIsKept /\ PendingIsArmed => NoWakeLost
  BY DEF OwedIsKept, PendingIsArmed, NoWakeLost
<1> QED BY BaseCorrect, <1>1, <1>2, <1>3, PTL DEF Spec

-----------------------------------------------------------------------------
(* Batches of one handler exclude each other *)

\* The batches under way while handler r is registered are r's own, and the wake layer
\* knows, unless r was registered with another's under way.
FlagHolds ==
    \A r \in Runners \ interrupted : wake.handler = r =>
        \A b \in UnderWay : batch[b].by = r /\ wake.running
OneEach ==
    \A r \in Runners \ interrupted : \A b, c \in UnderWay :
        batch[b].by = r /\ batch[c].by = r => b = c
Exclusive == FlagHolds /\ OneEach

\* A step that leaves the handler, the flag and the batches' runners.
LEMMA ExclusiveStays ==
    ASSUME Exclusive, wake'.handler = wake.handler, wake'.running = wake.running,
           UnderWay' = UnderWay, UNCHANGED interrupted,
           \A b \in UnderWay : batch'[b].by = batch[b].by
    PROVE  Exclusive'
<1>1. FlagHolds'
  BY DEF Exclusive, FlagHolds
<1>2. OneEach'
  BY DEF Exclusive, OneEach
<1> QED BY <1>1, <1>2 DEF Exclusive

\* A batch begins only when the flag is clear, so that no batch of the handler, or of
\* anybody if it was registered without one, is under way.
LEMMA WakeTimerFiresExcludes == ASSUME Base, Exclusive, WakeTimerFires PROVE Exclusive'
<1>1. UNCHANGED interrupted /\ wake'.handler = wake.handler
  BY WakeTimerFiresEffect DEF WakeTimerFires, history, Base
<1>2. CASE UNCHANGED batch /\ wake'.running = wake.running
  BY <1>1, <1>2, ExclusiveStays DEF UnderWay
<1>3. ASSUME NEW b \in Batches \ UnderWay, NEW x \in Batch, batch' = [batch EXCEPT ![b] = x],
             x.by = wake.handler, ~ wake.running, wake'.running
      PROVE  Exclusive'
  <2>1. /\ UnderWay' = UnderWay \cup {b} /\ batch'[b] = x
        /\ \A c \in Batches \ {b} : batch'[c] = batch[c]
    BY <1>3, BatchUpdated DEF Base
  <2>2. \A c \in UnderWay : c \in Batches /\ c # b /\ batch'[c] = batch[c]
    BY <1>3, <2>1, BatchesUnderWay DEF Base
  <2>3. \A r \in Runners \ interrupted : wake.handler = r => UnderWay = {}
    BY <1>3 DEF Exclusive, FlagHolds
  <2>4. FlagHolds'
    BY <1>1, <1>3, <2>1, <2>3 DEF FlagHolds
  <2>5. OneEach'
    BY <1>1, <1>3, <2>1, <2>2, <2>3 DEF Exclusive, OneEach
  <2> QED BY <2>4, <2>5 DEF Exclusive
<1> QED BY <1>2, <1>3, WakeTimerFiresEffect DEF Base

LEMMA StartRunnerExcludes ==
    ASSUME Base, Exclusive, NEW r \in Runners, NEW config \in Configs, StartRunner(r, config)
    PROVE  Exclusive'
<1>1. wake'.handler = r
  BY StartRunnerEffect
<1>2. interrupted' = IF UnderWay = {} THEN interrupted ELSE interrupted \cup {r}
  BY DEF StartRunner
<1>3. UnderWay' = UnderWay /\ batch' = batch
  BY DEF StartRunner, UnderWay
<1>4. FlagHolds'
  BY <1>1, <1>2, <1>3 DEF FlagHolds
<1>5. OneEach'
  BY <1>2, <1>3 DEF Exclusive, OneEach
<1> QED BY <1>4, <1>5 DEF Exclusive

\* The end of a batch clears the flag: it was the only one of the handler.
LEMMA BatchEndsExcludes ==
    ASSUME Base, Exclusive, NEW b \in UnderWay, BatchEnds(b)
    PROVE  Exclusive'
<1>1. /\ UnderWay' = UnderWay \ {b} /\ wake'.handler = wake.handler
      /\ \A c \in Batches \ {b} : batch'[c] = batch[c]
  BY BatchEndsEffect
<1>2. UNCHANGED interrupted
  BY DEF BatchEnds, history
<1>3. \A c \in UnderWay \ {b} : batch'[c] = batch[c]
  BY <1>1, BatchesUnderWay DEF Base
<1>4. \A r \in Runners \ interrupted : wake.handler = r => UnderWay \ {b} = {}
  BY DEF Exclusive, FlagHolds, OneEach
<1>5. FlagHolds'
  BY <1>1, <1>2, <1>4 DEF FlagHolds
<1>6. OneEach'
  BY <1>1, <1>2, <1>3 DEF Exclusive, OneEach
<1> QED BY <1>5, <1>6 DEF Exclusive

LEMMA NextExcludes == ASSUME Base, Exclusive, [Next]_vars PROVE Exclusive'
<1>1. CASE ClockTicks \/ SetHeartbeatsEnabled \/ UNCHANGED vars
  BY <1>1, ExclusiveStays DEF ClockTicks, SetHeartbeatsEnabled, vars, history, UnderWay
<1>2. CASE WakeTimerFires
  BY <1>2, WakeTimerFiresExcludes
<1>3. ASSUME NEW k \in Targets, NEW reason \in Asked, Request(k, reason) PROVE Exclusive'
  <2>1. wake'.handler = wake.handler /\ wake'.running = wake.running
    BY <1>3, ReasonsRanked, RequestEffect DEF Request, Base
  <2> QED BY <1>3, <2>1, ExclusiveStays DEF Request, UnderWay
<1>4. ASSUME NEW r \in Runners, IntervalTimerFires(r) PROVE Exclusive'
  <2>1. wake'.handler = wake.handler /\ wake'.running = wake.running
    BY <1>4, ReasonsRanked, TargetsAssumption, RequestEffect DEF IntervalTimerFires, Base
  <2> QED BY <1>4, <2>1, ExclusiveStays DEF IntervalTimerFires, UnderWay
<1>5. ASSUME NEW r \in Runners, StopRunner(r) PROVE Exclusive'
  <2>1. wake'.handler = None
    BY <1>5, StopRunnerEffect
  <2>2. UnderWay' = UnderWay /\ batch' = batch /\ interrupted' = interrupted
    BY <1>5 DEF StopRunner, history, UnderWay
  <2>3. FlagHolds'
    BY <2>1, NoneAssumption DEF FlagHolds
  <2>4. OneEach'
    BY <2>2 DEF Exclusive, OneEach
  <2> QED BY <2>3, <2>4 DEF Exclusive
<1>6. ASSUME NEW r \in Runners, NEW config \in Configs, StartRunner(r, config) PROVE Exclusive'
  BY <1>6, StartRunnerExcludes
<1>7. ASSUME NEW r \in Runners, NEW config \in Configs, UpdateConfig(r, config) PROVE Exclusive'
  <2>1. UnderWay' = UnderWay /\ \A b \in UnderWay : batch'[b].by = batch[b].by
    BY <1>7, UpdateConfigEffect
  <2> QED BY <1>7, <2>1, ExclusiveStays DEF UpdateConfig, history
<1>8. ASSUME NEW b \in UnderWay, wake'.handler = wake.handler, wake'.running = wake.running,
             UnderWay' = UnderWay, UNCHANGED interrupted, batch'[b].by = batch[b].by,
             \A c \in Batches \ {b} : batch'[c] = batch[c]
      PROVE  Exclusive'
  <2>1. \A c \in UnderWay : batch'[c].by = batch[c].by
    BY <1>8, BatchesUnderWay DEF Base
  <2> QED BY <1>8, <2>1, ExclusiveStays
<1>9. ASSUME NEW b \in UnderWay, NEW k \in Targets, TurnedDown(b, k) \/ BeginRun(b, k)
      PROVE  Exclusive'
  <2>1. UNCHANGED <<wake, interrupted>>
    BY <1>9 DEF TurnedDown, BeginRun, history
  <2> QED BY <1>8, <1>9, <2>1, TurnedDownEffect, BeginRunEffect
<1>10. ASSUME NEW b \in UnderWay, NEW a \in Agents, Execute(b, a) \/ Disabled(b, a)
       PROVE  Exclusive'
  <2>1. UNCHANGED <<wake, interrupted>>
    BY <1>10 DEF Execute, Disabled, history
  <2> QED BY <1>8, <1>10, <2>1, ExecuteEffect, DisabledEffect
<1>11. ASSUME NEW b \in UnderWay, NEW a \in Agents, LaneBusy(b, a) PROVE Exclusive'
  <2>1. UNCHANGED interrupted
    BY <1>11 DEF LaneBusy, history
  <2> QED BY <1>8, <1>11, <2>1, LaneBusyEffect
<1>12. ASSUME NEW b \in UnderWay, ExecuteEnds(b) \/ EndRun(b) PROVE Exclusive'
  <2>1. UNCHANGED <<wake, interrupted>>
    BY <1>12 DEF ExecuteEnds, EndRun
  <2> QED BY <1>8, <1>12, <2>1, ExecuteEndsEffect, EndRunEffect
<1>13. ASSUME NEW b \in UnderWay, BatchEnds(b) PROVE Exclusive'
  BY <1>13, BatchEndsExcludes
<1> QED BY <1>1, <1>2, <1>3, <1>4, <1>5, <1>6, <1>7, <1>9, <1>10, <1>11, <1>12, <1>13 DEF Next

LEMMA ExclusiveCorrect == Spec => []Exclusive
<1>1. Init => Exclusive
  BY DEF Init, Exclusive, FlagHolds, OneEach, UnderWay
<1>2. Base /\ Exclusive /\ [Next]_vars => Exclusive'
  BY NextExcludes
<1> QED BY BaseCorrect, <1>1, <1>2, PTL DEF Spec

\* Two batches of one handler never run together, whatever wakes, retries and restarts
\* come in between, unless the handler was registered while a batch of the handler before
\* it was under way (the flag running of schedule, which a registration resets).
THEOREM OneBatchRunsAtATime == Spec => []OneBatchAtATime
<1>1. ASSUME OneEach PROVE OneBatchAtATime
  <2> SUFFICES ASSUME NEW r \in Runners \ interrupted
               PROVE  Cardinality({b \in UnderWay : batch[b].by = r}) <= 1
    BY DEF OneBatchAtATime
  <2>1. PICK S : S = {b \in UnderWay : batch[b].by = r}
    OBVIOUS
  <2>2. \A b, c \in S : b = c
    BY <1>1, <2>1 DEF OneEach
  <2>3. CASE S = {}
    BY <2>1, <2>3, FS_EmptySet
  <2>4. CASE S # {}
    <3>1. PICK b : S = {b}
      BY <2>2, <2>4
    <3>2. Cardinality(S) = 1
      BY <3>1, FS_Singleton
    <3> QED BY <2>1, <3>2
  <2> QED BY <2>3, <2>4
<1>2. Exclusive => OneBatchAtATime
  BY <1>1 DEF Exclusive
<1> QED BY ExclusiveCorrect, <1>2, PTL

-----------------------------------------------------------------------------
(* Heartbeats never stop by themselves *)

\* A runner whose state a step leaves alone beats on if the wakes for everybody stay where
\* they are.
LEMMA BeatsOn ==
    ASSUME Base, NEW r \in Runners, Beats(r),
           runner'[r].at = "live" => runner[r].at = "live",
           runner'[r].agents # NoAgents => runner[r].agents # NoAgents,
           runner[r].timer # None => runner'[r].timer # None,
           wake.pending[All] # None => wake'.pending[All] # None,
           \A b \in UnderWay : batch[b].by = r /\ HeldBy(b, All) # None =>
               b \in UnderWay' /\ batch'[b].by = r /\ HeldBy(b, All)' # None
    PROVE  Beats(r)'
BY DEF Beats

\* Its interval timer is set again.
LEMMA BeatsRearmed ==
    ASSUME NEW r \in Runners,
           runner'[r].at = "live" => (runner'[r].timer # None <=> runner'[r].agents # NoAgents)
    PROVE  Beats(r)'
BY DEF Beats

LEMMA SameAgents ==
    ASSUME Base, Base', NEW r \in Runners,
           Scheduled(runner'[r].agents) = Scheduled(runner[r].agents)
    PROVE  runner'[r].agents # NoAgents <=> runner[r].agents # NoAgents
<1>1. runner[r].agents \in Schedules /\ runner'[r].agents \in Schedules
  BY DEF Base, TypeOK, Runner
<1> QED BY <1>1, NobodyScheduled

LEMMA NextKeepsBeating ==
    ASSUME Base, [Next]_vars, NEW r \in Runners, Beats(r), enabled
    PROVE  Beats(r)'
<1>a. Base'
  BY NextBase
<1>b. All \in Targets
  BY TargetsAssumption
<1>1. CASE UNCHANGED <<runner, wake, batch>>
  BY <1>1 DEF Beats, UnderWay, HeldBy
<1>2. CASE ClockTicks \/ SetHeartbeatsEnabled \/ UNCHANGED vars
  BY <1>1, <1>2 DEF ClockTicks, SetHeartbeatsEnabled, vars
<1>3. CASE WakeTimerFires
  <2>1. UNCHANGED runner
    BY <1>3 DEF WakeTimerFires
  <2>2. CASE UNCHANGED batch /\ wake'.pending = wake.pending
    BY <2>1, <2>2 DEF Beats, UnderWay, HeldBy
  <2>3. ASSUME NEW b \in Batches \ UnderWay, NEW x \in Batch, batch' = [batch EXCEPT ![b] = x],
               x.by = wake.handler, x.key = None, x.rest = wake.pending
        PROVE  Beats(r)'
    <3>1. /\ UnderWay' = UnderWay \cup {b} /\ batch'[b] = x
          /\ \A c \in Batches \ {b} : batch'[c] = batch[c]
      BY <2>3, BatchUpdated DEF Base
    <3>2. \A c \in UnderWay : batch'[c] = batch[c]
      BY <2>3, <3>1, BatchesUnderWay DEF Base
    <3>3. HeldBy(b, All)' = wake.pending[All]
      BY <1>b, <2>3, <3>1, NoReasonAssumption DEF HeldBy
    <3>4. runner[r].at = "live" => wake.handler = r
      BY DEF Base, LiveHandles
    <3>5. \A c \in UnderWay : HeldBy(c, All)' = HeldBy(c, All)
      BY <3>2 DEF HeldBy
    <3> QED BY <2>1, <2>3, <3>1, <3>2, <3>3, <3>4, <3>5 DEF Beats
  <2> QED BY <1>3, <2>2, <2>3, WakeTimerFiresEffect DEF Base
<1>4. ASSUME NEW k \in Targets, NEW reason \in Asked, Request(k, reason) PROVE Beats(r)'
  <2>1. \A j \in Targets : AtLeast(wake'.pending[j], wake.pending[j])
    BY <1>4, ReasonsRanked, RequestEffect DEF Request, Base
  <2>2. wake.pending[All] # None => wake'.pending[All] # None
    BY <1>b, <2>1 DEF AtLeast
  <2> QED BY <1>4, <2>2 DEF Request, Beats, UnderWay, HeldBy
<1>5. ASSUME NEW q \in Runners, IntervalTimerFires(q) PROVE Beats(r)'
  <2>1. wake'.pending[All] # None
    BY <1>5, <1>b, ReasonsRanked, RequestEffect DEF IntervalTimerFires, Base
  <2> QED BY <2>1 DEF Beats
<1>6. ASSUME NEW q \in Runners, StopRunner(q) PROVE Beats(r)'
  <2>1. /\ runner'[q].at = "stopped" /\ wake'.pending = wake.pending
        /\ \A p \in Runners \ {q} : runner'[p] = runner[p]
    BY <1>6, StopRunnerEffect
  <2>2. UNCHANGED batch
    BY <1>6 DEF StopRunner
  <2>3. CASE r = q
    BY <2>1, <2>3 DEF Beats
  <2>4. CASE r # q
    BY <2>1, <2>2, <2>4 DEF Beats, UnderWay, HeldBy
  <2> QED BY <2>3, <2>4
<1>7. ASSUME NEW q \in Runners, NEW config \in Configs, StartRunner(q, config) PROVE Beats(r)'
  <2>1. CASE r = q
    BY <1>7, <2>1, StartRunnerEffect DEF Beats
  <2>2. CASE r # q
    <3>1. runner'[r].at # "live"
      BY <1>7, <2>2, StartRunnerEffect
    <3> QED BY <3>1 DEF Beats
  <2> QED BY <2>1, <2>2
<1>8. ASSUME NEW q \in Runners, NEW config \in Configs, UpdateConfig(q, config) PROVE Beats(r)'
  <2>1. CASE r = q
    BY <1>8, <2>1, UpdateConfigEffect DEF Beats
  <2>2. CASE r # q
    <3>1. runner'[r] = runner[r] /\ UnderWay' = UnderWay
      BY <1>8, <2>2, UpdateConfigEffect
    <3>2. \A b \in UnderWay : /\ batch'[b].key = batch[b].key /\ batch'[b].rest = batch[b].rest
                              /\ batch'[b].reason = batch[b].reason /\ batch'[b].by = batch[b].by
      BY <1>8, UpdateConfigEffect
    <3>3. UNCHANGED wake
      BY <1>8 DEF UpdateConfig
    <3> QED BY <3>1, <3>2, <3>3 DEF Beats, HeldBy
  <2> QED BY <2>1, <2>2
<1>9. ASSUME NEW b \in UnderWay, NEW k \in Targets, TurnedDown(b, k) PROVE Beats(r)'
  <2>1. /\ UnderWay' = UnderWay /\ \A c \in Batches \ {b} : batch'[c] = batch[c]
        /\ batch[b].key = None /\ batch'[b].key = None /\ batch'[b].by = batch[b].by
        /\ batch'[b].rest = [batch[b].rest EXCEPT ![k] = None]
        /\ \A q \in Runners \ {batch[b].by} : runner'[q] = runner[q]
    BY <1>9, TurnedDownEffect
  <2>2. /\ b \in Batches /\ batch[b].by \in Runners /\ runner[batch[b].by] \in Runner
        /\ RunnerOK(runner[batch[b].by]) /\ batch[b].rest \in [Targets -> Reasons \cup {None}]
    BY RunOf DEF RunnerOK, Batch, Wakes
  <2>3. \A c \in UnderWay \ {b} : HeldBy(c, All)' = HeldBy(c, All) /\ batch'[c] = batch[c]
    BY <2>1, BatchesUnderWay DEF HeldBy, Base
  <2>4. UNCHANGED wake
    BY <1>9 DEF TurnedDown
  <2>5. CASE batch[b].by # r
    BY <2>1, <2>3, <2>4, <2>5, BeatsOn
  <2>6. CASE batch[b].by = r /\ runner[r].at # "live"
    <3>1. runner' = runner
      BY <1>9, <2>6 DEF TurnedDown
    <3> QED BY <2>6, <3>1 DEF Beats
  <2>7. CASE batch[b].by = r /\ UNCHANGED runner /\ runner[r].agents = NoAgents
    BY <2>7 DEF Beats
  <2>8. CASE /\ batch[b].by = r /\ runner[r].at = "live"
             /\ runner' = [runner EXCEPT ![r] = ScheduleNext(@)]
    <3>1. runner'[r] = ScheduleNext(runner[r])
      BY <2>2, <2>8 DEF Base, TypeOK
    <3>2. runner'[r].at = "live" => (runner'[r].timer # None <=> runner'[r].agents # NoAgents)
      BY <2>2, <2>8, <3>1, RearmedOK
    <3> QED BY <3>2, BeatsRearmed
  <2> QED BY <1>9, <2>5, <2>6, <2>7, <2>8 DEF TurnedDown
<1>10. ASSUME NEW b \in UnderWay, UnderWay' = UnderWay, UNCHANGED wake,
              \A c \in Batches \ {b} : batch'[c] = batch[c], batch'[b].by = batch[b].by,
              \A j \in Targets : HeldBy(b, j)' = HeldBy(b, j),
              runner'[r].at = runner[r].at, runner'[r].timer = runner[r].timer,
              runner'[r].agents # NoAgents => runner[r].agents # NoAgents
       PROVE  Beats(r)'
  <2>1. \A c \in UnderWay : batch'[c].by = batch[c].by /\ HeldBy(c, All)' = HeldBy(c, All)
    BY <1>b, <1>10, BatchesUnderWay DEF HeldBy, Base
  <2> QED BY <1>10, <2>1, BeatsOn
<1>11. ASSUME NEW b \in UnderWay, NEW k \in Targets, BeginRun(b, k) PROVE Beats(r)'
  <2>1. UNCHANGED <<wake, runner>>
    BY <1>11 DEF BeginRun
  <2> QED BY <1>10, <1>11, <2>1, BeginRunEffect
<1>12. ASSUME NEW b \in UnderWay, NEW a \in Agents, Execute(b, a) PROVE Beats(r)'
  <2>1. UNCHANGED <<wake, runner>>
    BY <1>12 DEF Execute
  <2> QED BY <1>10, <1>12, <2>1, ExecuteEffect
<1>13. ASSUME NEW b \in UnderWay, NEW a \in Agents, Disabled(b, a) PROVE Beats(r)'
  <2>1. UNCHANGED <<wake, runner>>
    BY <1>13 DEF Disabled
  <2> QED BY <1>10, <1>13, <2>1, DisabledEffect
<1>14. ASSUME NEW b \in UnderWay, ExecuteEnds(b) PROVE Beats(r)'
  <2>1. UNCHANGED wake
    BY <1>14 DEF ExecuteEnds
  <2>2. RunnersKept /\ runner'[r].timer = runner[r].timer
    BY <1>14, ExecuteEndsEffect
  <2>3. runner'[r].at = runner[r].at
    BY <2>2 DEF RunnersKept
  <2>4. runner'[r].agents # NoAgents <=> runner[r].agents # NoAgents
    BY <1>a, <2>2, SameAgents DEF RunnersKept
  <2>5. /\ UnderWay' = UnderWay /\ \A c \in Batches \ {b} : batch'[c] = batch[c]
        /\ batch'[b].by = batch[b].by /\ \A j \in Targets : HeldBy(b, j)' = HeldBy(b, j)
    BY <1>14, ExecuteEndsEffect
  <2> QED BY <1>10, <2>1, <2>2, <2>3, <2>4, <2>5
<1>15. ASSUME NEW b \in UnderWay, NEW a \in Agents, LaneBusy(b, a) PROVE Beats(r)'
  <2>1. /\ batch[b].key \in Targets /\ wake'.pending[batch[b].key] # None
        /\ \A j \in Targets : AtLeast(wake'.pending[j], wake.pending[j])
        /\ UnderWay' = UnderWay /\ \A c \in Batches \ {b} : batch'[c] = batch[c]
        /\ \A q \in Runners \ {batch[b].by} : runner'[q] = runner[q]
    BY <1>15, LaneBusyEffect
  <2>2. CASE batch[b].key = All
    BY <2>1, <2>2 DEF Beats
  <2>3. CASE batch[b].key # All /\ batch[b].by = r
    <3>1. RunnersKept
      BY <1>15, LaneBusyEffect
    <3>2. runner'[r].at = "live" => (runner'[r].timer # None <=> runner'[r].agents # NoAgents)
      BY <1>15, <2>3, <3>1, LaneBusyEffect DEF RunnersKept
    <3> QED BY <3>2, BeatsRearmed
  <2>4. CASE batch[b].by # r
    <3>1. wake.pending[All] # None => wake'.pending[All] # None
      BY <1>b, <2>1 DEF AtLeast
    <3>2. runner'[r] = runner[r]
      BY <2>1, <2>4
    <3>3. \A c \in UnderWay \ {b} : HeldBy(c, All)' = HeldBy(c, All) /\ batch'[c] = batch[c]
      BY <2>1, BatchesUnderWay DEF HeldBy, Base
    <3> QED BY <2>1, <2>4, <3>1, <3>2, <3>3, BeatsOn
  <2> QED BY <2>2, <2>3, <2>4
<1>16. ASSUME NEW b \in UnderWay, EndRun(b) PROVE Beats(r)'
  <2>1. /\ UnderWay' = UnderWay /\ \A c \in Batches \ {b} : batch'[c] = batch[c]
        /\ \A q \in Runners \ {batch[b].by} : runner'[q] = runner[q]
    BY <1>16, EndRunEffect
  <2>2. CASE batch[b].by = r
    <3>1. RunnersKept
      BY <1>16, EndRunEffect
    <3>2. runner'[r].at = "live" => (runner'[r].timer # None <=> runner'[r].agents # NoAgents)
      BY <1>16, <2>2, <3>1, EndRunEffect DEF RunnersKept
    <3> QED BY <3>2, BeatsRearmed
  <2>3. CASE batch[b].by # r
    <3>1. UNCHANGED wake
      BY <1>16 DEF EndRun
    <3>2. runner'[r] = runner[r]
      BY <2>1, <2>3
    <3>3. \A c \in UnderWay \ {b} : HeldBy(c, All)' = HeldBy(c, All) /\ batch'[c] = batch[c]
      BY <2>1, BatchesUnderWay DEF HeldBy, Base
    <3> QED BY <2>1, <2>3, <3>1, <3>2, <3>3, BeatsOn
  <2> QED BY <2>2, <2>3
<1>17. ASSUME NEW b \in UnderWay, BatchEnds(b) PROVE Beats(r)'
  <2>1. /\ UnderWay' = UnderWay \ {b} /\ \A c \in Batches \ {b} : batch'[c] = batch[c]
        /\ HeldBy(b, All) = None /\ wake'.pending = wake.pending
    BY <1>17, <1>b, BatchEndsEffect
  <2>2. UNCHANGED runner
    BY <1>17 DEF BatchEnds
  <2>3. \A c \in UnderWay \ {b} : HeldBy(c, All)' = HeldBy(c, All) /\ batch'[c] = batch[c]
    BY <2>1, BatchesUnderWay DEF HeldBy, Base
  <2> QED BY <2>1, <2>2, <2>3 DEF Beats
<1> QED BY <1>2, <1>3, <1>4, <1>5, <1>6, <1>7, <1>8, <1>9, <1>11, <1>12, <1>13, <1>14, <1>15,
           <1>16, <1>17 DEF Next

\* Heartbeats never stop by themselves: the step after which a live runner with agents has
\* neither an armed interval timer nor a wake for everybody that will arm it is taken while
\* heartbeats are off (the finally block of run, scheduleNext, updateConfig and the retry of
\* a busy lane between them).
THEOREM HeartbeatsKeepBeating == Spec => KeepsBeating
<1>1. Base /\ [Next]_vars => [\A r \in Runners : Beats(r) /\ ~ Beats(r)' => ~ enabled]_vars
  BY NextKeepsBeating
<1> QED BY BaseCorrect, <1>1, PTL DEF Spec, KeepsBeating

-----------------------------------------------------------------------------
(* Interval runs are an interval apart *)

\* After a run that began at s, agent a is not due before its interval is over, and a
\* change of the configuration will count from that run or a later one.
SpacedFrom(agents, a, s) ==
    agents[a] # None =>
        /\ agents[a].due >= s + agents[a].interval
        /\ agents[a].last = None \/ agents[a].last >= s

\* A runner whose schedule matters: it is registered, or a batch of it is under way.
Current(r) == wake.handler = r \/ \E b \in UnderWay : batch[b].by = r
Executing(a) == \E b \in UnderWay : batch[b].at = "executing" /\ batch[b].agent = a

OneAtAll == \A b, c \in UnderWay : b = c
NewHasNone == \A r \in Runners : runner[r].at = "new" => runner[r].agents = NoAgents
Timely ==
    /\ \A a \in Agents : slot[a] # None => slot[a] <= now
    /\ \A b \in UnderWay : batch[b].at # "idle" => batch[b].start <= now
    /\ \A b \in UnderWay, a \in Agents :
          batch[b].at # "idle" /\ slot[a] # None => slot[a] <= batch[b].start

\* The schedules that matter know of the last run of an agent, unless it is still
\* executing or was noted in a schedule that had been replaced.
Apart ==
    \A a \in Agents : slot[a] # None /\ a \notin unsaved /\ ~ Executing(a) =>
        /\ \A r \in Runners : Current(r) => SpacedFrom(runner[r].agents, a, slot[a])
        /\ \A b \in UnderWay : batch[b].map # None /\ a \in batch[b].left =>
              SpacedFrom(batch[b].map, a, slot[a])

Spacing == interrupted = {} => OneAtAll /\ NewHasNone /\ Timely /\ Apart

\* Of a step by which nothing is executed, noted or scheduled anew.
LEMMA SpacingStays ==
    ASSUME Base, Base', Spacing, interrupted' = {} => interrupted = {},
           UNCHANGED <<slot, unsaved>>, now' >= now,
           wake'.handler \in {wake.handler, None},
           UnderWay' \subseteq UnderWay,
           \A r \in Runners : /\ runner'[r].agents = runner[r].agents
                              /\ runner'[r].at = "new" => runner[r].at = "new",
           \A b \in UnderWay' :
               /\ batch'[b].by = batch[b].by
               /\ batch'[b].at # "idle" =>
                     batch[b].at # "idle" /\ batch'[b].start = batch[b].start
               /\ batch'[b].map # None =>
                     batch'[b].map = batch[b].map /\ batch'[b].left \subseteq batch[b].left,
           \A b \in UnderWay : batch[b].at = "executing" =>
               b \in UnderWay' /\ batch'[b].at = "executing" /\ batch'[b].agent = batch[b].agent
    PROVE  Spacing'
<1> SUFFICES ASSUME interrupted' = {} PROVE (OneAtAll /\ NewHasNone /\ Timely /\ Apart)'
  BY DEF Spacing
<1>1. OneAtAll /\ NewHasNone /\ Timely /\ Apart
  BY DEF Spacing
<1>2. OneAtAll' /\ NewHasNone'
  BY <1>1 DEF OneAtAll, NewHasNone
<1>3. Timely'
  <2>1. now \in Nat /\ now' \in Nat /\ \A a \in Agents : slot[a] # None => slot[a] \in Nat
    <3>1. /\ now \in Time /\ now' \in Time
          /\ \A a \in Agents : slot[a] # None => slot[a] \in Time
      BY DEF Base, TypeOK
    <3> QED BY <3>1, TimesAreNaturals
  <2>2. \A b \in UnderWay : batch[b].start \in Nat
    <3>1. \A b \in UnderWay : batch[b].start \in Time
      BY BatchesUnderWay DEF Base, Batch
    <3> QED BY <3>1, TimesAreNaturals
  <2>3. \A a \in Agents : slot'[a] # None => slot'[a] <= now'
    BY <1>1, <2>1 DEF Timely
  <2>4. \A b \in UnderWay' : batch'[b].at # "idle" => batch'[b].start <= now'
    BY <1>1, <2>1, <2>2 DEF Timely
  <2>5. \A b \in UnderWay', a \in Agents :
           batch'[b].at # "idle" /\ slot'[a] # None => slot'[a] <= batch'[b].start
    BY <1>1 DEF Timely
  <2> QED BY <2>3, <2>4, <2>5 DEF Timely
<1>4. \A a \in Agents : ~ Executing(a)' => ~ Executing(a)
  BY DEF Executing
<1>5. \A r \in Runners : Current(r)' => Current(r)
  BY NoneAssumption DEF Current
<1>6. Apart'
  BY <1>1, <1>4, <1>5 DEF Apart
<1> QED BY <1>2, <1>3, <1>6

\* Of the batches under way, whom they belong to.
LEMMA CurrentIsOwner ==
    ASSUME Base, Exclusive, Spacing, interrupted = {}, NEW b \in UnderWay, NEW r \in Runners,
           Current(r)
    PROVE  r = batch[b].by /\ \A c \in UnderWay : c = b
<1>1. \A c \in UnderWay : c = b
  BY DEF Spacing, OneAtAll
<1>2. CASE wake.handler = r
  BY <1>1, <1>2 DEF Exclusive, FlagHolds
<1>3. CASE \E c \in UnderWay : batch[c].by = r
  BY <1>1, <1>3
<1> QED BY <1>1, <1>2, <1>3 DEF Current

LEMMA WakeTimerFiresSpaces ==
    ASSUME Base, Base', Exclusive, Spacing, WakeTimerFires
    PROVE  Spacing'
<1>1. UNCHANGED <<now, enabled, runner, events, owed, interrupted, slot, unsaved>>
  BY DEF WakeTimerFires, history
<1>2. wake'.handler = wake.handler
  BY WakeTimerFiresEffect DEF Base
<1>3. now \in Nat
  BY TimesAreNaturals DEF Base, TypeOK
<1>4. CASE UNCHANGED batch
  <2>1. UnderWay' = UnderWay
    BY <1>4 DEF UnderWay
  <2> QED BY <1>1, <1>2, <1>3, <1>4, <2>1, SpacingStays
<1>5. ASSUME NEW b \in Batches \ UnderWay, NEW x \in Batch, batch' = [batch EXCEPT ![b] = x],
             wake.handler \in Runners, x.by = wake.handler, ~ wake.running,
             x.at = "idle", \A agents : Shaped(x, agents), interrupted' = {}
      PROVE  (OneAtAll /\ NewHasNone /\ Timely /\ Apart)'
  <2>1. OneAtAll /\ NewHasNone /\ Timely /\ Apart
    BY <1>1, <1>5 DEF Spacing
  <2>2. UnderWay = {}
    BY <1>1, <1>5 DEF Exclusive, FlagHolds
  <2>3. UnderWay' = {b} /\ batch'[b] = x
    BY <1>5, <2>2, BatchUpdated DEF Base
  <2>4. x.map = None
    BY <1>5 DEF Shaped
  <2>5. OneAtAll' /\ NewHasNone' /\ Timely'
    BY <1>1, <1>5, <2>1, <2>2, <2>3 DEF OneAtAll, NewHasNone, Timely
  <2>6. \A r \in Runners : Current(r)' => Current(r)
    BY <1>2, <1>5, <2>3 DEF Current
  <2>7. \A a \in Agents : ~ Executing(a)
    BY <2>2 DEF Executing
  <2>8. Apart'
    BY <1>1, <2>1, <2>3, <2>4, <2>6, <2>7 DEF Apart
  <2> QED BY <2>5, <2>8
<1>6. ASSUME NEW b \in Batches \ UnderWay, NEW x \in Batch, batch' = [batch EXCEPT ![b] = x],
             wake.handler \in Runners, x.by = wake.handler, ~ wake.running,
             x.at = "idle", \A agents : Shaped(x, agents)
      PROVE  Spacing'
  BY <1>5, <1>6 DEF Spacing
<1> QED BY <1>4, <1>6, WakeTimerFiresEffect DEF Base

\* A change of the configuration keeps what the schedule knows of the last run.
LEMMA ConfiguredSpaced ==
    ASSUME Base, NEW s \in Runner, NEW config \in Configs, NEW a \in Agents,
           NEW t \in Time, t <= now, SpacedFrom(s.agents, a, t)
    PROVE  SpacedFrom(ConfiguredAgents(s, config), a, t)
<1>1. CASE config[a] = None
  BY <1>1 DEF ConfiguredAgents, SpacedFrom
<1>2. CASE config[a] # None
  <2>1. PICK interval \in Intervals : interval = config[a]
    BY <1>2 DEF Intervals
  <2>2. PICK prev \in AgentState \cup {None} : prev = s.agents[a]
    BY DEF Runner, Schedules
  <2>3. PICK next : next = [interval |-> interval,
                            last |-> IF prev = None THEN None ELSE prev.last,
                            due |-> ResolveNextDue(interval, prev)]
    OBVIOUS
  <2>4. ConfiguredAgents(s, config)[a] = next
    BY <1>2, <2>1, <2>2, <2>3 DEF ConfiguredAgents
  <2>5. /\ now \in Nat /\ t \in Nat /\ interval \in Nat
        /\ prev # None => /\ prev.due \in Nat /\ prev.interval \in Nat
                          /\ prev.last \in Nat \cup {None}
    BY TimesAreNaturals DEF Base, TypeOK, AgentState
  <2>6. prev # None => prev.due >= t + prev.interval /\ (prev.last = None \/ prev.last >= t)
    BY <2>2 DEF SpacedFrom
  <2>7. next.last = None \/ next.last >= t
    BY <2>3, <2>6
  <2>8. ResolveNextDue(interval, prev) >= t + interval
    <3>1. CASE prev # None /\ prev.last # None
      BY <2>5, <2>6, <3>1 DEF ResolveNextDue
    <3>2. CASE prev # None /\ prev.last = None /\ prev.interval = interval /\ prev.due > now
      BY <2>5, <2>6, <3>2 DEF ResolveNextDue
    <3>3. CASE /\ ~ (prev # None /\ prev.last # None)
               /\ ~ (prev # None /\ prev.last = None /\ prev.interval = interval
                     /\ prev.due > now)
      <4>1. ResolveNextDue(interval, prev) = now + interval
        BY <3>3 DEF ResolveNextDue
      <4> QED BY <2>5, <4>1
    <3> QED BY <3>1, <3>2, <3>3
  <2>9. next.due >= t + next.interval
    BY <2>3, <2>8
  <2> QED BY <2>4, <2>7, <2>9 DEF SpacedFrom
<1> QED BY <1>1, <1>2

\* So does a run that began later.
LEMMA AdvancedSpaced ==
    ASSUME NEW agents \in Schedules, NEW a \in Agents, agents[a] # None, NEW start \in Time,
           NEW t \in Time, t <= start
    PROVE  SpacedFrom(Advance(agents, a, start), a, t)
<1>1. agents[a].interval \in Nat /\ start \in Nat /\ t \in Nat
  BY TimesAreNaturals DEF Schedules, AgentState
<1>2. /\ Advance(agents, a, start)[a].interval = agents[a].interval
      /\ Advance(agents, a, start)[a].last = start
      /\ Advance(agents, a, start)[a].due = start + agents[a].interval
  BY AdvanceType
<1> QED BY <1>1, <1>2 DEF SpacedFrom

\* Nor of a step of one batch that executes nothing.
LEMMA BatchStepSpaces ==
    ASSUME Base, Base', Spacing, NEW b \in UnderWay, UnderWay' = UnderWay,
           \A c \in Batches \ {b} : batch'[c] = batch[c],
           UNCHANGED <<now, slot, unsaved, interrupted>>, wake'.handler = wake.handler,
           \A r \in Runners : /\ runner'[r].agents = runner[r].agents
                              /\ runner'[r].at = runner[r].at,
           batch'[b].by = batch[b].by, batch[b].at # "executing",
           \/ batch'[b].at = "idle"
           \/ /\ batch'[b].at = batch[b].at /\ batch'[b].start = batch[b].start
              /\ batch'[b].map = batch[b].map /\ batch'[b].left \subseteq batch[b].left
    PROVE  Spacing'
<1>1. now \in Nat
  <2>1. now \in Time
    BY DEF Base, TypeOK
  <2> QED BY <2>1, TimesAreNaturals
<1>2. batch'[b].at = "idle" => batch'[b].map = None
  BY DEF Base, RunsShaped, Shaped
<1>3. \A c \in UnderWay : c # b => batch'[c] = batch[c]
  BY BatchesUnderWay DEF Base
<1>4. \A c \in UnderWay' :
         /\ batch'[c].by = batch[c].by
         /\ batch'[c].at # "idle" => batch[c].at # "idle" /\ batch'[c].start = batch[c].start
         /\ batch'[c].map # None =>
               batch'[c].map = batch[c].map /\ batch'[c].left \subseteq batch[c].left
  BY <1>2, <1>3
<1>5. \A c \in UnderWay : batch[c].at = "executing" =>
         c \in UnderWay' /\ batch'[c].at = "executing" /\ batch'[c].agent = batch[c].agent
  BY <1>3
<1>6. now' >= now
  BY <1>1
<1> QED BY <1>4, <1>5, <1>6, SpacingStays

LEMMA StartRunnerSpaces ==
    ASSUME Base, Base', Spacing, NEW r \in Runners, NEW config \in Configs,
           StartRunner(r, config)
    PROVE  Spacing'
<1> SUFFICES ASSUME interrupted' = {} PROVE (OneAtAll /\ NewHasNone /\ Timely /\ Apart)'
  BY DEF Spacing
<1>1. interrupted = {} /\ UnderWay = {}
  BY DEF StartRunner
<1>2. OneAtAll /\ NewHasNone /\ Timely /\ Apart
  BY <1>1 DEF Spacing
<1>3. UnderWay' = {} /\ UNCHANGED <<now, slot, unsaved>> /\ runner[r].at = "new"
  BY <1>1 DEF StartRunner, UnderWay
<1>4. OneAtAll' /\ Timely'
  BY <1>2, <1>3 DEF OneAtAll, Timely
<1>5. NewHasNone'
  BY <1>2, StartRunnerEffect DEF NewHasNone
<1>6. PICK s \in Runner : s = [runner[r] EXCEPT !.at = "live"] /\ s.agents = NoAgents
  <2>1. runner[r] \in Runner /\ runner[r].agents = NoAgents
    BY <1>2, <1>3 DEF Base, TypeOK, NewHasNone
  <2>2. PICK s : s = [runner[r] EXCEPT !.at = "live"]
    OBVIOUS
  <2>3. s \in Runner /\ s.agents = NoAgents
    BY <2>1, <2>2 DEF Runner
  <2> QED BY <2>2, <2>3
<1>7. runner'[r].agents = ConfiguredAgents(s, config)
  BY <1>6, StartRunnerEffect
<1>8. \A q \in Runners : Current(q)' => q = r
  BY <1>3, StartRunnerEffect DEF Current
<1>9. \A a \in Agents : slot[a] # None => SpacedFrom(runner'[r].agents, a, slot[a])
  <2> TAKE a \in Agents
  <2> HAVE slot[a] # None
  <2>1. slot[a] \in Time /\ slot[a] <= now
    BY <1>2 DEF Base, TypeOK, Timely
  <2>2. SpacedFrom(s.agents, a, slot[a])
    BY <1>6 DEF SpacedFrom, NoAgents
  <2>3. SpacedFrom(ConfiguredAgents(s, config), a, slot[a])
    BY <2>1, <2>2, ConfiguredSpaced
  <2> QED BY <1>7, <2>3
<1>10. Apart'
  BY <1>3, <1>8, <1>9 DEF Apart
<1> QED BY <1>4, <1>5, <1>10

LEMMA UpdateConfigSpaces ==
    ASSUME Base, Base', Exclusive, Spacing, NEW r \in Runners, NEW config \in Configs,
           UpdateConfig(r, config)
    PROVE  Spacing'
<1> SUFFICES ASSUME interrupted' = {} PROVE (OneAtAll /\ NewHasNone /\ Timely /\ Apart)'
  BY DEF Spacing
<1>1. UNCHANGED <<now, wake, slot, unsaved, interrupted>> /\ runner[r].at = "live"
  BY DEF UpdateConfig, history
<1>2. OneAtAll /\ NewHasNone /\ Timely /\ Apart
  BY <1>1 DEF Spacing
<1>3. /\ UnderWay' = UnderWay
      /\ \A b \in UnderWay :
            /\ batch'[b] = IF batch[b].by = r /\ batch[b].at # "idle" /\ batch[b].map = None
                           THEN [batch[b] EXCEPT !.map = runner[r].agents] ELSE batch[b]
            /\ batch'[b].by = batch[b].by /\ batch'[b].at = batch[b].at
            /\ batch'[b].start = batch[b].start /\ batch'[b].left = batch[b].left
            /\ batch'[b].agent = batch[b].agent
  BY UpdateConfigEffect
<1>4. OneAtAll' /\ Timely'
  BY <1>1, <1>2, <1>3 DEF OneAtAll, Timely
<1>5. NewHasNone'
  BY <1>2, UpdateConfigEffect DEF NewHasNone
<1>6. wake.handler = r /\ Current(r)
  BY <1>1 DEF Base, LiveHandles, Current
<1>7. \A b \in UnderWay : batch[b].by = r
  BY <1>1, <1>6 DEF Exclusive, FlagHolds
<1>8. \A q \in Runners : Current(q)' => q = r
  BY <1>1, <1>3, <1>6, <1>7 DEF Current
<1>9. \A a \in Agents : Executing(a)' = Executing(a)
  BY <1>3 DEF Executing
<1>10. ASSUME NEW a \in Agents, slot[a] # None, a \notin unsaved, ~ Executing(a)
       PROVE  /\ SpacedFrom(runner'[r].agents, a, slot[a])
              /\ \A b \in UnderWay : batch'[b].map # None /\ a \in batch'[b].left =>
                    SpacedFrom(batch'[b].map, a, slot[a])
  <2>1. slot[a] \in Time /\ slot[a] <= now
    BY <1>2, <1>10 DEF Base, TypeOK, Timely
  <2>2. SpacedFrom(runner[r].agents, a, slot[a])
    BY <1>2, <1>6, <1>10 DEF Apart
  <2>3. runner[r] \in Runner
    BY DEF Base, TypeOK
  <2>4. SpacedFrom(ConfiguredAgents(runner[r], config), a, slot[a])
    BY <2>1, <2>2, <2>3, ConfiguredSpaced
  <2>5. runner'[r].agents = ConfiguredAgents(runner[r], config)
    BY UpdateConfigEffect
  <2>6. ASSUME NEW b \in UnderWay, batch'[b].map # None, a \in batch'[b].left
        PROVE  SpacedFrom(batch'[b].map, a, slot[a])
    <3>1. CASE batch'[b] = batch[b]
      BY <1>2, <1>10, <2>6, <3>1 DEF Apart
    <3>2. CASE batch'[b] = [batch[b] EXCEPT !.map = runner[r].agents]
      <4>1. batch[b] \in Batch
        BY BatchesUnderWay DEF Base
      <4>2. batch'[b].map = runner[r].agents
        BY <3>2, <4>1 DEF Batch
      <4> QED BY <2>2, <4>2
    <3> QED BY <1>3, <3>1, <3>2
  <2> QED BY <2>4, <2>5, <2>6
<1>11. Apart'
  BY <1>1, <1>3, <1>8, <1>9, <1>10 DEF Apart
<1> QED BY <1>4, <1>5, <1>11

LEMMA BeginRunSpaces ==
    ASSUME Base, Base', Spacing, NEW b \in UnderWay, NEW k \in Targets, BeginRun(b, k)
    PROVE  Spacing'
<1> SUFFICES ASSUME interrupted' = {} PROVE (OneAtAll /\ NewHasNone /\ Timely /\ Apart)'
  BY DEF Spacing
<1>1. UNCHANGED <<now, wake, runner, slot, unsaved, interrupted>>
  BY DEF BeginRun, history
<1>2. OneAtAll /\ NewHasNone /\ Timely /\ Apart
  BY <1>1 DEF Spacing
<1>3. /\ UnderWay' = UnderWay /\ \A c \in Batches \ {b} : batch'[c] = batch[c]
      /\ batch[b].at = "idle" /\ batch'[b].by = batch[b].by /\ batch'[b].at = "visiting"
      /\ batch'[b].start = now /\ batch'[b].map = None
  BY BeginRunEffect
<1>4. UnderWay = {b}
  BY <1>2 DEF OneAtAll
<1>5. now \in Nat
  <2>1. now \in Time
    BY DEF Base, TypeOK
  <2> QED BY <2>1, TimesAreNaturals
<1>6. OneAtAll' /\ NewHasNone'
  BY <1>1, <1>2, <1>3 DEF OneAtAll, NewHasNone
<1>7. Timely'
  BY <1>1, <1>2, <1>3, <1>4, <1>5 DEF Timely
<1>8. \A a \in Agents : Executing(a)' = Executing(a)
  BY <1>3, <1>4 DEF Executing
<1>9. \A r \in Runners : Current(r)' = Current(r)
  BY <1>1, <1>3, <1>4 DEF Current
<1>10. Apart'
  BY <1>1, <1>2, <1>3, <1>4, <1>8, <1>9 DEF Apart
<1> QED BY <1>6, <1>7, <1>10

LEMMA ExecuteSpaces ==
    ASSUME Base, Base', Spacing, NEW b \in UnderWay, NEW a \in Agents, Execute(b, a)
    PROVE  Spacing'
<1> SUFFICES ASSUME interrupted' = {} PROVE (OneAtAll /\ NewHasNone /\ Timely /\ Apart)'
  BY DEF Spacing
<1>1. /\ UNCHANGED <<now, wake, runner, unsaved, interrupted>> /\ batch[b].at = "visiting"
      /\ slot' = [slot EXCEPT ![a] = batch[b].start]
  BY DEF Execute
<1>2. OneAtAll /\ NewHasNone /\ Timely /\ Apart
  BY <1>1 DEF Spacing
<1>3. /\ UnderWay' = UnderWay /\ batch'[b].by = batch[b].by /\ batch'[b].at = "executing"
      /\ batch'[b].agent = a /\ batch'[b].start = batch[b].start
      /\ batch'[b].map = batch[b].map /\ batch'[b].left = batch[b].left
  BY ExecuteEffect
<1>4. UnderWay = {b}
  BY <1>2 DEF OneAtAll
<1>5. batch[b].start \in Nat
  <2>1. batch[b].start \in Time
    BY BatchesUnderWay DEF Base, Batch
  <2> QED BY <2>1, TimesAreNaturals
<1>6. slot'[a] = batch[b].start /\ \A o \in Agents \ {a} : slot'[o] = slot[o]
  BY <1>1 DEF Base, TypeOK
<1>7. OneAtAll' /\ NewHasNone'
  BY <1>1, <1>2, <1>3 DEF OneAtAll, NewHasNone
<1>8. Timely'
  BY <1>1, <1>2, <1>3, <1>4, <1>5, <1>6 DEF Timely
<1>9. Executing(a)' /\ \A o \in Agents : ~ Executing(o)
  BY <1>1, <1>3, <1>4 DEF Executing
<1>10. \A r \in Runners : Current(r)' = Current(r)
  BY <1>1, <1>3, <1>4 DEF Current
<1>11. ASSUME NEW o \in Agents \ {a}, slot[o] # None, o \notin unsaved
       PROVE  /\ \A r \in Runners : Current(r)' => SpacedFrom(runner'[r].agents, o, slot'[o])
              /\ batch'[b].map # None /\ o \in batch'[b].left =>
                    SpacedFrom(batch'[b].map, o, slot'[o])
  BY <1>1, <1>2, <1>3, <1>6, <1>9, <1>10, <1>11 DEF Apart
<1>12. Apart'
  BY <1>1, <1>3, <1>4, <1>6, <1>9, <1>11 DEF Apart
<1> QED BY <1>7, <1>8, <1>12

LEMMA ExecuteEndsSpaces ==
    ASSUME Base, Base', Exclusive, Spacing, NEW b \in UnderWay, ExecuteEnds(b)
    PROVE  Spacing'
<1> SUFFICES ASSUME interrupted' = {} PROVE (OneAtAll /\ NewHasNone /\ Timely /\ Apart)'
  BY DEF Spacing
<1>1. UNCHANGED <<now, wake, slot, interrupted>>
  BY DEF ExecuteEnds
<1>2. OneAtAll /\ NewHasNone /\ Timely /\ Apart
  BY <1>1 DEF Spacing
<1>3. PICK a \in Agents, r \in Runners : a = batch[b].agent /\ r = batch[b].by
  BY BatchesUnderWay, ExecuteEndsEffect DEF Base
<1>4. /\ RunnersKept /\ UnderWay' = UnderWay /\ batch[b].at = "executing"
      /\ batch'[b].by = r /\ batch'[b].at = "visiting" /\ batch'[b].start = batch[b].start
      /\ batch'[b].left = batch[b].left \ {a}
      /\ \A q \in Runners \ {r} : runner'[q] = runner[q]
      /\ \/ /\ batch[b].map = None /\ batch'[b].map = None /\ unsaved' = unsaved \ {a}
            /\ a \in Scheduled(runner[r].agents)
            /\ runner'[r].agents = Advance(runner[r].agents, a, batch[b].start)
         \/ /\ batch[b].map # None /\ unsaved' = unsaved \cup {a}
            /\ UNCHANGED runner
            /\ batch[b].map \in Schedules /\ a \in Scheduled(batch[b].map)
            /\ batch'[b].map = Advance(batch[b].map, a, batch[b].start)
  BY <1>3, ExecuteEndsEffect
<1>5. UnderWay = {b}
  BY <1>2 DEF OneAtAll
<1>6. OneAtAll'
  BY <1>2, <1>4 DEF OneAtAll
<1>7. NewHasNone'
  <2>1. runner[r].at # "new"
    BY <1>3 DEF Base, RunsShaped
  <2> QED BY <1>2, <1>4, <2>1 DEF NewHasNone, RunnersKept
<1>8. Timely'
  BY <1>1, <1>2, <1>4, <1>5 DEF Timely
<1>9. \A q \in Runners : Current(q) => q = r
  BY <1>1, <1>3, CurrentIsOwner
<1>10. \A q \in Runners : Current(q)' = Current(q)
  BY <1>1, <1>3, <1>4, <1>5 DEF Current
<1>11. Current(r)
  BY <1>3 DEF Current
<1>12. \A o \in Agents \ {a} : ~ Executing(o)
  BY <1>3, <1>5 DEF Executing
<1>13. ASSUME NEW o \in Agents, slot[o] # None, o \notin unsaved'
       PROVE  /\ SpacedFrom(runner'[r].agents, o, slot[o])
              /\ batch'[b].map # None /\ o \in batch'[b].left =>
                    SpacedFrom(batch'[b].map, o, slot[o])
  <2>1. slot[o] \in Time /\ batch[b].start \in Time /\ slot[o] <= batch[b].start
    <3>1. slot[o] \in Time
      BY <1>13 DEF Base, TypeOK
    <3>2. batch[b].start \in Time
      BY BatchesUnderWay DEF Base, Batch
    <3> QED BY <1>2, <1>4, <1>13, <3>1, <3>2 DEF Timely
  <2>2. o # a => /\ SpacedFrom(runner[r].agents, o, slot[o])
                 /\ batch[b].map # None /\ o \in batch[b].left =>
                       SpacedFrom(batch[b].map, o, slot[o])
    BY <1>2, <1>4, <1>11, <1>12, <1>13 DEF Apart
  <2>3. CASE batch[b].map = None
    <3>1. PICK agents \in Schedules : agents = runner[r].agents
      BY RunnersOK DEF Base
    <3>2. a \in Scheduled(agents) /\ runner'[r].agents = Advance(agents, a, batch[b].start)
          /\ batch'[b].map = None
      BY <1>4, <2>3, <3>1
    <3>3. CASE o = a
      BY <2>1, <3>2, <3>3, AdvancedSpaced DEF Scheduled
    <3>4. CASE o # a
      <4>1. runner'[r].agents[o] = runner[r].agents[o]
        BY <2>1, <3>1, <3>2, <3>4, AdvanceType DEF Scheduled
      <4> QED BY <2>2, <3>2, <3>4, <4>1 DEF SpacedFrom
    <3> QED BY <3>2, <3>3, <3>4
  <2>4. CASE batch[b].map # None
    <3>1. PICK agents \in Schedules : agents = batch[b].map
      BY <1>4, <2>4
    <3>2. /\ a \in Scheduled(agents) /\ UNCHANGED runner /\ o # a
          /\ batch'[b].map = Advance(agents, a, batch[b].start)
      BY <1>4, <1>13, <2>4, <3>1
    <3>3. batch'[b].map[o] = agents[o]
      BY <2>1, <3>2, AdvanceType DEF Scheduled
    <3> QED BY <1>4, <2>2, <2>4, <3>1, <3>2, <3>3 DEF SpacedFrom
  <2> QED BY <2>3, <2>4
<1>14. Apart'
  BY <1>1, <1>4, <1>5, <1>9, <1>10, <1>13 DEF Apart
<1> QED BY <1>6, <1>7, <1>8, <1>14

LEMMA LaneBusySpaces ==
    ASSUME Base, Base', Exclusive, Spacing, NEW b \in UnderWay, NEW a \in Agents, LaneBusy(b, a)
    PROVE  Spacing'
<1> SUFFICES ASSUME interrupted' = {} PROVE (OneAtAll /\ NewHasNone /\ Timely /\ Apart)'
  BY DEF Spacing
<1>1. UNCHANGED <<now, slot, unsaved, interrupted>>
  BY DEF LaneBusy, history
<1>2. OneAtAll /\ NewHasNone /\ Timely /\ Apart
  BY <1>1 DEF Spacing
<1>3. PICK r \in Runners : r = batch[b].by
  BY BatchesUnderWay DEF Base
<1>4. /\ RunnersKept /\ UnderWay' = UnderWay /\ batch[b].at = "visiting"
      /\ batch'[b].by = r /\ batch'[b].at = "idle" /\ wake'.handler = wake.handler
      /\ \A q \in Runners \ {r} : runner'[q] = runner[q]
      /\ \/ runner'[r].agents = runner[r].agents
         \/ /\ a \in Scheduled(runner[r].agents)
            /\ runner'[r].agents = Advance(runner[r].agents, a, batch[b].start)
  BY <1>3, LaneBusyEffect
<1>5. UnderWay = {b}
  BY <1>2 DEF OneAtAll
<1>6. batch'[b].map = None
  BY <1>4 DEF Base, RunsShaped, Shaped
<1>7. OneAtAll'
  BY <1>2, <1>4 DEF OneAtAll
<1>8. NewHasNone'
  <2>1. runner[r].at # "new"
    BY <1>3 DEF Base, RunsShaped
  <2> QED BY <1>2, <1>4, <2>1 DEF NewHasNone, RunnersKept
<1>9. Timely'
  BY <1>1, <1>2, <1>4, <1>5 DEF Timely
<1>10. \A q \in Runners : Current(q) => q = r
  BY <1>1, <1>3, CurrentIsOwner
<1>11. \A q \in Runners : Current(q)' = Current(q)
  BY <1>3, <1>4, <1>5 DEF Current
<1>12. Current(r) /\ \A o \in Agents : ~ Executing(o)
  BY <1>3, <1>4, <1>5 DEF Current, Executing
<1>13. ASSUME NEW o \in Agents, slot[o] # None, o \notin unsaved
       PROVE  SpacedFrom(runner'[r].agents, o, slot[o])
  <2>1. slot[o] \in Time /\ batch[b].start \in Time /\ slot[o] <= batch[b].start
    <3>1. slot[o] \in Time
      BY <1>13 DEF Base, TypeOK
    <3>2. batch[b].start \in Time
      BY BatchesUnderWay DEF Base, Batch
    <3> QED BY <1>2, <1>4, <1>13, <3>1, <3>2 DEF Timely
  <2>2. PICK agents \in Schedules : agents = runner[r].agents
    BY RunnersOK DEF Base
  <2>3. SpacedFrom(agents, o, slot[o])
    BY <1>2, <1>12, <1>13, <2>2 DEF Apart
  <2>4. CASE runner'[r].agents = agents
    BY <2>3, <2>4
  <2>5. CASE a \in Scheduled(agents) /\ runner'[r].agents = Advance(agents, a, batch[b].start)
    <3>1. CASE o = a
      BY <2>1, <2>5, <3>1, AdvancedSpaced DEF Scheduled
    <3>2. CASE o # a
      <4>1. runner'[r].agents[o] = agents[o]
        BY <2>1, <2>5, <3>2, AdvanceType DEF Scheduled
      <4> QED BY <2>3, <4>1 DEF SpacedFrom
    <3> QED BY <3>1, <3>2
  <2> QED BY <1>4, <2>2, <2>4, <2>5
<1>14. Apart'
  BY <1>1, <1>4, <1>5, <1>6, <1>10, <1>11, <1>13 DEF Apart
<1> QED BY <1>7, <1>8, <1>9, <1>14

LEMMA BatchEndsSpaces ==
    ASSUME Base, Base', Spacing, NEW b \in UnderWay, BatchEnds(b)
    PROVE  Spacing'
<1>1. UNCHANGED <<now, runner, slot, unsaved, interrupted>> /\ batch[b].at = "idle"
  BY DEF BatchEnds, history
<1>2. /\ UnderWay' = UnderWay \ {b} /\ \A c \in Batches \ {b} : batch'[c] = batch[c]
      /\ wake'.handler = wake.handler
  BY BatchEndsEffect
<1>3. \A c \in UnderWay' : c \in UnderWay /\ batch'[c] = batch[c]
  BY <1>2, BatchesUnderWay DEF Base
<1>4. \A c \in UnderWay : batch[c].at = "executing" =>
         c \in UnderWay' /\ batch'[c].at = "executing" /\ batch'[c].agent = batch[c].agent
  BY <1>1, <1>2, <1>3
<1>5. now' >= now
  <2>1. now \in Time
    BY DEF Base, TypeOK
  <2> QED BY <1>1, <2>1, TimesAreNaturals
<1> QED BY <1>1, <1>2, <1>3, <1>4, <1>5, SpacingStays

LEMMA NextSpaces == ASSUME Base, Exclusive, Spacing, [Next]_vars PROVE Spacing'
<1>1. Base'
  BY NextBase
<1>2. now \in Nat
  <2>1. now \in Time
    BY DEF Base, TypeOK
  <2> QED BY <2>1, TimesAreNaturals
<1>3. ASSUME UNCHANGED <<batch, slot, unsaved, interrupted>>, now' >= now,
             wake'.handler \in {wake.handler, None},
             \A r \in Runners : /\ runner'[r].agents = runner[r].agents
                                /\ runner'[r].at = "new" => runner[r].at = "new"
      PROVE  Spacing'
  <2>1. UnderWay' = UnderWay
    BY <1>3 DEF UnderWay
  <2> QED BY <1>1, <1>3, <2>1, SpacingStays
<1>4. CASE ClockTicks \/ SetHeartbeatsEnabled \/ UNCHANGED vars
  <2>1. UNCHANGED <<wake, runner, batch, slot, unsaved, interrupted>> /\ now' >= now
    BY <1>2, <1>4 DEF ClockTicks, SetHeartbeatsEnabled, vars, history
  <2> QED BY <1>3, <2>1
<1>5. CASE WakeTimerFires
  BY <1>1, <1>5, WakeTimerFiresSpaces
<1>6. ASSUME NEW k \in Targets, NEW reason \in Asked, Request(k, reason) PROVE Spacing'
  <2>1. wake'.handler = wake.handler
    BY <1>6, ReasonsRanked, RequestEffect DEF Request, Base
  <2>2. UNCHANGED <<now, runner, batch, slot, unsaved, interrupted>>
    BY <1>6 DEF Request
  <2> QED BY <1>2, <1>3, <2>1, <2>2
<1>7. ASSUME NEW r \in Runners, IntervalTimerFires(r) PROVE Spacing'
  <2>1. wake'.handler = wake.handler
    BY <1>7, ReasonsRanked, TargetsAssumption, RequestEffect DEF IntervalTimerFires, Base
  <2>2. UNCHANGED <<now, batch, slot, unsaved, interrupted>>
    BY <1>7 DEF IntervalTimerFires
  <2>3. \A q \in Runners : /\ runner'[q].agents = runner[q].agents
                           /\ runner'[q].at = runner[q].at
    BY <1>7 DEF IntervalTimerFires, Base, TypeOK, Runner
  <2> QED BY <1>2, <1>3, <2>1, <2>2, <2>3
<1>8. ASSUME NEW r \in Runners, StopRunner(r) PROVE Spacing'
  <2>1. UNCHANGED <<now, batch, slot, unsaved, interrupted>>
    BY <1>8 DEF StopRunner, history
  <2>2. wake'.handler = None
    BY <1>8, StopRunnerEffect
  <2>3. \A q \in Runners : /\ runner'[q].agents = runner[q].agents
                           /\ runner'[q].at = "new" => runner[q].at = "new"
    BY <1>8, StopRunnerEffect
  <2> QED BY <1>2, <1>3, <2>1, <2>2, <2>3
<1>9. ASSUME NEW r \in Runners, NEW config \in Configs,
             StartRunner(r, config) \/ UpdateConfig(r, config)
      PROVE  Spacing'
  BY <1>1, <1>9, StartRunnerSpaces, UpdateConfigSpaces
<1>10. ASSUME NEW b \in UnderWay, NEW k \in Targets, TurnedDown(b, k) PROVE Spacing'
  <2>1. UNCHANGED <<now, wake, slot, unsaved, interrupted>>
    BY <1>10 DEF TurnedDown
  <2>2. \A q \in Runners : runner'[q].agents = runner[q].agents /\ runner'[q].at = runner[q].at
    BY <1>10, TurnedDownEffect DEF RunnersKept
  <2>3. /\ UnderWay' = UnderWay /\ \A c \in Batches \ {b} : batch'[c] = batch[c]
        /\ batch[b].at = "idle" /\ batch'[b].by = batch[b].by /\ batch'[b].at = "idle"
    BY <1>10, TurnedDownEffect
  <2> QED BY <1>1, <2>1, <2>2, <2>3, BatchStepSpaces
<1>11. ASSUME NEW b \in UnderWay, NEW a \in Agents, Disabled(b, a) PROVE Spacing'
  <2>1. UNCHANGED <<now, wake, runner, slot, unsaved, interrupted>>
    BY <1>11 DEF Disabled, history
  <2>2. /\ UnderWay' = UnderWay /\ \A c \in Batches \ {b} : batch'[c] = batch[c]
        /\ batch[b].at = "visiting" /\ batch'[b].by = batch[b].by
        /\ batch'[b].at = "visiting" /\ batch'[b].start = batch[b].start
        /\ batch'[b].map = batch[b].map /\ batch'[b].left \subseteq batch[b].left
    BY <1>11, DisabledEffect
  <2> QED BY <1>1, <2>1, <2>2, BatchStepSpaces
<1>12. ASSUME NEW b \in UnderWay, EndRun(b) PROVE Spacing'
  <2>1. UNCHANGED <<now, wake, slot, unsaved, interrupted>>
    BY <1>12 DEF EndRun
  <2>2. \A q \in Runners : runner'[q].agents = runner[q].agents /\ runner'[q].at = runner[q].at
    BY <1>12, EndRunEffect DEF RunnersKept
  <2>3. /\ UnderWay' = UnderWay /\ \A c \in Batches \ {b} : batch'[c] = batch[c]
        /\ batch[b].at = "visiting" /\ batch'[b].by = batch[b].by /\ batch'[b].at = "idle"
    BY <1>12, EndRunEffect
  <2> QED BY <1>1, <2>1, <2>2, <2>3, BatchStepSpaces
<1>13. ASSUME NEW b \in UnderWay, NEW k \in Targets, BeginRun(b, k) PROVE Spacing'
  BY <1>1, <1>13, BeginRunSpaces
<1>14. ASSUME NEW b \in UnderWay, NEW a \in Agents, Execute(b, a) \/ LaneBusy(b, a)
       PROVE  Spacing'
  BY <1>1, <1>14, ExecuteSpaces, LaneBusySpaces
<1>15. ASSUME NEW b \in UnderWay, ExecuteEnds(b) \/ BatchEnds(b) PROVE Spacing'
  BY <1>1, <1>15, ExecuteEndsSpaces, BatchEndsSpaces
<1> QED BY <1>4, <1>5, <1>6, <1>7, <1>8, <1>9, <1>10, <1>11, <1>12, <1>13, <1>14, <1>15
        DEF Next

LEMMA SpacingCorrect == Spec => []Spacing
<1>1. Init => Spacing
  BY DEF Init, Spacing, OneAtAll, NewHasNone, Timely, Apart, UnderWay
<1>2. Base /\ Exclusive /\ Spacing /\ [Next]_vars => Spacing'
  BY NextSpaces
<1> QED BY BaseCorrect, ExclusiveCorrect, <1>1, <1>2, PTL DEF Spec

\* The step by which a batch comes to execute an agent.
LEMMA OnlyExecuteExecutes ==
    ASSUME Base, [Next]_vars, NEW b \in UnderWay,
           batch[b].at = "visiting", batch'[b] # None, batch'[b].at = "executing"
    PROVE  \E a \in Agents : Execute(b, a)
<1>1. CASE UNCHANGED batch
  BY <1>1
<1>2. CASE WakeTimerFires
  <2>1. \A c \in Batches \ UnderWay, x \in Batch : batch' = [batch EXCEPT ![c] = x] =>
           batch'[b] = batch[b]
    BY BatchesUnderWay, BatchUpdated DEF Base
  <2> QED BY <1>1, <1>2, <2>1, WakeTimerFiresEffect DEF Base
<1>3. ASSUME NEW r \in Runners, NEW config \in Configs, UpdateConfig(r, config) PROVE FALSE
  BY <1>3, UpdateConfigEffect
<1>4. ASSUME NEW c \in UnderWay, c # b, \A d \in Batches \ {c} : batch'[d] = batch[d]
      PROVE  FALSE
  BY <1>4, BatchesUnderWay DEF Base
<1>5. ASSUME NEW c \in UnderWay, NEW k \in Targets, TurnedDown(c, k) \/ BeginRun(c, k)
      PROVE  FALSE
  BY <1>4, <1>5, TurnedDownEffect, BeginRunEffect
<1>6. ASSUME NEW c \in UnderWay, NEW a \in Agents, Execute(c, a) PROVE c = b
  BY <1>4, <1>6, ExecuteEffect
<1>7. ASSUME NEW c \in UnderWay, NEW a \in Agents, Disabled(c, a) PROVE FALSE
  BY <1>4, <1>7, DisabledEffect
<1>8. ASSUME NEW c \in UnderWay, NEW a \in Agents, LaneBusy(c, a) PROVE FALSE
  BY <1>4, <1>8, LaneBusyEffect
<1>9. ASSUME NEW c \in UnderWay, ExecuteEnds(c) \/ EndRun(c) PROVE FALSE
  BY <1>4, <1>9, ExecuteEndsEffect, EndRunEffect
<1>10. ASSUME NEW c \in UnderWay, BatchEnds(c) PROVE FALSE
  <2>1. c = b
    BY <1>4, <1>10, BatchEndsEffect
  <2> QED BY <1>10, <2>1 DEF BatchEnds
<1> QED BY <1>1, <1>2, <1>3, <1>5, <1>6, <1>7, <1>8, <1>9, <1>10
        DEF Next, ClockTicks, SetHeartbeatsEnabled, Request, IntervalTimerFires, StopRunner,
            StartRunner, vars

\* Two interval runs that execute an agent begin an interval apart, over wakes, busy
\* lanes, retries and new runners, unless the configuration changed during the earlier one
\* or a restart interrupted a batch (advanceAgentSchedule and resolveNextDue).
THEOREM IntervalRunsAreApart == Spec => OncePerInterval
<1> DEFINE Step ==
        \A b \in UnderWay :
          /\ batch[b].at = "visiting" /\ batch'[b] # None /\ batch'[b].at = "executing"
          /\ batch[b].key = All /\ batch[b].reason = "interval" /\ interrupted = {}
          => LET a == batch'[b].agent
             IN  \/ slot[a] = None \/ a \in unsaved
                 \/ batch[b].start >= slot[a] + ScheduleOf(b)[a].interval
<1>1. ASSUME Base, Exclusive, Spacing, [Next]_vars PROVE Step
  <2> SUFFICES ASSUME NEW b \in UnderWay,
                      batch[b].at = "visiting", batch'[b] # None, batch'[b].at = "executing",
                      batch[b].key = All, batch[b].reason = "interval", interrupted = {}
               PROVE  LET a == batch'[b].agent
                      IN  \/ slot[a] = None \/ a \in unsaved
                          \/ batch[b].start >= slot[a] + ScheduleOf(b)[a].interval
    OBVIOUS
  <2>1. PICK a \in Agents : Execute(b, a)
    BY <1>1, OnlyExecuteExecutes
  <2>2. batch'[b].agent = a
    BY <1>1, <2>1, ExecuteEffect
  <2>3. a \in batch[b].left /\ Due(b, a)
    BY <2>1 DEF Execute
  <2>4. PICK agents \in Schedules : agents = ScheduleOf(b) /\ agents[a] # None
    <3>1. /\ batch[b] \in Batch /\ runner[batch[b].by].agents \in Schedules
          /\ Shaped(batch[b], runner[batch[b].by].agents)
      BY <1>1, RunOf
    <3>2. ScheduleOf(b) \in Schedules
      BY <3>1 DEF ScheduleOf, Batch
    <3>3. ScheduleOf(b)[a] # None
      BY <2>3, <3>1 DEF ScheduleOf, Shaped, Scheduled
    <3> QED BY <3>2, <3>3
  <2>5. batch[b].start >= agents[a].due
    BY <2>3, <2>4 DEF Due
  <2>6. ASSUME slot[a] # None, a \notin unsaved
        PROVE  batch[b].start >= slot[a] + agents[a].interval
    <3>1. Apart /\ OneAtAll
      BY <1>1 DEF Spacing
    <3>2. ~ Executing(a)
      BY <3>1 DEF OneAtAll, Executing
    <3>3. batch[b].by \in Runners /\ Current(batch[b].by)
      BY <1>1, RunOf DEF Current
    <3>4. SpacedFrom(agents, a, slot[a])
      BY <2>3, <2>4, <2>6, <3>1, <3>2, <3>3 DEF Apart, ScheduleOf
    <3>5. agents[a].due >= slot[a] + agents[a].interval
      BY <2>4, <3>4 DEF SpacedFrom
    <3>6. batch[b].start \in Nat /\ slot[a] \in Nat
      <4>1. batch[b].start \in Time /\ slot[a] \in Time
        BY <1>1, <2>6, RunOf DEF Base, TypeOK, Batch
      <4> QED BY <4>1, TimesAreNaturals
    <3>7. agents[a].due \in Nat /\ agents[a].interval \in Nat
      BY <2>4, TimesAreNaturals DEF Schedules, AgentState
    <3> QED BY <2>5, <3>5, <3>6, <3>7
  <2> QED BY <2>2, <2>4, <2>6
<1>2. Base /\ Exclusive /\ Spacing /\ [Next]_vars => [Step]_vars
  BY <1>1
<1> QED BY BaseCorrect, ExclusiveCorrect, SpacingCorrect, <1>2, PTL DEF Spec, OncePerInterval

=============================================================================
