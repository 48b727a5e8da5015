------------------------ MODULE FollowupQueueProofs ------------------------
(***************************************************************************)
(* Proofs about FollowupQueue for every set of messages, routes, settings  *)
(* and queue objects, and every number of failures and clears.             *)
(*                                                                         *)
(* All steps but the start of a turn end in Schedule, Finish or Continue,  *)
(* so what these three do to the objects, the drains and the key is shown  *)
(* once.  The invariants then follow the messages: a message is in the     *)
(* queue of one object at most, and, as long as nothing is cleared or      *)
(* overflows, the queue is what is left of the arrivals.                   *)
(***************************************************************************)
EXTENDS FollowupQueue, FiniteSetTheorems, TLAPS

-----------------------------------------------------------------------------
(* The records *)

\* beginQueueDrain's flag and the drain it stands for.
Agree(q, d) == q.draining <=> d.at # "idle"

\* What an object holds, apart from the flag.
SameContent(q, r) ==
    q.items = r.items /\ q.droppedCount = r.droppedCount /\ q.cap = r.cap

LEMMA LastIndex ==
    ASSUME NEW l \in Nat, NEW x \in 1 .. l + 1
    PROVE  x \in 1 .. l \/ x = l + 1
  OBVIOUS

LEMMA DrainTyped ==
    ASSUME NEW d \in DrainState, NEW b \in BOOLEAN
    PROVE  /\ [d EXCEPT !.at = "debounce"] \in DrainState
           /\ [d EXCEPT !.at = "debounce"].at = "debounce"
           /\ [d EXCEPT !.at = "collect"] \in DrainState
           /\ [d EXCEPT !.at = "collect"].at = "collect"
           /\ [d EXCEPT !.at = "debounce", !.force = b] \in DrainState
           /\ [d EXCEPT !.at = "debounce", !.force = b].at = "debounce"
  BY DEF DrainState

LEMMA IdleTyped ==
    /\ Idle \in DrainState
    /\ Idle.at = "idle"
    /\ [Idle EXCEPT !.at = "debounce"] \in DrainState
    /\ [Idle EXCEPT !.at = "debounce"].at = "debounce"
<1>1. Idle \in DrainState /\ Idle.at = "idle"
  BY DEF Idle, DrainState
<1> QED
  BY <1>1, DrainTyped

LEMMA EmptyQueueTyped ==
    ASSUME NEW st \in Settings
    PROVE  /\ EmptyQueue(st) \in QueueState
           /\ EmptyQueue(st).items = <<>>
           /\ EmptyQueue(st).droppedCount = 0
           /\ EmptyQueue(st).cap = st.cap
           /\ EmptyQueue(st).draining = FALSE
<1>1. /\ st.mode \in {"collect", "followup"} /\ st.cap \in Nat \ {0}
      /\ st.dropPolicy \in {"old", "new", "summarize"}
  BY SettingsAssumption
<1> QED
  BY <1>1 DEF EmptyQueue, QueueState

LEMMA FlagTyped ==
    ASSUME NEW q \in QueueState, NEW b \in BOOLEAN
    PROVE  /\ [q EXCEPT !.draining = b] \in QueueState
           /\ [q EXCEPT !.draining = b].draining = b
           /\ SameContent([q EXCEPT !.draining = b], q)
           /\ HasWork([q EXCEPT !.draining = b]) <=> HasWork(q)
  BY DEF QueueState, SameContent, HasWork

\* applyQueueRuntimeSettings leaves what is queued alone.
LEMMA ConfiguredTyped ==
    ASSUME NEW q \in QueueState, NEW st \in Settings
    PROVE  /\ Configured(q, st) \in QueueState
           /\ Configured(q, st).items = q.items
           /\ Configured(q, st).droppedCount = q.droppedCount
           /\ Configured(q, st).cap = st.cap
           /\ Configured(q, st).draining = q.draining
<1>1. /\ st.mode \in {"collect", "followup"} /\ st.cap \in Nat \ {0}
      /\ st.dropPolicy \in {"old", "new", "summarize"}
  BY SettingsAssumption
<1> QED
  BY <1>1 DEF Configured, QueueState

\* The drop policy makes room for one message.
LEMMA DropCountInQueue ==
    ASSUME NEW q \in QueueState
    PROVE  /\ DropCount(q) \in 0 .. Len(q.items)
           /\ ~ Overflows(q) => DropCount(q) = 0
<1>1. Len(q.items) \in Nat /\ q.cap \in Nat \ {0}
  BY DEF QueueState
<1> QED
  BY <1>1 DEF DropCount, Overflows

\* The queue after a push: what is left of it and then the message.
LEMMA PushedTyped ==
    ASSUME NEW q \in QueueState, NEW m \in Msgs
    PROVE  /\ Pushed(q, m) \in QueueState
           /\ Pushed(q, m).items = Append(SubSeq(q.items, DropCount(q) + 1, Len(q.items)), m)
           /\ Pushed(q, m).cap = q.cap
           /\ Pushed(q, m).draining = q.draining
           /\ DropCount(q) = 0 => Pushed(q, m).droppedCount = q.droppedCount
<1> DEFINE left == Append(SubSeq(q.items, DropCount(q) + 1, Len(q.items)), m)
<1>0. /\ q.items \in Seq(Msgs) /\ q.droppedCount \in Nat
      /\ DropCount(q) \in Nat
  BY DropCountInQueue DEF QueueState
<1>1. left \in Seq(Msgs)
  BY <1>0, DropCountInQueue
<1>2. PICK d : d = IF q.dropPolicy = "summarize" THEN q.droppedCount + DropCount(q)
                   ELSE q.droppedCount
  OBVIOUS
<1>3. d \in Nat /\ (DropCount(q) = 0 => d = q.droppedCount)
  BY <1>0, <1>2
<1>4. Pushed(q, m) = [q EXCEPT !.items = left, !.droppedCount = d]
  BY <1>2 DEF Pushed
<1> HIDE DEF left
<1>5. /\ Pushed(q, m) \in QueueState
      /\ Pushed(q, m).items = left /\ Pushed(q, m).cap = q.cap
      /\ Pushed(q, m).draining = q.draining
      /\ Pushed(q, m).droppedCount = d
  BY <1>1, <1>3, <1>4 DEF QueueState
<1> QED
  BY <1>3, <1>5 DEF left

-----------------------------------------------------------------------------
(* Scheduling, finishing and going on *)

\* Objects and drains that fit together.
Tidy(qs, ds) ==
    /\ qs \in [Queues -> QueueState]
    /\ ds \in [Queues -> DrainState]
    /\ \A o \in Queues : Agree(qs[o], ds[o])

\* What scheduleFollowupDrain does to the key reg, the objects qs and the drains ds:
\* it starts a drain of the key's object, or deletes the key when there is no work.
Scheduled(reg, qs, ds) ==
    /\ Tidy(queue', drain')
    /\ \A o \in Queues : SameContent(queue'[o], qs[o])
    /\ \A o \in Queues : \/ drain'[o] = ds[o]
                         \/ o = registry' /\ ds[o].at = "idle" /\ drain'[o].at = "debounce"
    /\ \/ registry' = reg
       \/ registry' = None /\ reg \in Queues /\ ~ HasWork(qs[reg]) /\ ds[reg].at = "idle"

LEMMA ScheduleDoes ==
    ASSUME NEW reg \in Queues \cup {None}, NEW qs, NEW ds,
           Tidy(qs, ds), Schedule(reg, qs, ds)
    PROVE  Scheduled(reg, qs, ds)
<1>0. /\ qs \in [Queues -> QueueState]
      /\ ds \in [Queues -> DrainState]
      /\ \A o \in Queues : qs[o].draining <=> ds[o].at # "idle"
  BY DEF Tidy, Agree
<1>1. CASE registry' = reg /\ queue' = qs /\ drain' = ds
  BY <1>1 DEF Scheduled, SameContent
<1>2. CASE ~ (reg = None \/ (reg # None /\ qs[reg].draining))
  <2>1. reg \in Queues /\ ~ qs[reg].draining /\ qs[reg] \in QueueState
    BY <1>0, <1>2
  <2>2. ds[reg].at = "idle"
    BY <1>0, <2>1
  <2>3. CASE HasWork(qs[reg])
    <3>1. /\ registry' = reg
          /\ queue' = [qs EXCEPT ![reg].draining = TRUE]
          /\ drain' = [ds EXCEPT ![reg] = [Idle EXCEPT !.at = "debounce"]]
      BY <1>2, <2>3 DEF Schedule
    <3> DEFINE q == [qs[reg] EXCEPT !.draining = TRUE]
    <3>2. q \in QueueState /\ q.draining = TRUE /\ SameContent(q, qs[reg])
      BY <2>1, FlagTyped
    <3>3. queue' = [qs EXCEPT ![reg] = q]
      BY <3>1
    <3>4. PICK d : d = [Idle EXCEPT !.at = "debounce"]
      OBVIOUS
    <3>5. d \in DrainState /\ d.at = "debounce"
      BY <3>4, IdleTyped
    <3>6. drain' = [ds EXCEPT ![reg] = d]
      BY <3>1, <3>4
    <3> HIDE DEF q
    <3>7. queue' \in [Queues -> QueueState] /\ drain' \in [Queues -> DrainState]
      BY <1>0, <2>1, <3>2, <3>3, <3>5, <3>6
    <3>8. \A o \in Queues :
             /\ queue'[o] = IF o = reg THEN q ELSE qs[o]
             /\ drain'[o] = IF o = reg THEN d ELSE ds[o]
      BY <1>0, <2>1, <3>3, <3>6
    <3>9. \A o \in Queues : Agree(queue'[o], drain'[o]) /\ SameContent(queue'[o], qs[o])
      BY <1>0, <3>2, <3>5, <3>8 DEF Agree, SameContent
    <3> QED
      BY <2>2, <3>1, <3>5, <3>7, <3>8, <3>9 DEF Scheduled, Tidy
  <2>4. CASE ~ HasWork(qs[reg])
    <3>1. registry' = None /\ queue' = qs /\ drain' = ds
      BY <1>2, <2>4 DEF Schedule
    <3> QED
      BY <2>1, <2>2, <2>4, <3>1 DEF Scheduled, SameContent
  <2> QED
    BY <2>3, <2>4
<1> QED
  BY <1>1, <1>2 DEF Schedule

\* What the end of a pass does to the drain of o that it leaves with objects qs: the
\* drain goes on or is over, perhaps one of the key's object begins, and the key is
\* only deleted where there is no work left.
Returned(o, qs) ==
    /\ Tidy(queue', drain')
    /\ \A p \in Queues : SameContent(queue'[p], qs[p])
    /\ drain'[o].at \in {"idle", "debounce"}
    /\ drain'[o].at # "idle" => registry' = registry
    /\ \A p \in Queues \ {o} : \/ drain'[p] = drain[p]
                               \/ p = registry /\ registry' = p /\ drain'[p].at = "debounce"
    /\ \/ registry' = registry
       \/ registry' = None /\ ~ HasWork(qs[o])
       \/ registry' = None /\ registry \in Queues \ {o} /\ ~ HasWork(qs[registry])

LEMMA FinishDoes ==
    ASSUME registry \in Queues \cup {None}, drain \in [Queues -> DrainState],
           NEW o \in Queues, NEW qs \in [Queues -> QueueState],
           \A p \in Queues \ {o} : Agree(qs[p], drain[p]),
           Finish(o, qs)
    PROVE  Returned(o, qs)
<1> DEFINE q == [qs[o] EXCEPT !.draining = FALSE]
<1>1. PICK released : released = [qs EXCEPT ![o] = q]
  OBVIOUS
<1>2. PICK ended : ended = [drain EXCEPT ![o] = Idle]
  OBVIOUS
<1>3. /\ q \in QueueState /\ q.draining = FALSE /\ SameContent(q, qs[o])
      /\ HasWork(q) <=> HasWork(qs[o])
  BY FlagTyped
<1>4. IF HasWork(released[o])
      THEN Schedule(registry, released, ended)
      ELSE registry' = None /\ queue' = released /\ drain' = ended
  BY <1>1, <1>2 DEF Finish
<1> HIDE DEF q
<1>5. /\ released \in [Queues -> QueueState]
      /\ released[o] = q
      /\ \A p \in Queues \ {o} : released[p] = qs[p]
  BY <1>1, <1>3
<1>6. /\ ended \in [Queues -> DrainState]
      /\ ended[o] = Idle
      /\ \A p \in Queues \ {o} : ended[p] = drain[p]
  BY <1>2, IdleTyped
<1>7. Tidy(released, ended)
  <2>1. Agree(released[o], ended[o])
    BY <1>3, <1>5, <1>6, IdleTyped DEF Agree
  <2> QED
    BY <2>1, <1>5, <1>6 DEF Tidy
<1>8. \A p \in Queues : SameContent(released[p], qs[p])
  BY <1>3, <1>5 DEF SameContent
<1>9. Idle.at = "idle"
  BY IdleTyped
<1>10. CASE HasWork(released[o])
  <2>1. Scheduled(registry, released, ended)
    BY <1>4, <1>7, <1>10, ScheduleDoes
  <2>2. \A p \in Queues : HasWork(released[p]) <=> HasWork(qs[p])
    BY <1>8 DEF SameContent, HasWork
  <2>3. /\ Tidy(queue', drain')
        /\ \A p \in Queues : SameContent(queue'[p], qs[p])
    BY <1>8, <2>1 DEF Scheduled, SameContent
  <2>4. /\ drain'[o].at \in {"idle", "debounce"}
        /\ drain'[o].at # "idle" => registry' = registry
    <3>1. CASE drain'[o] = ended[o]
      BY <1>6, <1>9, <3>1
    <3>2. CASE o = registry' /\ drain'[o].at = "debounce"
      <4>1. registry' # None
        BY <3>2, BoundsAssumption
      <4> QED
        BY <2>1, <3>2, <4>1 DEF Scheduled
    <3> QED
      BY <2>1, <3>1, <3>2 DEF Scheduled
  <2>5. ASSUME NEW p \in Queues \ {o}, drain'[p] # drain[p]
        PROVE  p = registry /\ registry' = p /\ drain'[p].at = "debounce"
    <3>1. p = registry' /\ drain'[p].at = "debounce"
      BY <1>6, <2>1, <2>5 DEF Scheduled
    <3>2. registry' # None
      BY <3>1, BoundsAssumption
    <3> QED
      BY <2>1, <3>1, <3>2 DEF Scheduled
  <2>6. \/ registry' = registry
        \/ registry' = None /\ registry \in Queues \ {o} /\ ~ HasWork(qs[registry])
    <3>1. \/ registry' = registry
          \/ registry' = None /\ registry \in Queues /\ ~ HasWork(released[registry])
      BY <2>1 DEF Scheduled
    <3> QED
      BY <1>10, <2>2, <3>1
  <2> QED
    BY <2>3, <2>4, <2>5, <2>6 DEF Returned
<1>11. CASE ~ HasWork(released[o])
  <2>1. registry' = None /\ queue' = released /\ drain' = ended
    BY <1>4, <1>11
  <2>2. ~ HasWork(qs[o])
    BY <1>3, <1>5, <1>11
  <2> QED
    BY <1>6, <1>7, <1>8, <1>9, <2>1, <2>2 DEF Returned
<1> QED
  BY <1>10, <1>11

LEMMA ContinueDoes ==
    ASSUME registry \in Queues \cup {None}, drain \in [Queues -> DrainState],
           NEW o \in Queues, NEW qs \in [Queues -> QueueState],
           \A p \in Queues : Agree(qs[p], drain[p]), drain[o].at # "idle",
           Continue(o, qs)
    PROVE  Returned(o, qs)
<1>1. CASE HasWork(qs[o])
  <2>1. PICK d : d = [Idle EXCEPT !.at = "debounce", !.force = drain[o].force]
    OBVIOUS
  <2>2. drain[o].force \in BOOLEAN
    BY DEF DrainState
  <2>3. d \in DrainState /\ d.at = "debounce"
    BY <2>1, <2>2, IdleTyped, DrainTyped
  <2>4. queue' = qs /\ drain' = [drain EXCEPT ![o] = d] /\ registry' = registry
    BY <1>1, <2>1 DEF Continue
  <2>5. /\ drain' \in [Queues -> DrainState]
        /\ drain'[o] = d
        /\ \A p \in Queues \ {o} : drain'[p] = drain[p]
    BY <2>3, <2>4
  <2>6. Tidy(queue', drain')
    BY <2>3, <2>4, <2>5 DEF Tidy, Agree
  <2>7. \A p \in Queues : SameContent(queue'[p], qs[p])
    BY <2>4 DEF SameContent
  <2> QED
    BY <2>3, <2>4, <2>5, <2>6, <2>7 DEF Returned
<1>2. CASE ~ HasWork(qs[o])
  BY <1>2, FinishDoes DEF Continue
<1> QED
  BY <1>1, <1>2

-----------------------------------------------------------------------------
(* What the steps do *)

\* Objects that were not made yet are empty, and the key's object was made.
Shaped ==
    /\ \A o \in Queues : o > made =>
          queue[o].items = <<>> /\ queue[o].droppedCount = 0 /\ drain[o].at = "idle"
    /\ registry # None => registry <= made

Base == TypeOK /\ Shaped

LEMMA BaseTyped ==
    ASSUME Base
    PROVE  /\ Tidy(queue, drain)
           /\ queue \in [Queues -> QueueState]
           /\ drain \in [Queues -> DrainState]
           /\ registry \in Queues \cup {None}
           /\ fate \in [Msgs -> Fates]
           /\ arrivals \in Seq(Msgs)
           /\ made \in Nat
           /\ Queues \subseteq Nat \ {0}
<1>1. made \in Nat /\ Queues \subseteq Nat \ {0}
  BY BoundsAssumption, FS_CardinalityType DEF Base, TypeOK
<1> QED
  BY <1>1 DEF Base, TypeOK, Tidy, Agree

\* The message m arrives and finds the object o, of which n entries are dropped and
\* which becomes q, for a drain to be scheduled perhaps.
Arrives(m, st, o, q, n, refused) ==
    /\ fate[m] = "new"
    /\ \/ registry = None /\ o = made + 1 /\ made' = made + 1
       \/ registry = o /\ made' = made
    /\ Scheduled(o, [queue EXCEPT ![o] = q], drain)
    /\ q.cap = st.cap
    /\ n <= Len(queue[o].items)
    /\ Len(queue[o].items) < st.cap => n = 0
    /\ n = 0 => q.droppedCount = queue[o].droppedCount
    /\ fate' \in [Msgs -> Fates]
    /\ IF refused
       THEN /\ q.items = queue[o].items
            /\ q.droppedCount = queue[o].droppedCount
            /\ arrivals' = arrivals
            /\ fate' = [fate EXCEPT ![m] = "refused"]
       ELSE /\ q.items = Append(SubSeq(queue[o].items, n + 1, Len(queue[o].items)), m)
            /\ arrivals' = Append(arrivals, m)
            /\ fate'[m] = "queued"
            /\ \A x \in Msgs \ {m} : \/ fate'[x] = fate[x]
                                     \/ n > 0 /\ fate[x] = "queued" /\ fate'[x] = "dropped"
            /\ \A i \in 1 .. n : fate[queue[o].items[i]] = "queued"
                                  => fate'[queue[o].items[i]] = "dropped"
    /\ UNCHANGED <<failures, clears>>

LEMMA EnqueueDoes ==
    ASSUME Base, NEW m \in Msgs, NEW st \in Settings, NEW active \in BOOLEAN,
           Enqueue(m, st, active)
    PROVE  \E o \in Queues, q \in QueueState, n \in Nat, refused \in BOOLEAN :
              Arrives(m, st, o, q, n, refused)
<1>0. /\ Tidy(queue, drain)
      /\ queue \in [Queues -> QueueState]
      /\ drain \in [Queues -> DrainState]
      /\ registry \in Queues \cup {None}
      /\ fate \in [Msgs -> Fates]
      /\ arrivals \in Seq(Msgs)
      /\ made \in Nat
      /\ Queues \subseteq Nat \ {0}
  BY BaseTyped
<1>1. PICK o : o = Target
  OBVIOUS
<1>2. PICK fresh : fresh = IF registry = None THEN EmptyQueue(st)
                           ELSE Configured(queue[registry], st)
  OBVIOUS
<1>3. PICK refused \in BOOLEAN : refused <=> Refuses(fresh, m)
  OBVIOUS
<1>4. PICK known : known = [fresh EXCEPT !.hasRun = @ \/ ~ Redelivered(fresh, m)]
  OBVIOUS
<1>5. PICK q : q = IF refused THEN known ELSE Pushed(known, m)
  OBVIOUS
<1>6. PICK gone : gone = {fresh.items[i] : i \in 1 .. DropCount(fresh)}
  OBVIOUS
<1>7. /\ fate[m] = "new"
      /\ o \in Queues
      /\ made' = IF registry = None THEN made + 1 ELSE made
      /\ fate' = [n \in Msgs |->
                    IF n = m THEN IF refused THEN "refused" ELSE "queued"
                    ELSE IF ~ refused /\ n \in gone /\ fate[n] = "queued" THEN "dropped"
                    ELSE fate[n]]
      /\ arrivals' = IF refused THEN arrivals ELSE Append(arrivals, m)
      /\ SecondLook(active, o, [queue EXCEPT ![o] = q])
      /\ UNCHANGED <<failures, clears>>
  BY <1>1, <1>2, <1>3, <1>4, <1>5, <1>6 DEF Enqueue
<1>8. \/ registry = None /\ o = made + 1 /\ made' = made + 1
      \/ registry # None /\ registry = o /\ made' = made
  BY <1>1, <1>7 DEF Target
<1>9. /\ fresh \in QueueState
      /\ fresh.items = queue[o].items
      /\ fresh.droppedCount = queue[o].droppedCount
      /\ fresh.cap = st.cap
      /\ fresh.draining = queue[o].draining
  <2>1. CASE registry = None
    <3>1. /\ fresh \in QueueState /\ fresh.items = <<>> /\ fresh.droppedCount = 0
          /\ fresh.cap = st.cap /\ fresh.draining = FALSE
      BY <1>2, <2>1, EmptyQueueTyped
    <3>2. o > made
      BY <1>0, <1>8, <2>1, BoundsAssumption
    <3>3. queue[o].items = <<>> /\ queue[o].droppedCount = 0 /\ drain[o].at = "idle"
      BY <1>7, <3>2 DEF Base, Shaped
    <3>4. queue[o].draining = FALSE
      BY <1>0, <1>7, <3>3 DEF Tidy, Agree, QueueState
    <3> QED
      BY <3>1, <3>3, <3>4
  <2>2. CASE registry # None
    <3>1. registry = o /\ queue[o] \in QueueState
      BY <1>0, <1>7, <1>8, <2>2
    <3> QED
      BY <1>2, <2>2, <3>1, ConfiguredTyped
  <2> QED
    BY <2>1, <2>2
<1>10. /\ known \in QueueState
       /\ known.items = fresh.items /\ known.droppedCount = fresh.droppedCount
       /\ known.cap = fresh.cap /\ known.draining = fresh.draining
       /\ DropCount(known) = DropCount(fresh)
  <2>1. PICK b \in BOOLEAN : b <=> fresh.hasRun \/ ~ Redelivered(fresh, m)
    OBVIOUS
  <2>2. known = [fresh EXCEPT !.hasRun = b]
    <3>1. fresh.hasRun \in BOOLEAN
      BY <1>9 DEF QueueState
    <3>2. (fresh.hasRun \/ ~ Redelivered(fresh, m)) = b
      BY <2>1, <3>1
    <3> QED
      BY <1>4, <3>2
  <2>3. /\ known \in QueueState
        /\ known.items = fresh.items /\ known.droppedCount = fresh.droppedCount
        /\ known.cap = fresh.cap /\ known.draining = fresh.draining
    BY <1>9, <2>2 DEF QueueState
  <2> QED
    BY <2>3 DEF DropCount, Overflows
<1>11. PICK n : n = DropCount(fresh)
  OBVIOUS
<1>12. /\ n \in Nat /\ n <= Len(queue[o].items)
       /\ Len(queue[o].items) < st.cap => n = 0
  <2>1. Len(queue[o].items) \in Nat /\ st.cap \in Nat \ {0}
    BY <1>0, <1>7, SettingsAssumption DEF QueueState
  <2> QED
    BY <1>9, <1>11, <2>1, DropCountInQueue DEF Overflows
<1>13. /\ q \in QueueState
       /\ q.cap = st.cap
       /\ q.draining = queue[o].draining
       /\ n = 0 => q.droppedCount = queue[o].droppedCount
       /\ refused => q.items = queue[o].items /\ q.droppedCount = queue[o].droppedCount
       /\ ~ refused => q.items = Append(SubSeq(queue[o].items, n + 1, Len(queue[o].items)), m)
  <2>1. CASE refused
    <3>1. q = known
      BY <1>5, <2>1
    <3> QED
      BY <1>9, <1>10, <2>1, <3>1
  <2>2. CASE ~ refused
    <3>1. q = Pushed(known, m)
      BY <1>5, <2>2
    <3>2. /\ Pushed(known, m) \in QueueState
          /\ Pushed(known, m).items =
                Append(SubSeq(known.items, DropCount(known) + 1, Len(known.items)), m)
          /\ Pushed(known, m).cap = known.cap
          /\ Pushed(known, m).draining = known.draining
          /\ DropCount(known) = 0 => Pushed(known, m).droppedCount = known.droppedCount
      BY <1>10, PushedTyped
    <3>3. /\ known.items = queue[o].items /\ known.droppedCount = queue[o].droppedCount
          /\ known.cap = st.cap /\ known.draining = queue[o].draining
          /\ DropCount(known) = n
      BY <1>9, <1>10, <1>11
    <3> QED
      BY <2>2, <3>1, <3>2, <3>3
  <2> QED
    BY <2>1, <2>2
<1>14. PICK after : after = [queue EXCEPT ![o] = q]
  OBVIOUS
<1>15. Tidy(after, drain)
  <2>1. after \in [Queues -> QueueState]
    BY <1>0, <1>13, <1>14
  <2>2. \A p \in Queues : after[p].draining = queue[p].draining
    BY <1>0, <1>7, <1>13, <1>14
  <2> QED
    BY <1>0, <2>1, <2>2 DEF Tidy, Agree
<1>16. Scheduled(o, after, drain)
  <2>1. CASE active
    <3>1. registry' = o /\ queue' = after /\ drain' = drain
      BY <1>7, <1>14, <2>1 DEF SecondLook
    <3> QED
      BY <1>15, <3>1 DEF Scheduled, SameContent
  <2>2. CASE ~ active
    <3>1. Schedule(o, after, drain)
      BY <1>7, <1>14, <2>2 DEF SecondLook
    <3> QED
      BY <1>7, <1>15, <3>1, ScheduleDoes
  <2> QED
    BY <2>1, <2>2
<1>17. gone # {} => n > 0
  BY <1>6, <1>11, <1>12
<1>18. fate' \in [Msgs -> Fates]
  BY <1>0, <1>7 DEF Fates
<1>19. refused => fate' = [fate EXCEPT ![m] = "refused"]
  BY <1>0, <1>7
<1>20. ~ refused =>
          /\ fate'[m] = "queued"
          /\ \A x \in Msgs \ {m} : \/ fate'[x] = fate[x]
                                   \/ n > 0 /\ fate[x] = "queued" /\ fate'[x] = "dropped"
  BY <1>7, <1>17
<1>21. ASSUME ~ refused, NEW i \in 1 .. n, fate[queue[o].items[i]] = "queued"
       PROVE  fate'[queue[o].items[i]] = "dropped"
  <2>1. queue[o].items \in Seq(Msgs) /\ i \in 1 .. Len(queue[o].items)
    BY <1>0, <1>7, <1>12 DEF QueueState
  <2>2. queue[o].items[i] \in Msgs /\ queue[o].items[i] # m
    BY <1>7, <1>21, <2>1
  <2>3. queue[o].items[i] \in gone
    BY <1>6, <1>9, <1>11
  <2> QED
    BY <1>7, <1>21, <2>2, <2>3
<1>22. Arrives(m, st, o, q, n, refused)
  BY <1>7, <1>8, <1>12, <1>13, <1>14, <1>16, <1>18, <1>19, <1>20, <1>21 DEF Arrives
<1> QED
  BY <1>7, <1>12, <1>13, <1>22

\* The drain of o gives a turn what it takes from the front of its queue.
TurnStarts(o) ==
    /\ drain[o].at \in {"debounce", "collect"}
    /\ drain' \in [Queues -> DrainState]
    /\ drain'[o].at = "running"
    /\ \A p \in Queues \ {o} : drain'[p] = drain[p]
    /\ Len(drain'[o].taken) <= Len(queue[o].items)
    /\ drain'[o].taken = SubSeq(queue[o].items, 1, Len(drain'[o].taken))
    /\ drain'[o].kind = "summary" => queue[o].droppedCount > 0
    /\ UNCHANGED <<registry, queue>>

\* What a turn takes is the front of the queue: one item or all of them.
LEMMA TakenFront ==
    ASSUME NEW s \in Seq(Msgs)
    PROVE  /\ s \in Seq(Msgs) /\ s = SubSeq(s, 1, Len(s))
           /\ s # <<>> => /\ <<Head(s)>> \in Seq(Msgs)
                          /\ Len(<<Head(s)>>) = 1
                          /\ Len(s) >= 1
                          /\ <<Head(s)>> = SubSeq(s, 1, 1)
<1>1. s = SubSeq(s, 1, Len(s))
  OBVIOUS
<1>2. ASSUME s # <<>>
      PROVE  /\ <<Head(s)>> \in Seq(Msgs)
             /\ Len(<<Head(s)>>) = 1
             /\ Len(s) >= 1
             /\ <<Head(s)>> = SubSeq(s, 1, 1)
  <2>1. Len(s) >= 1 /\ Head(s) = s[1] /\ Head(s) \in Msgs
    BY <1>2
  <2>2. SubSeq(s, 1, 1) \in Seq(Msgs) /\ Len(SubSeq(s, 1, 1)) = 1 /\ SubSeq(s, 1, 1)[1] = s[1]
    BY <2>1
  <2>3. <<Head(s)>> \in Seq(Msgs) /\ Len(<<Head(s)>>) = 1 /\ <<Head(s)>>[1] = s[1]
    BY <2>1
  <2> QED
    BY <2>1, <2>2, <2>3
<1> QED
  BY <1>1, <1>2

LEMMA StartTurnDoes ==
    ASSUME Base, NEW o \in Queues, drain[o].at \in {"debounce", "collect"},
           NEW kind \in {"item", "batch", "summary"}, NEW taken \in Seq(Msgs),
           NEW told \in BOOLEAN, NEW force \in BOOLEAN,
           Len(taken) <= Len(queue[o].items),
           taken = SubSeq(queue[o].items, 1, Len(taken)),
           kind = "summary" => queue[o].droppedCount > 0,
           StartTurn(o, kind, taken, told, force)
    PROVE  TurnStarts(o)
<1>1. PICK d : d = [at |-> "running", kind |-> kind, taken |-> taken, told |-> told,
                    force |-> force]
  OBVIOUS
<1>2. d \in DrainState /\ d.at = "running" /\ d.taken = taken /\ d.kind = kind
  BY <1>1 DEF DrainState
<1>3. drain' = [drain EXCEPT ![o] = d] /\ UNCHANGED <<registry, queue>>
  BY <1>1 DEF StartTurn
<1>4. drain \in [Queues -> DrainState]
  BY BaseTyped
<1> QED
  BY <1>2, <1>3, <1>4 DEF TurnStarts

\* The drain of o lets another step of the collect mode go first.
Skips(o) ==
    /\ Tidy(queue, drain')
    /\ drain'[o].at = "collect"
    /\ \A p \in Queues \ {o} : drain'[p] = drain[p]
    /\ UNCHANGED <<registry, queue>>

\* Every pass of the loop ends, starts a turn or skips.
LEMMA PassDoes ==
    ASSUME Base, NEW o \in Queues,
           CollectOne(o) \/ CollectSkips(o) \/ CollectBatch(o) \/ NextSummary(o) \/ NextItem(o)
    PROVE  /\ drain[o].at \in {"debounce", "collect"}
           /\ Returned(o, queue) \/ TurnStarts(o) \/ Skips(o)
           /\ UNCHANGED <<fate, made, runs, recentIds, arrivals, failures, clears>>
<1>0. /\ queue \in [Queues -> QueueState]
      /\ drain \in [Queues -> DrainState]
      /\ registry \in Queues \cup {None}
      /\ \A p \in Queues : Agree(queue[p], drain[p])
  BY BaseTyped DEF Tidy
<1>1. /\ queue[o].items \in Seq(Msgs)
      /\ drain[o] \in DrainState
      /\ drain[o].force \in BOOLEAN
  BY <1>0 DEF QueueState, DrainState
<1>2. ASSUME Finish(o, queue) PROVE Returned(o, queue)
  BY <1>0, <1>2, FinishDoes
<1>3. ASSUME drain[o].at \in {"debounce", "collect"}, queue[o].items # <<>>,
             NEW kind \in {"item", "summary"}, NEW told \in BOOLEAN, NEW force \in BOOLEAN,
             kind = "summary" => queue[o].droppedCount > 0,
             StartTurn(o, kind, <<Head(queue[o].items)>>, told, force)
      PROVE  TurnStarts(o)
  <2>1. PICK taken : taken = <<Head(queue[o].items)>>
    OBVIOUS
  <2>2. /\ taken \in Seq(Msgs) /\ Len(taken) = 1 /\ Len(queue[o].items) >= 1
        /\ taken = SubSeq(queue[o].items, 1, 1)
    BY <1>1, <1>3, <2>1, TakenFront
  <2>3. Len(taken) <= Len(queue[o].items) /\ taken = SubSeq(queue[o].items, 1, Len(taken))
    BY <1>1, <2>2
  <2>4. StartTurn(o, kind, taken, told, force)
    BY <1>3, <2>1
  <2> QED
    BY <1>3, <2>2, <2>3, <2>4, StartTurnDoes
<1>4. CASE CollectOne(o)
  <2>1. CASE queue[o].items = <<>>
    BY <1>2, <1>4, <2>1 DEF CollectOne, OthersKeep, NobodyHeard
  <2>2. CASE queue[o].items # <<>>
    <3>1. /\ StartTurn(o, "item", <<Head(queue[o].items)>>, FALSE, TRUE)
          /\ drain[o].at = "debounce"
      BY <1>4, <2>2 DEF CollectOne
    <3>2. TurnStarts(o)
      BY <1>3, <2>2, <3>1
    <3> QED
      BY <1>4, <3>1, <3>2 DEF CollectOne, OthersKeep, NobodyHeard
  <2> QED
    BY <2>1, <2>2
<1>5. CASE CollectSkips(o)
  <2>1. PICK d : d = [drain[o] EXCEPT !.at = "collect"]
    OBVIOUS
  <2>2. d \in DrainState /\ d.at = "collect"
    BY <1>1, <2>1, DrainTyped
  <2>3. /\ drain' = [drain EXCEPT ![o] = d] /\ UNCHANGED <<registry, queue>>
        /\ drain[o].at = "debounce"
    BY <1>5, <2>1 DEF CollectSkips
  <2>4. /\ drain' \in [Queues -> DrainState] /\ drain'[o] = d
        /\ \A p \in Queues \ {o} : drain'[p] = drain[p]
    BY <1>0, <2>2, <2>3
  <2>5. Skips(o)
    BY <1>0, <2>2, <2>3, <2>4 DEF Skips, Tidy, Agree
  <2> QED
    BY <1>5, <2>3, <2>5 DEF CollectSkips, OthersKeep, NobodyHeard
<1>6. CASE CollectBatch(o)
  <2>1. CASE queue[o].items = <<>> /\ ~ queue[o].hasRun
    BY <1>2, <1>6, <2>1 DEF CollectBatch, OthersKeep, NobodyHeard
  <2>2. CASE ~ (queue[o].items = <<>> /\ ~ queue[o].hasRun)
    <3>1. PICK told \in BOOLEAN : told <=> HasSummary(queue[o])
      OBVIOUS
    <3>2. told = HasSummary(queue[o])
      BY <3>1 DEF HasSummary
    <3>3. /\ StartTurn(o, "batch", queue[o].items, told, FALSE)
          /\ drain[o].at = "collect"
      BY <1>6, <2>2, <3>2 DEF CollectBatch
    <3>4. queue[o].items = SubSeq(queue[o].items, 1, Len(queue[o].items))
          /\ Len(queue[o].items) <= Len(queue[o].items)
      BY <1>1, TakenFront
    <3>5. TurnStarts(o)
      BY <1>1, <3>3, <3>4, StartTurnDoes
    <3> QED
      BY <1>6, <3>3, <3>5 DEF CollectBatch, OthersKeep, NobodyHeard
  <2> QED
    BY <2>1, <2>2
<1>7. CASE NextSummary(o)
  <2>1. CASE ~ queue[o].hasRun \/ queue[o].items = <<>>
    BY <1>2, <1>7, <2>1 DEF NextSummary, OthersKeep, NobodyHeard
  <2>2. CASE ~ (~ queue[o].hasRun \/ queue[o].items = <<>>)
    <3>1. /\ StartTurn(o, "summary", <<Head(queue[o].items)>>, TRUE, drain[o].force)
          /\ drain[o].at = "debounce"
          /\ queue[o].droppedCount > 0
      BY <1>7, <2>2 DEF NextSummary, HasSummary
    <3>2. TurnStarts(o)
      BY <1>1, <1>3, <2>2, <3>1
    <3> QED
      BY <1>7, <3>1, <3>2 DEF NextSummary, OthersKeep, NobodyHeard
  <2> QED
    BY <2>1, <2>2
<1>8. CASE NextItem(o)
  <2>1. CASE queue[o].items = <<>>
    BY <1>2, <1>8, <2>1 DEF NextItem, OthersKeep, NobodyHeard
  <2>2. CASE queue[o].items # <<>>
    <3>1. /\ StartTurn(o, "item", <<Head(queue[o].items)>>, FALSE, drain[o].force)
          /\ drain[o].at = "debounce"
      BY <1>8, <2>2 DEF NextItem
    <3>2. TurnStarts(o)
      BY <1>1, <1>3, <2>2, <3>1
    <3> QED
      BY <1>8, <3>1, <3>2 DEF NextItem, OthersKeep, NobodyHeard
  <2> QED
    BY <2>1, <2>2
<1> QED
  BY <1>4, <1>5, <1>6, <1>7, <1>8

\* The turn that is done has been given d.taken: n items leave the front of the queue,
\* and what was taken is answered, but for a summary.
Answers(o, qs, n) ==
    /\ drain[o].at = "running"
    /\ qs \in [Queues -> QueueState]
    /\ \A p \in Queues \ {o} : qs[p] = queue[p]
    /\ n <= Len(queue[o].items)
    /\ Len(drain[o].taken) <= Len(queue[o].items) => n = Len(drain[o].taken)
    /\ qs[o].items = SubSeq(queue[o].items, n + 1, Len(queue[o].items))
    /\ qs[o].cap = queue[o].cap
    /\ qs[o].draining = queue[o].draining
    /\ qs[o].droppedCount \in {0, queue[o].droppedCount}
    /\ fate' = [m \in Msgs |-> IF drain[o].kind # "summary" /\ m \in ToSet(drain[o].taken)
                               THEN "answered" ELSE fate[m]]
    /\ Returned(o, qs)
    /\ UNCHANGED <<made, runs, recentIds, arrivals, failures, clears>>

LEMMA TurnDoneDoes ==
    ASSUME Base, NEW o \in Queues, TurnDone(o)
    PROVE  \E qs \in [Queues -> QueueState], n \in Nat : Answers(o, qs, n)
<1>0. /\ queue \in [Queues -> QueueState]
      /\ drain \in [Queues -> DrainState]
      /\ registry \in Queues \cup {None}
      /\ \A p \in Queues : Agree(queue[p], drain[p])
  BY BaseTyped DEF Tidy
<1>1. /\ queue[o] \in QueueState
      /\ queue[o].items \in Seq(Msgs) /\ Len(queue[o].items) \in Nat
      /\ queue[o].droppedCount \in Nat
      /\ drain[o].taken \in Seq(Msgs) /\ Len(drain[o].taken) \in Nat
      /\ drain[o].told \in BOOLEAN
  BY <1>0 DEF QueueState, DrainState
<1>2. PICK n : n = Consumed(o)
  OBVIOUS
<1>3. /\ n \in Nat /\ n <= Len(queue[o].items)
      /\ Len(drain[o].taken) <= Len(queue[o].items) => n = Len(drain[o].taken)
  BY <1>1, <1>2 DEF Consumed
<1>4. PICK rest : rest = SubSeq(queue[o].items, n + 1, Len(queue[o].items))
  OBVIOUS
<1>5. rest \in Seq(Msgs)
  BY <1>1, <1>3, <1>4
<1>6. PICK c : c = IF drain[o].told THEN 0 ELSE queue[o].droppedCount
  OBVIOUS
<1>7. c \in Nat /\ c \in {0, queue[o].droppedCount}
  BY <1>1, <1>6
<1>8. PICK q : q = [queue[o] EXCEPT !.items = rest, !.droppedCount = c]
  OBVIOUS
<1>9. /\ q \in QueueState /\ q.items = rest /\ q.droppedCount = c
      /\ q.cap = queue[o].cap /\ q.draining = queue[o].draining
  BY <1>1, <1>5, <1>7, <1>8 DEF QueueState
<1>10. PICK after : after = [queue EXCEPT ![o].items = rest,
                                          ![o].droppedCount = IF drain[o].told THEN 0 ELSE @]
  OBVIOUS
<1>11. after = [queue EXCEPT ![o] = q]
  BY <1>0, <1>6, <1>8, <1>10
<1>12. /\ after \in [Queues -> QueueState] /\ after[o] = q
       /\ \A p \in Queues \ {o} : after[p] = queue[p]
  BY <1>0, <1>9, <1>11
<1>13. /\ drain[o].at = "running"
       /\ fate' = [m \in Msgs |->
                      IF m \in (IF drain[o].kind = "summary" THEN {} ELSE ToSet(drain[o].taken))
                      THEN "answered" ELSE fate[m]]
       /\ Continue(o, after)
       /\ UNCHANGED <<made, runs, recentIds, arrivals, failures, clears>>
  BY <1>2, <1>4, <1>10 DEF TurnDone, OthersKeep
<1>14. \A p \in Queues : Agree(after[p], drain[p])
  BY <1>0, <1>9, <1>12 DEF Agree
<1>15. Returned(o, after)
  BY <1>0, <1>12, <1>13, <1>14, ContinueDoes
<1>16. fate' = [m \in Msgs |-> IF drain[o].kind # "summary" /\ m \in ToSet(drain[o].taken)
                               THEN "answered" ELSE fate[m]]
  BY <1>13
<1>17. Answers(o, after, n)
  BY <1>3, <1>4, <1>7, <1>9, <1>12, <1>13, <1>15, <1>16 DEF Answers
<1> QED
  BY <1>3, <1>12, <1>17

LEMMA TurnFailsDoes ==
    ASSUME Base, NEW o \in Queues, TurnFails(o)
    PROVE  /\ drain[o].at = "running"
           /\ Returned(o, queue)
           /\ failures < MaxFailures /\ failures' = failures + 1
           /\ UNCHANGED <<fate, made, runs, recentIds, arrivals, clears>>
<1>1. /\ queue \in [Queues -> QueueState]
      /\ drain \in [Queues -> DrainState]
      /\ registry \in Queues \cup {None}
      /\ \A p \in Queues : Agree(queue[p], drain[p])
  BY BaseTyped DEF Tidy
<1>2. Returned(o, queue)
  BY <1>1, FinishDoes DEF TurnFails
<1> QED
  BY <1>2 DEF TurnFails, NobodyHeard

-----------------------------------------------------------------------------
(* Types and shapes *)

LEMMA BaseInit == Init => Base
<1> SUFFICES ASSUME Init PROVE Base
  OBVIOUS
<1>1. PICK st \in Settings : queue = [o \in Queues |-> EmptyQueue(st)]
  BY DEF Init
<1>2. /\ EmptyQueue(st) \in QueueState
      /\ EmptyQueue(st).items = <<>>
      /\ EmptyQueue(st).droppedCount = 0
      /\ EmptyQueue(st).draining = FALSE
  BY EmptyQueueTyped
<1>3. drain = [o \in Queues |-> Idle] /\ Idle \in DrainState /\ Idle.at = "idle"
  BY IdleTyped DEF Init
<1>4. \A o \in Queues : queue[o].draining <=> drain[o].at # "idle"
  BY <1>1, <1>2, <1>3
<1>5. queue \in [Queues -> QueueState] /\ drain \in [Queues -> DrainState]
  BY <1>1, <1>2, <1>3
<1>6. /\ made \in 0 .. Cardinality(Queues)
      /\ failures \in 0 .. MaxFailures /\ clears \in 0 .. MaxClears
  BY BoundsAssumption, FS_CardinalityType DEF Init
<1>7. TypeOK
  <2>1. /\ registry \in Queues \cup {None} /\ recentIds \subseteq {RecentId(m) : m \in Msgs}
        /\ primary \in BOOLEAN /\ agentRun \in BOOLEAN /\ behindAgent \subseteq Msgs
    BY DEF Init
  <2>2. fate \in [Msgs -> Fates] /\ arrivals \in Seq(Msgs)
    BY DEF Init, Fates
  <2> QED
    BY <1>4, <1>5, <1>6, <2>1, <2>2 DEF TypeOK
<1>8. Shaped
  BY <1>1, <1>2, <1>3 DEF Init, Shaped
<1> QED
  BY <1>7, <1>8 DEF Base

\* The steps that touch neither the queue objects nor their drains.
Aside ==
    \/ StartPrimary \/ AgentRunStarts \/ AgentRunEnds
    \/ \E id \in recentIds : ForgetId(id)

RunsTyped == primary \in BOOLEAN /\ agentRun \in BOOLEAN /\ behindAgent \subseteq Msgs

LEMMA RunsStayTyped ==
    ASSUME Base, UNCHANGED runs \/ StartPrimary \/ EndPrimary \/ AgentRunStarts \/ AgentRunEnds
    PROVE  RunsTyped'
  BY DEF Base, TypeOK, RunsTyped, runs, StartPrimary, EndPrimary, AgentRunStarts, AgentRunEnds

\* The conjuncts of TypeOK, put together again.
LEMMA TypesTogether ==
    ASSUME Tidy(queue', drain'), registry' \in Queues \cup {None},
           made' \in 0 .. Cardinality(Queues), RunsTyped',
           recentIds' \subseteq {RecentId(m) : m \in Msgs},
           fate' \in [Msgs -> Fates], arrivals' \in Seq(Msgs),
           failures' \in 0 .. MaxFailures, clears' \in 0 .. MaxClears
    PROVE  TypeOK'
  BY DEF TypeOK, RunsTyped, Tidy, Agree

\* Steps of drains and of the agent's runs do not make objects.
LEMMA ShapedKept ==
    ASSUME Base, made' = made, registry' \in {registry, None},
           \A p \in Queues : p > made =>
              queue'[p].items = <<>> /\ queue'[p].droppedCount = 0 /\ drain'[p].at = "idle"
    PROVE  Shaped'
  BY DEF Base, Shaped

LEMMA EnqueueKeepsBase ==
    ASSUME Base, NEW m \in Msgs, NEW st \in Settings, NEW active \in BOOLEAN,
           Enqueue(m, st, active)
    PROVE  Base'
<1>0. /\ queue \in [Queues -> QueueState]
      /\ drain \in [Queues -> DrainState]
      /\ fate \in [Msgs -> Fates]
      /\ arrivals \in Seq(Msgs)
      /\ made \in Nat
      /\ Queues \subseteq Nat \ {0}
  BY BaseTyped
<1>1. PICK o \in Queues, q \in QueueState, n \in Nat, refused \in BOOLEAN :
              Arrives(m, st, o, q, n, refused)
  BY EnqueueDoes
<1>2. PICK after : after = [queue EXCEPT ![o] = q]
  OBVIOUS
<1>3. Scheduled(o, after, drain)
  BY <1>1, <1>2 DEF Arrives
<1>4. /\ Tidy(queue', drain')
      /\ \A p \in Queues : SameContent(queue'[p], after[p])
      /\ \A p \in Queues : drain'[p] = drain[p] \/ p = registry'
      /\ registry' = o \/ registry' = None
  BY <1>3 DEF Scheduled
<1>5. made' \in 0 .. Cardinality(Queues) /\ o <= made' /\ made <= made'
  <2>1. o \in 1 .. Cardinality(Queues) /\ Cardinality(Queues) \in Nat
    BY BoundsAssumption, FS_CardinalityType
  <2>2. CASE registry = None /\ o = made + 1 /\ made' = made + 1
    BY <1>0, <2>1, <2>2
  <2>3. CASE registry = o /\ made' = made
    <3>1. o <= made /\ made \in 0 .. Cardinality(Queues)
      BY <2>3, BoundsAssumption DEF Base, TypeOK, Shaped
    <3> QED
      BY <2>3, <3>1
  <2> QED
    BY <1>1, <2>2, <2>3 DEF Arrives
<1>6. arrivals' \in Seq(Msgs) /\ fate' \in [Msgs -> Fates] /\ UNCHANGED <<failures, clears>>
  <2>1. arrivals' = arrivals \/ arrivals' = Append(arrivals, m)
    BY <1>1 DEF Arrives
  <2>2. arrivals' \in Seq(Msgs)
    BY <1>0, <2>1
  <2>3. fate' \in [Msgs -> Fates] /\ UNCHANGED <<failures, clears>>
    BY <1>1 DEF Arrives
  <2> QED
    BY <2>2, <2>3
<1>7. /\ UNCHANGED <<primary, agentRun>> /\ behindAgent' \subseteq behindAgent \cup {m}
      /\ recentIds' \subseteq recentIds \cup {RecentId(m)}
  BY DEF Enqueue
<1>8. TypeOK'
  <2>1. registry' \in Queues \cup {None}
    BY <1>4
  <2>2. RunsTyped' /\ recentIds' \subseteq {RecentId(x) : x \in Msgs}
    BY <1>7 DEF Base, TypeOK, RunsTyped
  <2>3. failures' \in 0 .. MaxFailures /\ clears' \in 0 .. MaxClears
    BY <1>6 DEF Base, TypeOK
  <2> QED
    BY <1>4, <1>5, <1>6, <2>1, <2>2, <2>3, TypesTogether
<1>9. Shaped'
  <2>1. registry' # None => registry' <= made'
    BY <1>4, <1>5
  <2>2. ASSUME NEW p \in Queues, p > made'
        PROVE  queue'[p].items = <<>> /\ queue'[p].droppedCount = 0 /\ drain'[p].at = "idle"
    <3>1. p # o /\ p > made
      BY <1>0, <1>5, <2>2
    <3>2. after[p] = queue[p] /\ drain'[p] = drain[p]
      BY <1>0, <1>2, <1>4, <3>1, BoundsAssumption
    <3>3. queue[p].items = <<>> /\ queue[p].droppedCount = 0 /\ drain[p].at = "idle"
      BY <3>1 DEF Base, Shaped
    <3> QED
      BY <1>4, <3>2, <3>3 DEF SameContent
  <2> QED
    BY <2>1, <2>2 DEF Shaped
<1> QED
  BY <1>8, <1>9 DEF Base

\* The end of a pass or of a turn of the drain of o, with objects qs of which only the
\* o-th may differ from what they were.
LEMMA ReturnedKeepsBase ==
    ASSUME Base, NEW o \in Queues, drain[o].at # "idle",
           NEW qs \in [Queues -> QueueState], \A p \in Queues \ {o} : qs[p] = queue[p],
           Returned(o, qs),
           fate' \in [Msgs -> Fates], failures' \in 0 .. MaxFailures,
           UNCHANGED <<made, runs, recentIds, arrivals, clears>>
    PROVE  Base'
<1>0. registry \in Queues \cup {None} /\ made \in Nat /\ Queues \subseteq Nat \ {0}
  BY BaseTyped
<1>1. o <= made
  BY <1>0 DEF Base, Shaped
<1>2. /\ Tidy(queue', drain')
      /\ \A p \in Queues : SameContent(queue'[p], qs[p])
      /\ \A p \in Queues \ {o} : drain'[p] = drain[p] \/ p = registry
      /\ registry' \in {registry, None}
  BY DEF Returned
<1>3. ASSUME NEW p \in Queues, p > made
      PROVE  queue'[p].items = <<>> /\ queue'[p].droppedCount = 0 /\ drain'[p].at = "idle"
  <2>0. p \in Nat /\ o \in Nat /\ ~ (p <= made)
    BY <1>0, <1>3
  <2>1. p # o /\ p # registry
    <3>1. p # o
      BY <1>1, <2>0
    <3>2. p # None
      BY BoundsAssumption
    <3>3. registry # None => registry <= made
      BY DEF Base, Shaped
    <3> QED
      BY <2>0, <3>1, <3>2, <3>3
  <2>2. qs[p] = queue[p] /\ drain'[p] = drain[p]
    BY <1>2, <2>1
  <2>3. queue[p].items = <<>> /\ queue[p].droppedCount = 0 /\ drain[p].at = "idle"
    BY <1>3 DEF Base, Shaped
  <2> QED
    BY <1>2, <2>2, <2>3 DEF SameContent
<1>4. Shaped'
  BY <1>2, <1>3, ShapedKept
<1>5. TypeOK'
  <2>1. registry' \in Queues \cup {None}
    BY <1>0, <1>2
  <2>2. /\ made' \in 0 .. Cardinality(Queues) /\ RunsTyped'
        /\ recentIds' \subseteq {RecentId(m) : m \in Msgs}
        /\ arrivals' \in Seq(Msgs) /\ clears' \in 0 .. MaxClears
    BY RunsStayTyped DEF Base, TypeOK
  <2> QED
    BY <1>2, <2>1, <2>2, TypesTogether
<1> QED
  BY <1>4, <1>5 DEF Base

\* clearSessionQueues empties an object in place.
LEMMA EmptiedTyped ==
    ASSUME NEW c \in QueueState
    PROVE  LET q == [c EXCEPT !.items = <<>>, !.droppedCount = 0, !.hasRun = FALSE]
           IN  /\ q \in QueueState /\ q.items = <<>> /\ q.droppedCount = 0
               /\ q.draining = c.draining
<1>1. PICK none : none = <<>>
  OBVIOUS
<1>2. none \in Seq(Msgs)
  BY <1>1
<1>3. PICK q : q = [c EXCEPT !.items = none, !.droppedCount = 0, !.hasRun = FALSE]
  OBVIOUS
<1>4. /\ q \in QueueState /\ q.items = none /\ q.droppedCount = 0
      /\ q.draining = c.draining
  BY <1>2, <1>3 DEF QueueState
<1> QED
  BY <1>1, <1>3, <1>4

LEMMA BaseStep == ASSUME Base, Next PROVE Base'
<1>0. /\ Tidy(queue, drain)
      /\ queue \in [Queues -> QueueState]
      /\ drain \in [Queues -> DrainState]
      /\ registry \in Queues \cup {None}
      /\ fate \in [Msgs -> Fates]
      /\ failures \in 0 .. MaxFailures
      /\ made \in Nat
      /\ Queues \subseteq Nat \ {0}
  BY BaseTyped DEF Base, TypeOK
<1>1. ASSUME NEW m \in Msgs, NEW st \in Settings, NEW active \in BOOLEAN, Enqueue(m, st, active)
      PROVE  Base'
  BY <1>1, EnqueueKeepsBase
<1>2. ASSUME Aside PROVE Base'
  <2>1. /\ UNCHANGED <<registry, made, queue, drain, fate, arrivals, failures, clears>>
        /\ recentIds' \subseteq recentIds
    BY <1>2 DEF Aside, StartPrimary, AgentRunStarts, AgentRunEnds, ForgetId
  <2>0. RunsTyped'
    BY <1>2, RunsStayTyped DEF Aside, ForgetId
  <2>2. TypeOK'
    BY <2>0, <2>1 DEF Base, TypeOK, RunsTyped
  <2>3. Shaped'
    BY <2>1 DEF Base, Shaped
  <2> QED
    BY <2>2, <2>3 DEF Base
<1>3. CASE EndPrimary
  <2>1. /\ Scheduled(registry, queue, drain)
        /\ RunsTyped'
        /\ UNCHANGED <<made, recentIds, fate, arrivals, failures, clears>>
    BY <1>0, <1>3, ScheduleDoes, RunsStayTyped DEF EndPrimary
  <2>2. /\ Tidy(queue', drain')
        /\ \A p \in Queues : SameContent(queue'[p], queue[p])
        /\ \A p \in Queues : drain'[p] = drain[p] \/ p = registry'
        /\ registry' \in {registry, None}
    BY <2>1 DEF Scheduled
  <2>3. TypeOK'
    <3>1. /\ made' \in 0 .. Cardinality(Queues) /\ RunsTyped'
          /\ recentIds' \subseteq {RecentId(m) : m \in Msgs} /\ fate' \in [Msgs -> Fates]
          /\ arrivals' \in Seq(Msgs) /\ failures' \in 0 .. MaxFailures
          /\ clears' \in 0 .. MaxClears
      BY <2>1 DEF Base, TypeOK
    <3>2. registry' \in Queues \cup {None}
      BY <1>0, <2>2
    <3> QED
      BY <2>2, <3>1, <3>2, TypesTogether
  <2>4. ASSUME NEW p \in Queues, p > made
        PROVE  queue'[p].items = <<>> /\ queue'[p].droppedCount = 0 /\ drain'[p].at = "idle"
    <3>1. p # registry'
      BY <1>0, <2>2, <2>4, BoundsAssumption DEF Base, Shaped
    <3>2. queue[p].items = <<>> /\ queue[p].droppedCount = 0 /\ drain[p].at = "idle"
      BY <2>4 DEF Base, Shaped
    <3> QED
      BY <2>2, <3>1, <3>2 DEF SameContent
  <2>5. Shaped'
    BY <2>1, <2>2, <2>4, ShapedKept
  <2> QED
    BY <2>3, <2>5 DEF Base
<1>4. CASE Clear
  <2>1. PICK q : q = [queue[registry] EXCEPT !.items = <<>>, !.droppedCount = 0,
                                             !.hasRun = FALSE]
    OBVIOUS
  <2>2. /\ registry \in Queues /\ registry' = None
        /\ clears < MaxClears /\ clears' = clears + 1
        /\ UNCHANGED <<made, drain, runs, recentIds, arrivals, failures>>
    BY <1>0, <1>4 DEF Clear
  <2>3. queue' = [queue EXCEPT ![registry] = q]
    BY <1>0, <1>4, <2>1, <2>2 DEF Clear
  <2>4. queue[registry] \in QueueState
    BY <1>0, <2>2
  <2>5. /\ q \in QueueState /\ q.items = <<>> /\ q.droppedCount = 0
        /\ q.draining = queue[registry].draining
    BY <2>1, <2>4, EmptiedTyped
  <2>6. /\ queue' \in [Queues -> QueueState]
        /\ \A p \in Queues : queue'[p] = IF p = registry THEN q ELSE queue[p]
    BY <1>0, <2>2, <2>3, <2>5
  <2>7. Tidy(queue', drain')
    BY <1>0, <2>2, <2>5, <2>6 DEF Tidy, Agree
  <2>8. fate' \in [Msgs -> Fates]
    <3>1. fate' = [m \in Msgs |->
                     IF m \in ToSet(queue[registry].items) /\ fate[m] = "queued"
                     THEN "cleared" ELSE fate[m]]
      BY <1>4 DEF Clear
    <3> QED
      BY <1>0, <3>1 DEF Fates
  <2>9. TypeOK'
    <3>1. /\ made' \in 0 .. Cardinality(Queues) /\ RunsTyped'
          /\ recentIds' \subseteq {RecentId(m) : m \in Msgs}
          /\ arrivals' \in Seq(Msgs) /\ failures' \in 0 .. MaxFailures
      BY <2>2, RunsStayTyped DEF Base, TypeOK
    <3>2. clears' \in 0 .. MaxClears
      BY <2>2, BoundsAssumption DEF Base, TypeOK
    <3> QED
      BY <2>2, <2>7, <2>8, <3>1, <3>2, TypesTogether
  <2>10. Shaped'
    BY <2>2, <2>5, <2>6 DEF Base, Shaped
  <2> QED
    BY <2>9, <2>10 DEF Base
<1>5. ASSUME NEW o \in Queues, DrainStep(o) \/ TurnFails(o) PROVE Base'
  <2>1. CASE CollectOne(o) \/ CollectSkips(o) \/ CollectBatch(o) \/ NextSummary(o) \/ NextItem(o)
    <3>1. /\ drain[o].at \in {"debounce", "collect"}
          /\ Returned(o, queue) \/ TurnStarts(o) \/ Skips(o)
          /\ UNCHANGED <<fate, made, runs, recentIds, arrivals, failures, clears>>
      BY <2>1, PassDoes
    <3>2. CASE Returned(o, queue)
      <4>1. fate' \in [Msgs -> Fates] /\ failures' \in 0 .. MaxFailures
        BY <1>0, <3>1
      <4> QED
        BY <1>0, <3>1, <3>2, <4>1, ReturnedKeepsBase
    <3>3. CASE TurnStarts(o) \/ Skips(o)
      <4>1. /\ Tidy(queue', drain')
            /\ UNCHANGED <<registry, queue>>
            /\ \A p \in Queues \ {o} : drain'[p] = drain[p]
        <5>1. CASE TurnStarts(o)
          BY <1>0, <3>1, <5>1 DEF TurnStarts, Tidy, Agree
        <5>2. CASE Skips(o)
          BY <5>2 DEF Skips
        <5> QED
          BY <3>3, <5>1, <5>2
      <4>2. TypeOK'
        <5>1. /\ made' \in 0 .. Cardinality(Queues) /\ RunsTyped'
              /\ recentIds' \subseteq {RecentId(m) : m \in Msgs} /\ fate' \in [Msgs -> Fates]
              /\ arrivals' \in Seq(Msgs) /\ failures' \in 0 .. MaxFailures
              /\ clears' \in 0 .. MaxClears
          BY <3>1, RunsStayTyped DEF Base, TypeOK
        <5> QED
          BY <1>0, <4>1, <5>1, TypesTogether
      <4>3. o <= made
        BY <1>0, <3>1 DEF Base, Shaped
      <4>4. \A p \in Queues : p > made =>
               queue'[p].items = <<>> /\ queue'[p].droppedCount = 0 /\ drain'[p].at = "idle"
        <5> SUFFICES ASSUME NEW p \in Queues, p > made
                     PROVE  queue'[p].items = <<>> /\ queue'[p].droppedCount = 0
                            /\ drain'[p].at = "idle"
          OBVIOUS
        <5>1. p # o
          <6>1. o \in Nat /\ p \in Nat /\ ~ (p <= made)
            BY <1>0
          <6> QED
            BY <4>3, <6>1
        <5>2. queue[p].items = <<>> /\ queue[p].droppedCount = 0 /\ drain[p].at = "idle"
          BY DEF Base, Shaped
        <5> QED
          BY <4>1, <5>1, <5>2
      <4>5. Shaped'
        BY <3>1, <4>1, <4>4, ShapedKept
      <4> QED
        BY <4>2, <4>5 DEF Base
    <3> QED
      BY <3>1, <3>2, <3>3
  <2>2. CASE TurnDone(o)
    <3>1. PICK qs \in [Queues -> QueueState], n \in Nat : Answers(o, qs, n)
      BY <2>2, TurnDoneDoes
    <3>2. /\ drain[o].at # "idle"
          /\ \A p \in Queues \ {o} : qs[p] = queue[p]
          /\ Returned(o, qs)
          /\ UNCHANGED <<made, runs, recentIds, arrivals, failures, clears>>
      BY <3>1 DEF Answers
    <3>3. fate' \in [Msgs -> Fates]
      BY <1>0, <3>1 DEF Answers, Fates
    <3>4. failures' \in 0 .. MaxFailures
      BY <1>0, <3>2
    <3> QED
      BY <3>2, <3>3, <3>4, ReturnedKeepsBase
  <2>3. CASE TurnFails(o)
    <3>1. /\ drain[o].at # "idle"
          /\ Returned(o, queue)
          /\ failures < MaxFailures /\ failures' = failures + 1
          /\ UNCHANGED <<fate, made, runs, recentIds, arrivals, clears>>
      BY <2>3, TurnFailsDoes
    <3>2. failures' \in 0 .. MaxFailures /\ fate' \in [Msgs -> Fates]
      BY <1>0, <3>1, BoundsAssumption
    <3> QED
      BY <1>0, <3>1, <3>2, ReturnedKeepsBase
  <2> QED
    BY <1>5, <2>1, <2>2, <2>3 DEF DrainStep
<1> QED
  BY <1>1, <1>2, <1>3, <1>4, <1>5 DEF Next, Aside

THEOREM Invariance == Spec => []Base
<1>1. Base /\ [Next]_vars => Base'
  <2>1. ASSUME Base, UNCHANGED vars PROVE Base'
    BY <2>1 DEF vars, runs, Base, TypeOK, Shaped
  <2> QED
    BY <2>1, BaseStep
<1> QED
  BY <1>1, BaseInit, PTL DEF Spec

\* TypeOK: the queue objects, their drains and the key keep their types, and an object
\* is marked as draining exactly while it has a drain, however drains end and begin.
THEOREM TypeCorrect == Spec => []TypeOK
<1>1. Base => TypeOK
  BY DEF Base
<1> QED
  BY <1>1, Invariance, PTL

-----------------------------------------------------------------------------
(* Where the messages are *)

\* A message is in the queue of one object at most, and none that was cleared is.
Placed ==
    \A o \in Queues : \A m \in ToSet(queue[o].items) :
       /\ fate[m] \notin {"new", "refused", "cleared"}
       /\ \A p \in Queues \ {o} : m \notin ToSet(queue[p].items)

LEMMA RestOfQueue ==
    ASSUME NEW s \in Seq(Msgs), NEW n \in Nat, n <= Len(s)
    PROVE  /\ ToSet(SubSeq(s, n + 1, Len(s))) \subseteq ToSet(s)
           /\ ToSet(SubSeq(s, 1, n)) \subseteq ToSet(s)
           /\ SubSeq(s, n + 1, Len(s)) \in Seq(Msgs)
  BY DEF ToSet

LEMMA OneMore ==
    ASSUME NEW s \in Seq(Msgs), NEW m \in Msgs
    PROVE  ToSet(Append(s, m)) = ToSet(s) \cup {m}
<1>1. Append(s, m) \in Seq(Msgs) /\ Len(Append(s, m)) = Len(s) + 1
  OBVIOUS
<1>2. \A i \in 1 .. Len(s) : Append(s, m)[i] = s[i]
  OBVIOUS
<1>3. Append(s, m)[Len(s) + 1] = m /\ Len(s) \in Nat
  OBVIOUS
<1> QED
  BY <1>1, <1>2, <1>3 DEF ToSet

\* Messages only leave the queues, and those that stay are not cleared.
LEMMA PlacedKept ==
    ASSUME Placed,
           \A p \in Queues : ToSet(queue'[p].items) \subseteq ToSet(queue[p].items),
           \A p \in Queues : \A m \in ToSet(queue'[p].items) :
              fate'[m] \in {fate[m], "answered", "dropped"}
    PROVE  Placed'
  BY DEF Placed

\* Only the start of a turn makes a drain run.
LEMMA WhoStarts ==
    ASSUME Base, Next, NEW o \in Queues,
           drain'[o].at = "running", drain[o].at # "running"
    PROVE  TurnStarts(o)
<1>0. /\ Tidy(queue, drain)
      /\ queue \in [Queues -> QueueState]
      /\ drain \in [Queues -> DrainState]
      /\ registry \in Queues \cup {None}
  BY BaseTyped
<1>1. ASSUME NEW m \in Msgs, NEW st \in Settings, NEW active \in BOOLEAN, Enqueue(m, st, active)
      PROVE  FALSE
  <2>1. PICK p \in Queues, q \in QueueState, n \in Nat, refused \in BOOLEAN :
                Arrives(m, st, p, q, n, refused)
    BY <1>1, EnqueueDoes
  <2>2. drain'[o] = drain[o] \/ drain'[o].at = "debounce"
    BY <2>1 DEF Arrives, Scheduled
  <2> QED
    BY <2>2
<1>2. ASSUME UNCHANGED drain PROVE FALSE
  BY <1>2
<1>3. CASE EndPrimary
  <2>1. Scheduled(registry, queue, drain)
    BY <1>0, <1>3, ScheduleDoes DEF EndPrimary
  <2> QED
    BY <2>1 DEF Scheduled
<1>4. ASSUME NEW p \in Queues, NEW qs, Returned(p, qs) PROVE FALSE
  BY <1>4 DEF Returned
<1>5. ASSUME NEW p \in Queues, DrainStep(p) \/ TurnFails(p) PROVE TurnStarts(o)
  <2>1. CASE CollectOne(p) \/ CollectSkips(p) \/ CollectBatch(p) \/ NextSummary(p) \/ NextItem(p)
    <3>1. Returned(p, queue) \/ TurnStarts(p) \/ Skips(p)
      BY <2>1, PassDoes
    <3>2. ASSUME TurnStarts(p) \/ Skips(p) PROVE p = o
      BY <3>2 DEF TurnStarts, Skips
    <3>3. ~ Skips(o)
      BY DEF Skips
    <3> QED
      BY <1>4, <3>1, <3>2, <3>3
  <2>2. CASE TurnDone(p)
    <3>1. PICK qs \in [Queues -> QueueState], n \in Nat : Answers(p, qs, n)
      BY <2>2, TurnDoneDoes
    <3> QED
      BY <1>4, <3>1 DEF Answers
  <2>3. CASE TurnFails(p)
    BY <1>4, <2>3, TurnFailsDoes
  <2> QED
    BY <1>5, <2>1, <2>2, <2>3 DEF DrainStep
<1>6. ASSUME Clear \/ Aside PROVE UNCHANGED drain
  BY <1>6 DEF Clear, Aside, StartPrimary, AgentRunStarts, AgentRunEnds, ForgetId
<1> QED
  BY <1>1, <1>2, <1>3, <1>5, <1>6 DEF Next, Aside

LEMMA PlacedInit == Init => Placed
<1> SUFFICES ASSUME Init PROVE Placed
  OBVIOUS
<1>1. PICK st \in Settings : queue = [o \in Queues |-> EmptyQueue(st)]
  BY DEF Init
<1>2. \A o \in Queues : queue[o].items = <<>>
  BY <1>1, EmptyQueueTyped
<1> QED
  BY <1>2 DEF Placed, ToSet

LEMMA EnqueueKeepsPlaced ==
    ASSUME Base, Placed, NEW m \in Msgs, NEW st \in Settings, NEW active \in BOOLEAN,
           Enqueue(m, st, active)
    PROVE  Placed'
<1>0. /\ queue \in [Queues -> QueueState]
      /\ fate \in [Msgs -> Fates]
  BY BaseTyped
<1>1. PICK o \in Queues, q \in QueueState, n \in Nat, refused \in BOOLEAN :
              Arrives(m, st, o, q, n, refused)
  BY EnqueueDoes
<1>2. \A p \in Queues : queue[p].items \in Seq(Msgs) /\ ToSet(queue[p].items) \subseteq Msgs
  BY <1>0 DEF QueueState, ToSet
<1>3. \A p \in Queues : m \notin ToSet(queue[p].items)
  BY <1>1 DEF Arrives, Placed
<1>4. PICK after : after = [queue EXCEPT ![o] = q]
  OBVIOUS
<1>5. \A p \in Queues : queue'[p].items = IF p = o THEN q.items ELSE queue[p].items
  <2>1. Scheduled(o, after, drain)
    BY <1>1, <1>4 DEF Arrives
  <2> QED
    BY <1>0, <1>4, <2>1 DEF Scheduled, SameContent
<1>6. CASE refused
  <2>1. \A p \in Queues : queue'[p].items = queue[p].items
    BY <1>1, <1>5, <1>6 DEF Arrives
  <2>2. \A x \in Msgs \ {m} : fate'[x] = fate[x]
    BY <1>0, <1>1, <1>6 DEF Arrives
  <2>3. \A p \in Queues : \A x \in ToSet(queue'[p].items) : fate'[x] = fate[x]
    BY <1>2, <1>3, <2>1, <2>2
  <2> QED
    BY <2>1, <2>3, PlacedKept
<1>7. CASE ~ refused
  <2>1. ToSet(q.items) \subseteq ToSet(queue[o].items) \cup {m}
    <3>1. PICK rest : rest = SubSeq(queue[o].items, n + 1, Len(queue[o].items))
      OBVIOUS
    <3>2. q.items = Append(rest, m) /\ n <= Len(queue[o].items)
      BY <1>1, <1>7, <3>1 DEF Arrives
    <3>3. rest \in Seq(Msgs) /\ ToSet(rest) \subseteq ToSet(queue[o].items)
      BY <1>2, <3>1, <3>2, RestOfQueue
    <3> QED
      BY <3>2, <3>3, OneMore
  <2>2. \A p \in Queues \ {o} : queue'[p].items = queue[p].items
    BY <1>5
  <2>3. ToSet(queue'[o].items) \subseteq ToSet(queue[o].items) \cup {m}
    BY <1>5, <2>1
  <2>4. fate'[m] = "queued"
    BY <1>1, <1>7 DEF Arrives
  <2>5. \A x \in Msgs \ {m} : fate'[x] \in {fate[x], "dropped"}
    BY <1>1, <1>7 DEF Arrives
  <2>6. ASSUME NEW p \in Queues, NEW x \in ToSet(queue'[p].items)
        PROVE  /\ fate'[x] \notin {"new", "refused", "cleared"}
               /\ \A r \in Queues \ {p} : x \notin ToSet(queue'[r].items)
    <3>1. CASE x = m
      <4>1. p = o
        BY <1>3, <2>2, <2>6, <3>1
      <4> QED
        BY <1>3, <2>2, <2>4, <3>1, <4>1
    <3>2. CASE x # m
      <4>1. x \in ToSet(queue[p].items) /\ x \in Msgs
        BY <1>2, <2>2, <2>3, <2>6, <3>2
      <4>2. /\ fate[x] \notin {"new", "refused", "cleared"}
            /\ \A r \in Queues \ {p} : x \notin ToSet(queue[r].items)
        BY <4>1 DEF Placed
      <4>3. fate'[x] \notin {"new", "refused", "cleared"}
        BY <2>5, <3>2, <4>1, <4>2
      <4> QED
        BY <2>2, <2>3, <3>2, <4>2, <4>3
    <3> QED
      BY <3>1, <3>2
  <2> QED
    BY <2>6 DEF Placed
<1> QED
  BY <1>6, <1>7

LEMMA PlacedStep == ASSUME Base, Placed, Next PROVE Placed'
<1>0. /\ Tidy(queue, drain)
      /\ queue \in [Queues -> QueueState]
      /\ registry \in Queues \cup {None}
  BY BaseTyped
<1>1. \A p \in Queues : queue[p].items \in Seq(Msgs) /\ ToSet(queue[p].items) \subseteq Msgs
  BY <1>0 DEF QueueState, ToSet
<1>2. ASSUME NEW m \in Msgs, NEW st \in Settings, NEW active \in BOOLEAN, Enqueue(m, st, active)
      PROVE  Placed'
  BY <1>2, EnqueueKeepsPlaced
<1>3. ASSUME UNCHANGED fate, \A p \in Queues : SameContent(queue'[p], queue[p]) PROVE Placed'
  BY <1>3 DEF Placed, SameContent
<1>4. CASE Aside
  BY <1>4 DEF Aside, StartPrimary, AgentRunStarts, AgentRunEnds, ForgetId, Placed
<1>5. CASE EndPrimary
  <2>1. Scheduled(registry, queue, drain) /\ UNCHANGED fate
    BY <1>0, <1>5, ScheduleDoes DEF EndPrimary
  <2> QED
    BY <1>3, <2>1 DEF Scheduled
<1>6. CASE Clear
  <2>1. PICK q : q = [queue[registry] EXCEPT !.items = <<>>, !.droppedCount = 0,
                                             !.hasRun = FALSE]
    OBVIOUS
  <2>2. registry \in Queues
    BY <1>0, <1>6 DEF Clear
  <2>3. queue' = [queue EXCEPT ![registry] = q]
    BY <1>0, <1>6, <2>1, <2>2 DEF Clear
  <2>4. q.items = <<>>
    BY <1>0, <2>1, <2>2, EmptiedTyped
  <2>5. /\ queue'[registry].items = <<>>
        /\ \A p \in Queues \ {registry} : queue'[p].items = queue[p].items
    BY <1>0, <2>2, <2>3, <2>4
  <2>6. ToSet(queue'[registry].items) = {}
    BY <2>5 DEF ToSet
  <2>7. ASSUME NEW p \in Queues \ {registry}, NEW x \in ToSet(queue[p].items)
        PROVE  fate'[x] = fate[x]
    <3>1. x \notin ToSet(queue[registry].items) /\ x \in Msgs
      BY <1>1, <2>2, <2>7 DEF Placed
    <3>2. fate' = [m \in Msgs |->
                     IF m \in ToSet(queue[registry].items) /\ fate[m] = "queued"
                     THEN "cleared" ELSE fate[m]]
      BY <1>6 DEF Clear
    <3> QED
      BY <3>1, <3>2
  <2> QED
    BY <2>5, <2>6, <2>7, PlacedKept
<1>7. ASSUME NEW o \in Queues, DrainStep(o) \/ TurnFails(o) PROVE Placed'
  <2>1. CASE CollectOne(o) \/ CollectSkips(o) \/ CollectBatch(o) \/ NextSummary(o) \/ NextItem(o)
    <3>1. (Returned(o, queue) \/ TurnStarts(o) \/ Skips(o)) /\ UNCHANGED fate
      BY <2>1, PassDoes
    <3>2. CASE Returned(o, queue)
      BY <1>3, <3>1, <3>2 DEF Returned
    <3>3. CASE TurnStarts(o) \/ Skips(o)
      BY <3>1, <3>3 DEF TurnStarts, Skips, Placed
    <3> QED
      BY <3>1, <3>2, <3>3
  <2>2. CASE TurnDone(o)
    <3>1. PICK qs \in [Queues -> QueueState], n \in Nat : Answers(o, qs, n)
      BY <2>2, TurnDoneDoes
    <3>2. \A p \in Queues : queue'[p].items = qs[p].items
      BY <3>1 DEF Answers, Returned, SameContent
    <3>3. ToSet(qs[o].items) \subseteq ToSet(queue[o].items)
      <4>1. /\ n <= Len(queue[o].items)
            /\ qs[o].items = SubSeq(queue[o].items, n + 1, Len(queue[o].items))
        BY <3>1 DEF Answers
      <4> QED
        BY <1>1, <4>1, RestOfQueue
    <3>4. \A p \in Queues : ToSet(queue'[p].items) \subseteq ToSet(queue[p].items)
      BY <3>1, <3>2, <3>3 DEF Answers
    <3>5. \A x \in Msgs : fate'[x] \in {fate[x], "answered"}
      BY <3>1 DEF Answers
    <3>6. \A p \in Queues : \A x \in ToSet(queue'[p].items) :
             fate'[x] \in {fate[x], "answered", "dropped"}
      BY <1>1, <3>4, <3>5
    <3> QED
      BY <3>4, <3>6, PlacedKept
  <2>3. CASE TurnFails(o)
    <3>1. Returned(o, queue) /\ UNCHANGED fate
      BY <2>3, TurnFailsDoes
    <3> QED
      BY <1>3, <3>1 DEF Returned
  <2> QED
    BY <1>7, <2>1, <2>2, <2>3 DEF DrainStep
<1> QED
  BY <1>2, <1>4, <1>5, <1>6, <1>7 DEF Next, Aside

THEOREM PlacedAlways == Spec => [](Base /\ Placed)
<1>1. Init => Base /\ Placed
  BY BaseInit, PlacedInit
<1>2. Base /\ Placed /\ [Next]_vars => (Base /\ Placed)'
  <2>1. ASSUME Base, Placed, UNCHANGED vars PROVE Base' /\ Placed'
    BY <2>1 DEF vars, runs, Base, TypeOK, Shaped, Placed
  <2> QED
    BY <2>1, BaseStep, PlacedStep
<1> QED
  BY <1>1, <1>2, PTL DEF Spec

\* ClearedNeverRun: clearSessionQueues takes the messages from the drain that holds
\* their object, too: none that was cleared is given to a turn that starts later.
THEOREM ClearedMessagesNeverRun == Spec => ClearedNeverRun
<1>1. ASSUME Base, Placed, [Next]_vars
      PROVE  [\A o \in Queues : drain'[o].at = "running" /\ drain[o].at # "running" =>
                 \A m \in ToSet(drain'[o].taken) : fate[m] # "cleared"]_vars
  <2>1. CASE UNCHANGED vars
    BY <2>1
  <2>2. ASSUME Next, NEW o \in Queues, drain'[o].at = "running", drain[o].at # "running",
               NEW m \in ToSet(drain'[o].taken)
        PROVE  fate[m] # "cleared"
    <3>1. TurnStarts(o)
      BY <1>1, <2>2, WhoStarts
    <3>2. queue \in [Queues -> QueueState]
      BY <1>1, BaseTyped
    <3>3. queue[o].items \in Seq(Msgs) /\ drain'[o].taken \in Seq(Msgs)
      BY <3>1, <3>2 DEF TurnStarts, QueueState, DrainState
    <3>4. PICK n \in Nat : n = Len(drain'[o].taken)
      BY <3>3
    <3>5. drain'[o].taken = SubSeq(queue[o].items, 1, n) /\ n <= Len(queue[o].items)
      BY <3>1, <3>4 DEF TurnStarts
    <3>6. m \in ToSet(queue[o].items)
      BY <2>2, <3>3, <3>5, RestOfQueue
    <3> QED
      BY <1>1, <3>6 DEF Placed
  <2> QED
    BY <1>1, <2>1, <2>2
<1> QED
  BY <1>1, PlacedAlways, PTL DEF Spec, ClearedNeverRun

-----------------------------------------------------------------------------
(* One drain *)

\* Until the key is deleted under a drain, the drain is the one of the key's object.
Held == clears = 0 => \A o \in Queues : drain[o].at # "idle" => registry = o

LEMMA ClearsAreCounted == ASSUME clears \in Nat, clears # 0, Next PROVE clears' # 0
<1>1. ASSUME NEW m \in Msgs, NEW st \in Settings, NEW active \in BOOLEAN, Enqueue(m, st, active)
      PROVE  clears' = clears
  BY <1>1 DEF Enqueue
<1>2. ASSUME Aside \/ EndPrimary
      PROVE  clears' = clears
  BY <1>2 DEF Aside, StartPrimary, AgentRunStarts, AgentRunEnds, EndPrimary, ForgetId
<1>3. Clear => clears' = clears + 1
  BY DEF Clear
<1>4. ASSUME NEW o \in Queues, DrainStep(o) \/ TurnFails(o) PROVE clears' = clears
  BY <1>4 DEF DrainStep, CollectOne, CollectSkips, CollectBatch, NextSummary, NextItem,
       TurnDone, TurnFails, OthersKeep
<1> QED
  BY <1>1, <1>2, <1>3, <1>4 DEF Next, Aside

LEMMA HeldStep == ASSUME Base, Held, Next PROVE Held'
<1>0. /\ Tidy(queue, drain)
      /\ queue \in [Queues -> QueueState]
      /\ registry \in Queues \cup {None}
      /\ made \in Nat /\ Queues \subseteq Nat \ {0}
      /\ clears \in Nat
  BY BaseTyped DEF Base, TypeOK
<1> SUFFICES ASSUME clears' = 0, NEW p \in Queues, drain'[p].at # "idle"
             PROVE  registry' = p
  BY DEF Held
<1>1. CASE clears # 0
  BY <1>0, <1>1, ClearsAreCounted
<1>2. CASE clears = 0
  <2>0. \A o \in Queues : drain[o].at # "idle" => registry = o
    BY <1>2 DEF Held
  <2>1. ASSUME NEW reg \in Queues \cup {None}, NEW qs, Scheduled(reg, qs, drain),
               registry \in {reg, None}
        PROVE  registry' = p
    <3>1. CASE p = registry'
      BY <3>1
    <3>2. CASE drain'[p] = drain[p]
      <4>1. registry = p
        BY <2>0, <3>2
      <4>2. reg = p
        BY <2>1, <4>1, BoundsAssumption
      <4> QED
        BY <2>1, <3>2, <4>2 DEF Scheduled
    <3> QED
      BY <2>1, <3>1, <3>2 DEF Scheduled
  <2>2. ASSUME NEW o \in Queues, drain[o].at # "idle", NEW qs, Returned(o, qs)
        PROVE  registry' = p
    <3>1. registry = o
      BY <2>0, <2>2
    <3>2. CASE p = o
      BY <2>2, <3>1, <3>2 DEF Returned
    <3>3. CASE p # o
      <4>1. drain'[p] = drain[p]
        BY <2>2, <3>1, <3>3 DEF Returned
      <4> QED
        BY <2>0, <3>1, <3>3, <4>1
    <3> QED
      BY <3>2, <3>3
  <2>3. ASSUME NEW m \in Msgs, NEW st \in Settings, NEW active \in BOOLEAN,
               Enqueue(m, st, active)
        PROVE  registry' = p
    <3>1. PICK o \in Queues, q \in QueueState, n \in Nat, refused \in BOOLEAN :
                  Arrives(m, st, o, q, n, refused)
      BY <2>3, EnqueueDoes
    <3> QED
      BY <2>1, <3>1 DEF Arrives
  <2>4. CASE Aside
    BY <2>0, <2>4 DEF Aside, StartPrimary, AgentRunStarts, AgentRunEnds, ForgetId
  <2>5. CASE EndPrimary
    <3>1. Scheduled(registry, queue, drain)
      BY <1>0, <2>5, ScheduleDoes DEF EndPrimary
    <3> QED
      BY <1>0, <2>1, <3>1
  <2>6. ~ Clear
    BY <1>2 DEF Clear
  <2>7. ASSUME NEW o \in Queues, DrainStep(o) \/ TurnFails(o) PROVE registry' = p
    <3>1. CASE CollectOne(o) \/ CollectSkips(o) \/ CollectBatch(o) \/ NextSummary(o) \/ NextItem(o)
      <4>1. /\ drain[o].at \in {"debounce", "collect"}
            /\ Returned(o, queue) \/ TurnStarts(o) \/ Skips(o)
        BY <3>1, PassDoes
      <4>2. CASE Returned(o, queue)
        BY <2>2, <4>1, <4>2
      <4>3. CASE TurnStarts(o) \/ Skips(o)
        <5>1. registry' = registry /\ \A r \in Queues \ {o} : drain'[r] = drain[r]
          BY <4>3 DEF TurnStarts, Skips
        <5>2. drain[p].at # "idle"
          BY <4>1, <5>1
        <5> QED
          BY <2>0, <5>1, <5>2
      <4> QED
        BY <4>1, <4>2, <4>3
    <3>2. CASE TurnDone(o)
      <4>1. PICK qs \in [Queues -> QueueState], n \in Nat : Answers(o, qs, n)
        BY <3>2, TurnDoneDoes
      <4> QED
        BY <2>2, <4>1 DEF Answers
    <3>3. CASE TurnFails(o)
      BY <2>2, <3>3, TurnFailsDoes
    <3> QED
      BY <2>7, <3>1, <3>2, <3>3 DEF DrainStep
  <2> QED
    BY <2>3, <2>4, <2>5, <2>6, <2>7 DEF Next, Aside
<1> QED
  BY <1>1, <1>2

THEOREM HeldAlways == Spec => [](Base /\ Held)
<1>1. Init => Base /\ Held
  <2>1. ASSUME Init PROVE Held
    BY <2>1, IdleTyped DEF Init, Held
  <2> QED
    BY <2>1, BaseInit
<1>2. Base /\ Held /\ [Next]_vars => (Base /\ Held)'
  <2>1. ASSUME Base, Held, UNCHANGED vars PROVE Base' /\ Held'
    BY <2>1 DEF vars, runs, Base, TypeOK, Shaped, Held
  <2> QED
    BY <2>1, BaseStep, HeldStep
<1> QED
  BY <1>1, <1>2, PTL DEF Spec

\* OneDrain: until the session's queues are cleared for the first time, the session has
\* one drain at a time.  (A clear deletes the key under a drain that goes on, and the
\* next message gets the key a new object with a drain of its own.)
THEOREM OneDrainUntilCleared == Spec => [](clears = 0 => OneDrain)
<1>1. ASSUME Held, clears = 0 PROVE OneDrain
  <2>1. PICK busy : busy = {o \in Queues : drain[o].at # "idle"}
    OBVIOUS
  <2>2. busy \subseteq {registry}
    BY <1>1, <2>1 DEF Held
  <2>3. IsFiniteSet({registry}) /\ Cardinality({registry}) = 1
    BY FS_Singleton
  <2>4. Cardinality(busy) <= 1
    BY <2>2, <2>3, FS_Subset
  <2> QED
    BY <2>1, <2>4 DEF OneDrain
<1> QED
  BY <1>1, HeldAlways, PTL

-----------------------------------------------------------------------------
(* Nothing is lost and the order is kept, as long as nothing is cleared or dropped *)

\* clearSessionQueues was not called and the drop policy took nothing from a queue.
Calm == clears = 0 /\ \A m \in Msgs : fate[m] # "dropped"

\* The first k arrivals are answered, and the key's queue is the others.
LineAt(k) ==
    /\ \A i \in 1 .. k : fate[arrivals[i]] = "answered"
    /\ \A i \in k + 1 .. Len(arrivals) : fate[arrivals[i]] = "queued"
    /\ IF registry = None THEN k = Len(arrivals)
       ELSE queue[registry].items = SubSeq(arrivals, k + 1, Len(arrivals))

\* What a turn was given is still in front of the queue it was copied from: the shift or
\* splice that follows it removes what was answered.
InFront(q, d) ==
    d.at = "running" =>
       d.kind # "summary" /\ Len(d.taken) <= Len(q.items)
       /\ d.taken = SubSeq(q.items, 1, Len(d.taken))

InLine ==
    /\ \A i, j \in DOMAIN arrivals : i # j => arrivals[i] # arrivals[j]
    /\ \A m \in Msgs : fate[m] = "queued" => m \in ToSet(arrivals)
    /\ \A o \in Queues : queue[o].droppedCount = 0
    /\ \A o \in Queues : InFront(queue[o], drain[o])
    /\ \E k \in 0 .. Len(arrivals) : LineAt(k)

LEMMA FrontOfMore ==
    ASSUME NEW s \in Seq(Msgs), NEW m \in Msgs, NEW n \in Nat, n <= Len(s)
    PROVE  /\ SubSeq(Append(s, m), 1, n) = SubSeq(s, 1, n)
           /\ n <= Len(Append(s, m))
<1>1. Append(s, m) \in Seq(Msgs) /\ Len(Append(s, m)) = Len(s) + 1
  OBVIOUS
<1>2. \A i \in 1 .. Len(s) : Append(s, m)[i] = s[i]
  OBVIOUS
<1>3. Len(SubSeq(Append(s, m), 1, n)) = n /\ Len(SubSeq(s, 1, n)) = n
  BY <1>1
<1>4. \A i \in 1 .. n : SubSeq(Append(s, m), 1, n)[i] = SubSeq(s, 1, n)[i]
  BY <1>1, <1>2
<1>5. SubSeq(Append(s, m), 1, n) \in Seq(Msgs) /\ SubSeq(s, 1, n) \in Seq(Msgs)
  BY <1>1
<1> QED
  BY <1>1, <1>3, <1>4, <1>5

LEMMA TailOfQueue ==
    ASSUME NEW s \in Seq(Msgs), NEW n \in Nat, n <= Len(s)
    PROVE  /\ SubSeq(s, n + 1, Len(s)) \in Seq(Msgs)
           /\ Len(SubSeq(s, n + 1, Len(s))) = Len(s) - n
           /\ \A i \in 1 .. Len(s) - n : SubSeq(s, n + 1, Len(s))[i] = s[n + i]
           /\ SubSeq(s, n + 1, Len(s)) = <<>> => n = Len(s)
<1>1. Len(s) \in Nat
  OBVIOUS
<1>2. /\ SubSeq(s, n + 1, Len(s)) \in Seq(Msgs)
      /\ Len(SubSeq(s, n + 1, Len(s))) = Len(s) - n
      /\ \A i \in 1 .. Len(s) - n : SubSeq(s, n + 1, Len(s))[i] = s[n + i]
  BY <1>1
<1>3. ASSUME SubSeq(s, n + 1, Len(s)) = <<>> PROVE n = Len(s)
  <2>1. PICK t \in Seq(Msgs) : t = SubSeq(s, n + 1, Len(s))
    BY <1>2
  <2>2. t = <<>> => Len(t) = 0
    OBVIOUS
  <2>3. Len(s) - n = 0
    BY <1>2, <1>3, <2>1, <2>2
  <2> QED
    BY <1>1, <2>3
<1> QED
  BY <1>2, <1>3

\* The tail of a tail.
LEMMA RestOfRest ==
    ASSUME NEW a \in Seq(Msgs), NEW k \in 0 .. Len(a), NEW n \in Nat,
           NEW s \in Seq(Msgs), s = SubSeq(a, k + 1, Len(a)), n <= Len(s)
    PROVE  /\ k + n \in 0 .. Len(a)
           /\ SubSeq(s, n + 1, Len(s)) = SubSeq(a, (k + n) + 1, Len(a))
           /\ \A i \in 1 .. n : SubSeq(s, 1, n)[i] = a[k + i]
           /\ Len(SubSeq(s, 1, n)) = n
<1>1. Len(a) \in Nat /\ k \in Nat
  OBVIOUS
<1>2. /\ s \in Seq(Msgs) /\ Len(s) = Len(a) - k
      /\ \A i \in 1 .. Len(s) : s[i] = a[k + i]
  BY <1>1
<1>3. k + n \in 0 .. Len(a)
  BY <1>1, <1>2
<1>4. PICK l \in Nat : l = k + n
  BY <1>1
<1>5. /\ SubSeq(s, n + 1, Len(s)) \in Seq(Msgs)
      /\ Len(SubSeq(s, n + 1, Len(s))) = Len(s) - n
      /\ \A i \in 1 .. Len(s) - n : SubSeq(s, n + 1, Len(s))[i] = s[n + i]
  BY <1>2, TailOfQueue
<1>6. /\ SubSeq(a, l + 1, Len(a)) \in Seq(Msgs)
      /\ Len(SubSeq(a, l + 1, Len(a))) = Len(a) - l
      /\ \A i \in 1 .. Len(a) - l : SubSeq(a, l + 1, Len(a))[i] = a[l + i]
  BY <1>1, <1>3, <1>4
<1>7. \A i \in 1 .. Len(s) - n : s[n + i] = a[l + i]
  BY <1>1, <1>2, <1>4
<1>8. SubSeq(s, n + 1, Len(s)) = SubSeq(a, l + 1, Len(a))
  BY <1>1, <1>2, <1>4, <1>5, <1>6, <1>7
<1>9. Len(SubSeq(s, 1, n)) = n /\ \A i \in 1 .. n : SubSeq(s, 1, n)[i] = s[i]
  BY <1>1, <1>2
<1> QED
  BY <1>1, <1>2, <1>3, <1>4, <1>8, <1>9

\* The line after a step that leaves the queues, the arrivals and the fates alone, or
\* deletes the key of an empty queue.
LEMMA LineStays ==
    ASSUME Base, NEW k \in 0 .. Len(arrivals), LineAt(k), UNCHANGED <<fate, arrivals>>,
           \A p \in Queues : queue'[p].items = queue[p].items,
           \/ registry' = registry
           \/ registry' = None /\ registry \in Queues /\ queue[registry].items = <<>>
    PROVE  LineAt(k)'
<1>0. /\ registry \in Queues \cup {None} /\ arrivals \in Seq(Msgs)
      /\ Len(arrivals) \in Nat /\ k \in Nat
  BY BaseTyped
<1>1. CASE registry' = registry
  BY <1>0, <1>1 DEF LineAt
<1>2. CASE registry' = None /\ registry \in Queues /\ queue[registry].items = <<>>
  <2>1. SubSeq(arrivals, k + 1, Len(arrivals)) = <<>>
    BY <1>2, BoundsAssumption DEF LineAt
  <2>2. k = Len(arrivals)
    BY <1>0, <2>1, TailOfQueue
  <2> QED
    BY <1>2, <2>2 DEF LineAt
<1> QED
  BY <1>1, <1>2

LEMMA ContentsKeepLine ==
    ASSUME Base, InLine, UNCHANGED <<fate, arrivals>>,
           \A p \in Queues : SameContent(queue'[p], queue[p]),
           \/ registry' = registry
           \/ registry' = None /\ registry \in Queues /\ ~ HasWork(queue[registry]),
           \A p \in Queues : \/ drain'[p] = drain[p]
                             \/ drain'[p].at # "running"
                             \/ TurnStarts(p)
    PROVE  InLine'
<1>1. PICK k \in 0 .. Len(arrivals) : LineAt(k)
  BY DEF InLine
<1>2. \A p \in Queues : /\ queue'[p].items = queue[p].items
                        /\ queue'[p].droppedCount = queue[p].droppedCount
  BY DEF SameContent
<1>3. LineAt(k)'
  <2>1. \A p \in Queues : ~ HasWork(queue[p]) => queue[p].items = <<>>
    BY DEF HasWork
  <2>2. \/ registry' = registry
        \/ registry' = None /\ registry \in Queues /\ queue[registry].items = <<>>
    BY <2>1
  <2>3. \A p \in Queues : queue'[p].items = queue[p].items
    BY <1>2
  <2> QED
    BY <1>1, <2>2, <2>3, LineStays
<1>4. ASSUME NEW p \in Queues PROVE InFront(queue'[p], drain'[p])
  <2>1. CASE drain'[p] = drain[p]
    BY <1>2, <2>1 DEF InLine, InFront
  <2>2. CASE drain'[p].at # "running"
    BY <2>2 DEF InFront
  <2>3. CASE TurnStarts(p)
    BY <1>2, <2>3 DEF InLine, InFront, TurnStarts
  <2> QED
    BY <2>1, <2>2, <2>3
<1>5. \A p \in Queues : queue'[p].droppedCount = 0
  BY <1>2 DEF InLine
<1>6. \E l \in 0 .. Len(arrivals') : LineAt(l)'
  BY <1>1, <1>3
<1> QED
  BY <1>4, <1>5, <1>6 DEF InLine

LEMMA TailOfMore ==
    ASSUME NEW a \in Seq(Msgs), NEW m \in Msgs, NEW k \in 0 .. Len(a)
    PROVE  Append(SubSeq(a, k + 1, Len(a)), m)
              = SubSeq(Append(a, m), k + 1, Len(Append(a, m)))
<1>1. PICK b : b = Append(a, m)
  OBVIOUS
<1>2. /\ b \in Seq(Msgs) /\ Len(b) = Len(a) + 1 /\ Len(a) \in Nat
      /\ \A i \in 1 .. Len(a) : b[i] = a[i]
      /\ b[Len(a) + 1] = m
  BY <1>1
<1>3. PICK s : s = SubSeq(a, k + 1, Len(a))
  OBVIOUS
<1>4. /\ s \in Seq(Msgs) /\ Len(s) = Len(a) - k
      /\ \A i \in 1 .. Len(a) - k : s[i] = a[k + i]
  BY <1>3, TailOfQueue
<1>5. PICK r : r = Append(s, m)
  OBVIOUS
<1>6. /\ r \in Seq(Msgs) /\ Len(r) = Len(s) + 1
      /\ \A i \in 1 .. Len(s) : r[i] = s[i]
      /\ r[Len(s) + 1] = m
  BY <1>4, <1>5
<1>7. PICK u : u = SubSeq(b, k + 1, Len(b))
  OBVIOUS
<1>8. /\ u \in Seq(Msgs) /\ Len(u) = Len(b) - k
      /\ \A i \in 1 .. Len(b) - k : u[i] = b[k + i]
  BY <1>2, <1>7, TailOfQueue
<1>9. Len(r) = Len(u) /\ \A i \in 1 .. Len(r) : r[i] = u[i]
  <2>1. Len(r) = Len(u)
    BY <1>2, <1>4, <1>6, <1>8
  <2>2. ASSUME NEW i \in 1 .. Len(r) PROVE r[i] = u[i]
    <3>1. CASE i \in 1 .. Len(s)
      <4>1. r[i] = a[k + i] /\ k + i \in 1 .. Len(a)
        BY <1>2, <1>4, <1>6, <3>1
      <4>2. u[i] = b[k + i]
        BY <1>2, <1>4, <1>8, <3>1
      <4> QED
        BY <1>2, <4>1, <4>2
    <3>2. CASE i = Len(s) + 1
      <4>1. k + i = Len(a) + 1 /\ i \in 1 .. Len(b) - k
        BY <1>2, <1>4, <3>2
      <4> QED
        BY <1>2, <1>6, <1>8, <3>2, <4>1
    <3> QED
      BY <1>4, <1>6, <3>1, <3>2
  <2> QED
    BY <2>1, <2>2
<1>10. r = u
  BY <1>6, <1>8, <1>9
<1> QED
  BY <1>1, <1>3, <1>5, <1>7, <1>10

LEMMA EnqueueKeepsLine ==
    ASSUME Base, InLine, Calm', NEW m \in Msgs, NEW st \in Settings, NEW active \in BOOLEAN,
           Enqueue(m, st, active)
    PROVE  InLine'
<1>0. /\ queue \in [Queues -> QueueState]
      /\ drain \in [Queues -> DrainState]
      /\ registry \in Queues \cup {None}
      /\ fate \in [Msgs -> Fates]
      /\ arrivals \in Seq(Msgs) /\ Len(arrivals) \in Nat
      /\ made \in Nat /\ Queues \subseteq Nat \ {0}
  BY BaseTyped
<1>1. PICK o \in Queues, q \in QueueState, n \in Nat, refused \in BOOLEAN :
              Arrives(m, st, o, q, n, refused)
  BY EnqueueDoes
<1>2. PICK k \in 0 .. Len(arrivals) : LineAt(k)
  BY DEF InLine
<1>3. PICK items \in Seq(Msgs) : items = queue[o].items
  BY <1>0 DEF QueueState
\* The queue the message finds, new or not, is what is left of the arrivals.
<1>4. items = SubSeq(arrivals, k + 1, Len(arrivals))
  <2>1. CASE registry = None
    <3>1. o = made + 1
      BY <1>1, <2>1, BoundsAssumption DEF Arrives
    <3>2. items = <<>>
      BY <1>0, <1>3, <3>1 DEF Base, Shaped
    <3>3. k = Len(arrivals)
      BY <1>2, <2>1 DEF LineAt
    <3>4. SubSeq(arrivals, k + 1, Len(arrivals)) = <<>>
      BY <1>0, <3>3
    <3> QED
      BY <3>2, <3>4
  <2>2. CASE registry # None
    BY <1>1, <1>2, <1>3, <2>2 DEF Arrives, LineAt
  <2> QED
    BY <2>1, <2>2
<1>5. /\ Len(items) = Len(arrivals) - k
      /\ \A i \in 1 .. Len(arrivals) - k : items[i] = arrivals[k + i]
      /\ items = <<>> => k = Len(arrivals)
  BY <1>0, <1>4, TailOfQueue
<1>6. PICK after : after = [queue EXCEPT ![o] = q]
  OBVIOUS
<1>7. /\ Scheduled(o, after, drain)
      /\ after[o] = q /\ \A p \in Queues \ {o} : after[p] = queue[p]
  BY <1>0, <1>1, <1>6 DEF Arrives
<1>8. /\ queue'[o].items = q.items /\ queue'[o].droppedCount = q.droppedCount
      /\ \A p \in Queues \ {o} : /\ queue'[p].items = queue[p].items
                                 /\ queue'[p].droppedCount = queue[p].droppedCount
      /\ \A p \in Queues : drain'[p] = drain[p] \/ drain'[p].at # "running"
  BY <1>7 DEF Scheduled, SameContent
<1>9. registry' = o \/ (registry' = None /\ q.items = <<>>)
  <2>1. ~ HasWork(after[o]) => q.items = <<>>
    BY <1>7 DEF HasWork
  <2>2. registry' = o \/ (registry' = None /\ ~ HasWork(after[o]))
    BY <1>7 DEF Scheduled
  <2> QED
    BY <2>1, <2>2
<1>10. \A i \in DOMAIN arrivals : arrivals[i] \in Msgs /\ arrivals[i] # m
  <2>1. \A i \in 1 .. Len(arrivals) : fate[arrivals[i]] \in {"answered", "queued"}
    BY <1>0, <1>2 DEF LineAt
  <2>2. fate[m] = "new"
    BY <1>1 DEF Arrives
  <2> QED
    BY <1>0, <2>1, <2>2
<1>11. \A p \in Queues : queue[p].droppedCount = 0 /\ InFront(queue[p], drain[p])
  BY DEF InLine
<1>12. CASE refused
  <2>1. /\ q.items = items /\ q.droppedCount = 0
        /\ arrivals' = arrivals /\ fate' = [fate EXCEPT ![m] = "refused"]
    BY <1>1, <1>3, <1>11, <1>12 DEF Arrives
  <2>2. \A p \in Queues : queue'[p].items = queue[p].items /\ queue'[p].droppedCount = 0
    BY <1>3, <1>8, <1>11, <2>1
  <2>3. \A p \in Queues : InFront(queue'[p], drain'[p])
    BY <1>8, <1>11, <2>2 DEF InFront
  <2>4. \A i \in 1 .. Len(arrivals) : fate'[arrivals[i]] = fate[arrivals[i]]
    BY <1>0, <1>10, <2>1
  <2>5. IF registry' = None THEN k = Len(arrivals)
        ELSE queue'[registry'].items = SubSeq(arrivals, k + 1, Len(arrivals))
    BY <1>4, <1>5, <1>8, <1>9, <2>1, BoundsAssumption
  <2>6. LineAt(k)'
    BY <1>0, <1>2, <2>1, <2>4, <2>5 DEF LineAt
  <2>7. \A x \in Msgs : fate'[x] = "queued" => fate[x] = "queued"
    BY <1>0, <2>1
  <2> QED
    BY <2>1, <2>2, <2>3, <2>6, <2>7 DEF InLine
<1>13. CASE ~ refused
  <2>1. n = 0
    <3> SUFFICES ASSUME n # 0 PROVE FALSE
      OBVIOUS
    <3>1. 1 \in 1 .. n /\ n <= Len(items)
      BY <1>1, <1>3 DEF Arrives
    <3>2. k + 1 \in k + 1 .. Len(arrivals) /\ items[1] = arrivals[k + 1]
      BY <1>0, <1>5, <3>1
    <3>3. fate[items[1]] = "queued" /\ items[1] \in Msgs
      BY <1>0, <1>2, <1>10, <3>2 DEF LineAt
    <3>4. fate'[items[1]] = "dropped"
      BY <1>1, <1>3, <1>13, <3>1, <3>3 DEF Arrives
    <3> QED
      BY <3>3, <3>4 DEF Calm
  <2>2. q.items = Append(items, m)
    <3>1. q.items = Append(SubSeq(items, 1, Len(items)), m)
      BY <1>1, <1>3, <1>13, <2>1 DEF Arrives
    <3>2. SubSeq(items, 1, Len(items)) = items
      BY TakenFront
    <3> QED
      BY <3>1, <3>2
  <2>3. /\ q.droppedCount = 0 /\ arrivals' = Append(arrivals, m)
        /\ fate'[m] = "queued" /\ \A x \in Msgs \ {m} : fate'[x] = fate[x]
    BY <1>1, <1>11, <1>13, <2>1 DEF Arrives
  <2>4. registry' = o
    <3>1. PICK s : s = Append(items, m)
      OBVIOUS
    <3>2. s # <<>>
      BY <3>1
    <3> QED
      BY <1>9, <2>2, <3>1, <3>2
  <2>5. /\ arrivals' \in Seq(Msgs) /\ Len(arrivals') = Len(arrivals) + 1
        /\ \A i \in 1 .. Len(arrivals) : arrivals'[i] = arrivals[i]
        /\ arrivals'[Len(arrivals) + 1] = m
    BY <1>0, <2>3
  <2>6. queue'[o].items = SubSeq(arrivals', k + 1, Len(arrivals'))
    <3>1. Append(items, m) = SubSeq(Append(arrivals, m), k + 1, Len(Append(arrivals, m)))
      BY <1>0, <1>4, TailOfMore
    <3> QED
      BY <1>8, <2>2, <2>3, <3>1
  <2>7. \A i \in 1 .. Len(arrivals) : fate'[arrivals'[i]] = fate[arrivals[i]]
    BY <1>0, <1>10, <2>3, <2>5
  <2>8. LineAt(k)'
    <3>1. \A i \in 1 .. k : fate'[arrivals'[i]] = "answered"
      BY <1>0, <1>2, <2>7 DEF LineAt
    <3>2. \A i \in k + 1 .. Len(arrivals') : fate'[arrivals'[i]] = "queued"
      <4>1. \A i \in k + 1 .. Len(arrivals) : fate'[arrivals'[i]] = "queued"
        BY <1>0, <1>2, <2>7 DEF LineAt
      <4> QED
        BY <1>0, <2>3, <2>5, <4>1
    <3> QED
      BY <2>4, <2>6, <3>1, <3>2, BoundsAssumption DEF LineAt
  <2>9. k \in 0 .. Len(arrivals')
    BY <1>0, <2>5
  <2>10. \A i, j \in DOMAIN arrivals' : i # j => arrivals'[i] # arrivals'[j]
    <3>1. \A i, j \in 1 .. Len(arrivals) : i # j => arrivals[i] # arrivals[j]
      BY <1>0 DEF InLine
    <3>2. DOMAIN arrivals' = 1 .. Len(arrivals) + 1
      BY <2>5
    <3>3. \A i \in 1 .. Len(arrivals) : arrivals'[i] = arrivals[i] /\ arrivals[i] # m
      BY <1>0, <1>10, <2>5
    <3>4. ASSUME NEW i \in 1 .. Len(arrivals) + 1, NEW j \in 1 .. Len(arrivals) + 1, i # j
          PROVE  arrivals'[i] # arrivals'[j]
      <4>1. CASE i \in 1 .. Len(arrivals) /\ j \in 1 .. Len(arrivals)
        BY <3>1, <3>3, <3>4, <4>1
      <4>2. CASE i = Len(arrivals) + 1 /\ j \in 1 .. Len(arrivals)
        BY <2>5, <3>3, <4>2
      <4>3. CASE j = Len(arrivals) + 1 /\ i \in 1 .. Len(arrivals)
        BY <2>5, <3>3, <4>3
      <4>4. Len(arrivals) \in Nat
        BY <1>0
      <4>5. /\ i \in 1 .. Len(arrivals) \/ i = Len(arrivals) + 1
            /\ j \in 1 .. Len(arrivals) \/ j = Len(arrivals) + 1
        BY <4>4, LastIndex
      <4> QED
        BY <3>4, <4>1, <4>2, <4>3, <4>5
    <3> QED
      BY <3>2, <3>4
  <2>11. \A x \in Msgs : fate'[x] = "queued" => x \in ToSet(arrivals')
    <3>1. ToSet(arrivals') = ToSet(arrivals) \cup {m}
      BY <1>0, <2>3, OneMore
    <3> QED
      BY <2>3, <3>1 DEF InLine
  <2>12. \A p \in Queues : queue'[p].droppedCount = 0
    BY <1>8, <1>11, <2>3
  <2>13. ASSUME NEW p \in Queues PROVE InFront(queue'[p], drain'[p])
    <3>1. CASE p # o \/ drain'[p].at # "running"
      BY <1>8, <1>11, <3>1 DEF InFront
    <3>2. CASE p = o /\ drain'[p].at = "running"
      <4>1. drain'[o] = drain[o] /\ queue'[o].items = Append(items, m)
        BY <1>8, <2>2, <3>2
      <4>2. PICK d : d = drain[o]
        OBVIOUS
      <4>3. d.taken \in Seq(Msgs) /\ Len(d.taken) \in Nat
        BY <1>0, <4>2 DEF DrainState
      <4>4. d.kind # "summary" /\ Len(d.taken) <= Len(items)
            /\ d.taken = SubSeq(items, 1, Len(d.taken))
        BY <1>3, <1>11, <3>2, <4>1, <4>2 DEF InFront
      <4>5. /\ SubSeq(Append(items, m), 1, Len(d.taken)) = SubSeq(items, 1, Len(d.taken))
            /\ Len(d.taken) <= Len(Append(items, m))
        BY <4>3, <4>4, FrontOfMore
      <4> QED
        BY <3>2, <4>1, <4>2, <4>4, <4>5 DEF InFront
    <3> QED
      BY <3>1, <3>2
  <2> QED
    BY <2>8, <2>9, <2>10, <2>11, <2>12, <2>13 DEF InLine
<1> QED
  BY <1>12, <1>13

LEMMA TurnDoneKeepsLine ==
    ASSUME Base, Held, InLine, clears = 0, NEW o \in Queues, TurnDone(o)
    PROVE  InLine'
<1>0. /\ queue \in [Queues -> QueueState]
      /\ drain \in [Queues -> DrainState]
      /\ fate \in [Msgs -> Fates]
      /\ arrivals \in Seq(Msgs) /\ Len(arrivals) \in Nat
  BY BaseTyped
<1>1. PICK qs \in [Queues -> QueueState], n \in Nat : Answers(o, qs, n)
  BY TurnDoneDoes
<1>2. PICK k \in 0 .. Len(arrivals) : LineAt(k)
  BY DEF InLine
<1>3. registry = o /\ \A p \in Queues \ {o} : drain[p].at = "idle"
  BY <1>1 DEF Held, Answers
<1>4. PICK items \in Seq(Msgs) : items = queue[o].items
  BY <1>0 DEF QueueState
<1>5. items = SubSeq(arrivals, k + 1, Len(arrivals))
  BY <1>2, <1>3, <1>4, BoundsAssumption DEF LineAt
<1>6. /\ drain[o].at = "running" /\ InFront(queue[o], drain[o])
      /\ qs[o].items = SubSeq(items, n + 1, Len(items))
      /\ Len(drain[o].taken) <= Len(items) => n = Len(drain[o].taken)
      /\ fate' = [m \in Msgs |-> IF drain[o].kind # "summary" /\ m \in ToSet(drain[o].taken)
                                 THEN "answered" ELSE fate[m]]
      /\ arrivals' = arrivals
      /\ Returned(o, qs)
  BY <1>1, <1>4 DEF Answers, InLine
<1>7. PICK taken \in Seq(Msgs) : taken = drain[o].taken
  BY <1>0 DEF DrainState
<1>8. /\ n = Len(taken) /\ n <= Len(items) /\ taken = SubSeq(items, 1, n)
      /\ fate' = [m \in Msgs |-> IF m \in ToSet(taken) THEN "answered" ELSE fate[m]]
  BY <1>4, <1>6, <1>7 DEF InFront
<1>9. /\ k + n \in 0 .. Len(arrivals)
      /\ SubSeq(items, n + 1, Len(items)) = SubSeq(arrivals, (k + n) + 1, Len(arrivals))
      /\ \A i \in 1 .. n : taken[i] = arrivals[k + i]
  <2>1. /\ k + n \in 0 .. Len(arrivals)
        /\ SubSeq(items, n + 1, Len(items)) = SubSeq(arrivals, (k + n) + 1, Len(arrivals))
        /\ \A i \in 1 .. n : SubSeq(items, 1, n)[i] = arrivals[k + i]
    <3>1. n <= Len(items) /\ arrivals \in Seq(Msgs)
      BY <1>0, <1>8
    <3> QED
      BY <1>5, <3>1, RestOfRest
  <2> QED
    BY <1>8, <2>1
<1>10. PICK l \in 0 .. Len(arrivals) : l = k + n
  BY <1>9
<1>11. ToSet(taken) = {arrivals[i] : i \in k + 1 .. l}
  <2>1. ToSet(taken) = {taken[i] : i \in 1 .. n}
    <3>1. DOMAIN taken = 1 .. n
      BY <1>8
    <3> QED
      BY <3>1 DEF ToSet
  <2>2. \A i \in 1 .. n : k + i \in k + 1 .. l
    BY <1>10
  <2>3. \A j \in k + 1 .. l : j - k \in 1 .. n /\ k + (j - k) = j
    BY <1>10
  <2>4. \A j \in k + 1 .. l : arrivals[j] = taken[j - k]
    BY <1>9, <2>3
  <2>5. \A i \in 1 .. n : taken[i] \in {arrivals[j] : j \in k + 1 .. l}
    BY <1>9, <2>2
  <2>6. \A j \in k + 1 .. l : arrivals[j] \in {taken[i] : i \in 1 .. n}
    BY <2>3, <2>4
  <2> QED
    BY <2>1, <2>5, <2>6
<1>12. \A i \in 1 .. Len(arrivals) : arrivals[i] \in Msgs
  BY <1>0
<1>13. \A i \in 1 .. l : fate'[arrivals[i]] = "answered"
  <2>1. ASSUME NEW i \in 1 .. k PROVE fate'[arrivals[i]] = "answered"
    <3>1. fate[arrivals[i]] = "answered" /\ arrivals[i] \in Msgs
      BY <1>0, <1>2, <1>12 DEF LineAt
    <3> QED
      BY <1>8, <3>1
  <2>2. ASSUME NEW i \in k + 1 .. l PROVE fate'[arrivals[i]] = "answered"
    <3>1. arrivals[i] \in ToSet(taken) /\ arrivals[i] \in Msgs
      BY <1>0, <1>11, <1>12
    <3> QED
      BY <1>8, <3>1
  <2>3. \A i \in 1 .. l : i \in 1 .. k \/ i \in k + 1 .. l
    BY <1>10
  <2> QED
    BY <2>1, <2>2, <2>3
<1>14. \A i \in l + 1 .. Len(arrivals) : fate'[arrivals[i]] = "queued"
  <2>1. ASSUME NEW i \in l + 1 .. Len(arrivals) PROVE fate'[arrivals[i]] = "queued"
    <3>1. i \in k + 1 .. Len(arrivals) /\ i \in 1 .. Len(arrivals)
      BY <1>10
    <3>2. fate[arrivals[i]] = "queued" /\ arrivals[i] \in Msgs
      BY <1>2, <1>12, <3>1 DEF LineAt
    <3>3. ASSUME NEW j \in k + 1 .. l PROVE arrivals[j] # arrivals[i]
      <4>1. j \in 1 .. Len(arrivals) /\ j # i
        BY <1>10
      <4> QED
        BY <1>0, <3>1, <4>1 DEF InLine
    <3>4. arrivals[i] \notin ToSet(taken)
      BY <1>11, <3>3
    <3> QED
      BY <1>8, <3>2, <3>4
  <2> QED
    BY <2>1
<1>15. /\ queue'[o].items = SubSeq(arrivals, l + 1, Len(arrivals))
       /\ \A p \in Queues : queue'[p].droppedCount = 0
  <2>1. queue'[o].items = qs[o].items
    BY <1>6 DEF Returned, SameContent
  <2>2. \A p \in Queues : qs[p].droppedCount = 0
    <3>1. \A p \in Queues : queue[p].droppedCount = 0
      BY DEF InLine
    <3>2. /\ qs[o].droppedCount \in {0, queue[o].droppedCount}
          /\ \A p \in Queues \ {o} : qs[p] = queue[p]
      BY <1>1 DEF Answers
    <3> QED
      BY <3>1, <3>2
  <2>3. \A p \in Queues : queue'[p].droppedCount = 0
    BY <1>6, <2>2 DEF Returned, SameContent
  <2> QED
    BY <1>6, <1>9, <1>10, <2>1, <2>3
<1>16. registry' = o \/ (registry' = None /\ l = Len(arrivals))
  <2>1. registry' = o \/ (registry' = None /\ ~ HasWork(qs[o]))
    BY <1>3, <1>6 DEF Returned
  <2>2. ~ HasWork(qs[o]) => SubSeq(arrivals, l + 1, Len(arrivals)) = <<>>
    BY <1>6, <1>9, <1>10 DEF HasWork
  <2>3. SubSeq(arrivals, l + 1, Len(arrivals)) = <<>> => l = Len(arrivals)
    BY <1>0, TailOfQueue
  <2> QED
    BY <2>1, <2>2, <2>3
<1>17. LineAt(l)'
  <2>1. IF registry' = None THEN l = Len(arrivals)
        ELSE queue'[registry'].items = SubSeq(arrivals, l + 1, Len(arrivals))
    BY <1>15, <1>16, BoundsAssumption
  <2> QED
    BY <1>6, <1>13, <1>14, <2>1 DEF LineAt
<1>18. \A p \in Queues : InFront(queue'[p], drain'[p])
  <2>1. \A p \in Queues : drain'[p].at # "running"
    BY <1>3, <1>6 DEF Returned
  <2> QED
    BY <2>1 DEF InFront
<1>19. \A x \in Msgs : fate'[x] = "queued" => fate[x] = "queued"
  BY <1>8
<1> QED
  BY <1>6, <1>15, <1>17, <1>18, <1>19 DEF InLine

LEMMA InLineInit == Init => InLine
<1> SUFFICES ASSUME Init PROVE InLine
  OBVIOUS
<1>1. PICK st \in Settings : queue = [o \in Queues |-> EmptyQueue(st)]
  BY DEF Init
<1>2. \A o \in Queues : queue[o].droppedCount = 0 /\ drain[o].at = "idle"
  BY <1>1, EmptyQueueTyped, IdleTyped DEF Init
<1>3. /\ registry = None /\ arrivals = <<>> /\ Len(arrivals) = 0
      /\ DOMAIN arrivals = {} /\ \A m \in Msgs : fate[m] = "new"
  BY DEF Init
<1>4. LineAt(0)
  BY <1>3 DEF LineAt
<1> QED
  BY <1>2, <1>3, <1>4 DEF InLine, InFront

LEMMA InLineStep == ASSUME Base, Held, InLine, Calm, Calm', Next PROVE InLine'
<1>0. /\ Tidy(queue, drain)
      /\ queue \in [Queues -> QueueState]
      /\ registry \in Queues \cup {None}
      /\ clears = 0 /\ clears' = 0
  BY BaseTyped DEF Calm
<1>1. ASSUME NEW m \in Msgs, NEW st \in Settings, NEW active \in BOOLEAN, Enqueue(m, st, active)
      PROVE  InLine'
  BY <1>1, EnqueueKeepsLine
<1>2. CASE Aside
  <2>1. UNCHANGED <<registry, queue, drain, fate, arrivals>>
    BY <1>2 DEF Aside, StartPrimary, AgentRunStarts, AgentRunEnds, ForgetId
  <2> QED
    BY <2>1, ContentsKeepLine DEF SameContent
<1>3. CASE EndPrimary
  <2>1. Scheduled(registry, queue, drain) /\ UNCHANGED <<fate, arrivals>>
    BY <1>0, <1>3, ScheduleDoes DEF EndPrimary
  <2>2. /\ \A p \in Queues : SameContent(queue'[p], queue[p])
        /\ \A p \in Queues : drain'[p] = drain[p] \/ drain'[p].at # "running"
        /\ \/ registry' = registry
           \/ registry' = None /\ registry \in Queues /\ ~ HasWork(queue[registry])
    BY <2>1 DEF Scheduled
  <2> QED
    BY <2>1, <2>2, ContentsKeepLine
<1>4. ~ Clear
  BY <1>0 DEF Clear
<1>5. ASSUME NEW o \in Queues, drain[o].at # "idle", Returned(o, queue),
             UNCHANGED <<fate, arrivals>>
      PROVE  InLine'
  <2>1. registry = o
    BY <1>0, <1>5 DEF Held
  <2>2. /\ \A p \in Queues : SameContent(queue'[p], queue[p])
        /\ \A p \in Queues : drain'[p] = drain[p] \/ drain'[p].at # "running"
        /\ \/ registry' = registry
           \/ registry' = None /\ registry \in Queues /\ ~ HasWork(queue[registry])
    BY <1>5, <2>1 DEF Returned
  <2> QED
    BY <1>5, <2>2, ContentsKeepLine
<1>6. ASSUME NEW o \in Queues, DrainStep(o) \/ TurnFails(o) PROVE InLine'
  <2>1. CASE CollectOne(o) \/ CollectSkips(o) \/ CollectBatch(o) \/ NextSummary(o) \/ NextItem(o)
    <3>1. /\ drain[o].at \in {"debounce", "collect"}
          /\ Returned(o, queue) \/ TurnStarts(o) \/ Skips(o)
          /\ UNCHANGED <<fate, arrivals>>
      BY <2>1, PassDoes
    <3>2. CASE Returned(o, queue)
      BY <1>5, <3>1, <3>2
    <3>3. CASE TurnStarts(o) \/ Skips(o)
      <4>1. UNCHANGED <<registry, queue>>
        BY <3>3 DEF TurnStarts, Skips
      <4>2. \A p \in Queues : drain'[p] = drain[p] \/ drain'[p].at # "running" \/ TurnStarts(p)
        BY <3>3 DEF TurnStarts, Skips
      <4> QED
        BY <3>1, <4>1, <4>2, ContentsKeepLine DEF SameContent
    <3> QED
      BY <3>1, <3>2, <3>3
  <2>2. CASE TurnDone(o)
    BY <1>0, <2>2, TurnDoneKeepsLine
  <2>3. CASE TurnFails(o)
    <3>1. /\ drain[o].at = "running" /\ Returned(o, queue)
          /\ UNCHANGED <<fate, arrivals>>
      BY <2>3, TurnFailsDoes
    <3> QED
      BY <1>5, <3>1
  <2> QED
    BY <1>6, <2>1, <2>2, <2>3 DEF DrainStep
<1> QED
  BY <1>1, <1>2, <1>3, <1>4, <1>6 DEF Next, Aside

THEOREM LineIsKept == Spec /\ []Calm => [](Base /\ Held /\ InLine)
<1>1. ASSUME Base, Held, InLine, Calm, Calm', [Next]_vars PROVE (Base /\ Held /\ InLine)'
  <2>1. CASE UNCHANGED vars
    <3>1. Base' /\ Held'
      BY <1>1, <2>1 DEF vars, runs, Base, TypeOK, Shaped, Held
    <3>2. InLine'
      BY <1>1, <2>1 DEF vars, InLine, InFront, LineAt
    <3> QED
      BY <3>1, <3>2
  <2>2. CASE Next
    BY <1>1, <2>2, BaseStep, HeldStep, InLineStep
  <2> QED
    BY <1>1, <2>1, <2>2
<1> QED
  BY <1>1, BaseInit, InLineInit, HeldAlways, PTL DEF Spec

\* NoSilentLoss: in every behaviour in which no queue is cleared and the drop policy
\* takes nothing, an accepted message is answered or waits in a queue that a drain
\* holds or finds, whatever turns fail and however they interleave with arrivals.
THEOREM NothingIsLost == Spec /\ []Calm => []NoSilentLoss
<1>1. ASSUME Base, InLine PROVE NoSilentLoss
  <2> SUFFICES ASSUME NEW m \in Msgs, fate[m] = "queued" PROVE InQueue(m)
    BY DEF NoSilentLoss
  <2>0. arrivals \in Seq(Msgs) /\ registry \in Queues \cup {None}
    BY <1>1, BaseTyped
  <2>1. PICK k \in 0 .. Len(arrivals) : LineAt(k)
    BY <1>1 DEF InLine
  <2>2. PICK i \in 1 .. Len(arrivals) : arrivals[i] = m
    BY <1>1, <2>0 DEF InLine, ToSet
  <2>3. ~ (i \in 1 .. k)
    BY <2>1, <2>2 DEF LineAt
  <2>4. i - k \in 1 .. Len(arrivals) - k /\ k + (i - k) = i /\ k # Len(arrivals)
    BY <2>0, <2>3
  <2>5. registry \in Queues /\ queue[registry].items = SubSeq(arrivals, k + 1, Len(arrivals))
    BY <2>0, <2>1, <2>4 DEF LineAt
  <2>6. PICK s : s = queue[registry].items
    OBVIOUS
  <2>7. s \in Seq(Msgs) /\ Len(s) = Len(arrivals) - k /\ s[i - k] = arrivals[i]
    <3>1. k \in Nat /\ k <= Len(arrivals) /\ Len(arrivals) \in Nat
      BY <2>0
    <3>2. PICK tail : tail = SubSeq(arrivals, k + 1, Len(arrivals))
      OBVIOUS
    <3>3. /\ tail \in Seq(Msgs) /\ Len(tail) = Len(arrivals) - k
          /\ \A j \in 1 .. Len(arrivals) - k : tail[j] = arrivals[k + j]
      BY <2>0, <3>1, <3>2, TailOfQueue
    <3>4. s = tail
      BY <2>5, <2>6, <3>2
    <3> QED
      BY <2>4, <3>3, <3>4
  <2>8. m \in ToSet(queue[registry].items)
    BY <2>2, <2>4, <2>6, <2>7 DEF ToSet
  <2> QED
    BY <2>5, <2>8 DEF InQueue
<1> QED
  BY <1>1, LineIsKept, PTL

\* AnsweredInOrder: in the same behaviours messages are answered in the order in which
\* they came in, one by one or in batches, also across turns that fail and are retried.
THEOREM AnsweredInTurn == Spec /\ []Calm => []AnsweredInOrder
<1>1. ASSUME Base, InLine PROVE AnsweredInOrder
  <2> SUFFICES ASSUME NEW i \in DOMAIN arrivals, NEW j \in DOMAIN arrivals, i < j,
                      fate[arrivals[j]] = "answered"
               PROVE  fate[arrivals[i]] # "queued"
    BY DEF AnsweredInOrder
  <2>0. arrivals \in Seq(Msgs)
    BY <1>1, BaseTyped
  <2>1. PICK k \in 0 .. Len(arrivals) : LineAt(k)
    BY <1>1 DEF InLine
  <2>2. i \in 1 .. Len(arrivals) /\ j \in 1 .. Len(arrivals)
    BY <2>0
  <2>3. ~ (j \in k + 1 .. Len(arrivals))
    BY <2>1 DEF LineAt
  <2>4. i \in 1 .. k
    BY <2>0, <2>2, <2>3
  <2> QED
    BY <2>1, <2>4 DEF LineAt
<1> QED
  BY <1>1, LineIsKept, PTL

=============================================================================
