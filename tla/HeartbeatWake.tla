---------------------------- MODULE HeartbeatWake ----------------------------
(***************************************************************************)
(* The wake layer of heartbeats (src/src/infra/heartbeat-wake.ts): requests *)
(* are coalesced by target, and one timer hands what is pending to the      *)
(* registered handler, a batch at a time.  Its functions are synchronous:   *)
(* each is an operator here, from a state of the layer to the next one.     *)
(* HeartbeatRunner gives them a clock and a handler.                        *)
(*                                                                         *)
(* The generation of a registration tells the same as the handler, since a  *)
(* handler is registered once.  Requests of one priority replace each other *)
(* in the order they are made.  The catch of a batch is left out: the       *)
(* handler of the runner does not throw.                                    *)
(***************************************************************************)
EXTENDS Integers

CONSTANTS
    Targets,    \* wake targets: agents and All, the wake that names nobody
    Coalesce,   \* DEFAULT_COALESCE_MS
    Retry,      \* DEFAULT_RETRY_MS
    None

ASSUME DelaysAssumption == Coalesce \in Nat /\ Retry \in Nat

\* REASON_PRIORITY, by the kind of a reason; nobody asks with the reason "retry".
Priority == [interval |-> 1, wake |-> 2, hook |-> 3]
Reasons == DOMAIN Priority
Wakes == [Targets -> Reasons \cup {None}]
NoWakes == [k \in Targets |-> None]

ASSUME NoReasonAssumption == None \notin Reasons \cup Targets

Unregistered == [handler |-> None, pending |-> NoWakes, scheduled |-> FALSE,
                 running |-> FALSE, timer |-> None]

AtLeast(a, b) == b = None \/ (a # None /\ Priority[a] >= Priority[b])

\* Mutant: the later reason replaces the earlier one.
HigherLatest(old, new) == new

\* What remains of two requests for one target.
Higher(old, new) == IF AtLeast(new, old) THEN new ELSE old

QueuePendingWakeReason(w, k, reason) == [w EXCEPT !.pending[k] = Higher(@, reason)]

\* A retry that waits is never hurried, and an earlier timer is kept.
Schedule(w, now, delay, type) ==
    IF w.timer # None /\ (w.timer.type = "retry" \/ w.timer.due <= now + delay) THEN w
    ELSE [w EXCEPT !.timer = [due |-> now + delay, type |-> type, delay |-> delay]]

RequestHeartbeatNow(w, now, k, reason, delay) ==
    Schedule(QueuePendingWakeReason(w, k, reason), now, delay, "normal")

\* Mutant: what is pending waits for the next request.
RegisteredQuietly(w, r, now) == [Unregistered EXCEPT !.handler = r, !.pending = w.pending]

\* setHeartbeatWakeHandler of a handler: nothing of the one before is kept but what is
\* pending.
Registered(w, r, now) ==
    LET fresh == [Unregistered EXCEPT !.handler = r, !.pending = w.pending]
    IN  IF w.pending = NoWakes THEN fresh ELSE Schedule(fresh, now, Coalesce, "normal")

\* Mutant: the handler stays.
DisposedNot(w, r) == w

\* The disposer of a registration.
Disposed(w, r) == IF w.handler = r THEN [w EXCEPT !.handler = None] ELSE w

\* The timer's callback, up to what it finds.
Fired(w) == [w EXCEPT !.timer = None, !.scheduled = FALSE]

\* Mutant: the flag is not looked at.
OccupiedNever(w) == FALSE

\* A batch is under way: the callback comes back later.
Occupied(w) == w.running
Postponed(w, now, t) == Schedule([w EXCEPT !.scheduled = TRUE], now, t.delay, t.type)

\* The handler is given everything that is pending.
Taken(w) == [w EXCEPT !.pending = NoWakes, !.running = TRUE]

\* The main lane is busy: the wake is retried.
Retried(w, now, k, reason) ==
    Schedule(QueuePendingWakeReason(w, k, reason), now, Retry, "retry")

\* The finally block of a batch that the timer began with this delay.
BatchOver(w, now, delay) ==
    LET over == [w EXCEPT !.running = FALSE]
    IN  IF w.pending # NoWakes \/ w.scheduled THEN Schedule(over, now, delay, "normal")
        ELSE over

=============================================================================
