--------------------------- MODULE OutboundPromise ---------------------------
(***************************************************************************)
(* What the outbound delivery queue promises its callers: a message that   *)
(* was written to the queue stays owed until every payload of it has been  *)
(* handed to the channel, or until it is given up in failed/, or withdrawn *)
(* by an abort error: its sender's abort, or an error of the channel that  *)
(* is taken for one.  It may be sent, and owed, more than once.            *)
(* DeliveryQueue implements it (src/src/infra/outbound/).                  *)
(***************************************************************************)
EXTENDS Naturals

CONSTANTS
    Ids,        \* deliveries
    Parts       \* payloads of each

VARIABLES
    status,     \* what has become of each delivery
    sent,       \* payloads of each that reached the channel
    excused     \* deliveries that need not be sent in full (bestEffort)

Statuses == {"none", "owed", "kept", "failed", "withdrawn"}

Init ==
    /\ status \in [Ids -> {"none", "owed"}]
    /\ sent = [d \in Ids |-> {}]
    /\ excused \subseteq Ids

Become(d, s) == status' = [status EXCEPT ![d] = s] /\ UNCHANGED <<sent, excused>>

Accept(d) == status[d] = "none" /\ Become(d, "owed")

Send(d, p) == sent' = [sent EXCEPT ![d] = @ \cup {p}] /\ UNCHANGED <<status, excused>>

\* The promise: a delivery leaves the queue for good only when it was sent.
Keep(d) ==
    /\ status[d] = "owed"
    /\ sent[d] = 1 .. Parts \/ d \in excused
    /\ Become(d, "kept")

GiveUp(d) == status[d] = "owed" /\ Become(d, "failed")
Withdraw(d) == status[d] \in {"owed", "kept"} /\ Become(d, "withdrawn")
Reopen(d) == status[d] # "none" /\ Become(d, "owed")

Next == \E d \in Ids :
    \/ Accept(d) \/ Keep(d) \/ GiveUp(d) \/ Withdraw(d) \/ Reopen(d)
    \/ \E p \in 1 .. Parts : Send(d, p)

Spec == Init /\ [][Next]_<<status, sent, excused>>

=============================================================================
