---------------------------- MODULE DeliveryQueue ----------------------------
(***************************************************************************)
(* The write-ahead queue of outbound messages: deliverOutboundPayloads     *)
(* (src/src/infra/outbound/deliver.ts) writes {id}.json before it sends and *)
(* acknowledges or fails the entry after; recoverPendingDeliveries         *)
(* (delivery-queue-recovery.ts) replays what a crash or a failure left,    *)
(* once per start of the gateway.  A crash ends everything but the files;  *)
(* a restart inside the process ends nothing: the recovery it starts runs  *)
(* beside the calls and the recoveries that are under way.                 *)
(*                                                                         *)
(* Calls, recoveries and the failDelivery calls one of these spreads when  *)
(* its time is over are workers; a step of one is what happens between two *)
(* awaits.  Time is left out: a backoff is over, a budget spent, and a     *)
(* send timed out, at any moment.                                          *)
(***************************************************************************)
EXTENDS Integers, FiniteSets

CONSTANTS
    Ids,            \* deliveries, numbered in the order they are enqueued
    Leftover,       \* those that an older version left failed, without lastAttemptAt
    Parts,          \* payloads of a delivery
    Options,        \* what callers pass: see OptionsAssumption
    MaxRetries,     \* MAX_RETRIES
    MaxStarts,      \* bound: starts of the gateway in one process
    MaxCrashes,     \* bound: ends of the process
    MaxSendFaults,  \* bound: sends, or transcript mirrors, that throw
    MaxDiskFaults,  \* bound: file operations that fail
    None

ASSUME IdsAssumption == Ids \subseteq Nat /\ Leftover \subseteq Ids
\* "watched" is bestEffort with an onError callback.
ASSUME OptionsAssumption == Options \subseteq {"strict", "bestEffort", "watched"}
ASSUME PartsAssumption == Parts \in Nat \ {0}
ASSUME BoundsAssumption ==
    /\ MaxRetries \in Nat /\ MaxStarts \in Nat \ {0} /\ MaxCrashes \in Nat
    /\ MaxSendFaults \in Nat /\ MaxDiskFaults \in Nat

VARIABLES
    option,     \* the option each delivery is sent with, which its entry keeps
    json,       \* {id}.json in delivery-queue/, or None
    marker,     \* ids with an {id}.delivered file
    failed,     \* ids in failed/
    worker,     \* what each worker is about to do
    start,      \* starts of the gateway in this process, each with a recovery
    listed,     \* names each recovery's readdir returned and it has not read yet
    pending,    \* entries each recovery has read and not handled, as it read them
    accepted,   \* ids that were written to the queue
    acked,      \* ids whose entry was renamed to .delivered
    aborted,    \* ids whose caller aborted
    cut,        \* ids whose call took an AbortError of the channel for that
    sent,       \* payloads of each delivery that reached the channel
    shared,     \* ids a recovery read while a call or a recovery had them
    old,        \* ids accepted before each start
    crashes, sendFaults, diskFaults

disk == <<json, marker, failed>>
history == <<accepted, acked, aborted, cut, shared, old>>
counts == <<crashes, sendFaults, diskFaults>>
vars == <<option, disk, worker, start, listed, pending, history, sent, counts>>

Starts == 1 .. MaxStarts

Call(d) == <<"call", 0, d>>
Deferral(s, d) == <<"defer", s, d>>
Recovery(s) == <<"recovery", s, None>>
Recoveries == {Recovery(s) : s \in Starts}
Calls == {Call(d) : d \in Ids}
Workers == Calls \cup Recoveries \cup {Deferral(s, d) : s \in Starts, d \in Ids}

\* `stamped` says whether lastAttemptAt is set.
Entry == [retry : Nat, stamped : BOOLEAN]
ASSUME NoneAssumption == None \notin Entry

Stages == {"new", "send", "rename", "unlink", "read", "write", "over",
           "list", "load", "migrate", "scan", "move", "defer"}
\* Those at which a worker is at work on one delivery.
Handling == {"send", "rename", "unlink", "read", "write", "move", "migrate"}

\* `part` is the payload to send next, `partial` hadPartialFailure, and `got` the
\* entry a read-modify-write has read.
WorkerState == [at : Stages, id : Ids \cup {None}, part : 1 .. Parts + 1,
                partial : BOOLEAN, got : Entry \cup {None}]

TypeOK ==
    /\ option \in [Ids -> Options]
    /\ json \in [Ids -> Entry \cup {None}]
    /\ marker \subseteq Ids /\ failed \subseteq Ids
    /\ worker \in [Workers -> WorkerState]
    /\ start \in Starts
    /\ listed \in [Starts -> SUBSET Ids]
    /\ pending \in [Starts -> [Ids -> Entry \cup {None}]]
    /\ accepted \subseteq Ids /\ acked \subseteq Ids /\ aborted \subseteq Ids
    /\ cut \subseteq Ids /\ shared \subseteq Ids
    /\ old \in [Starts -> SUBSET Ids]
    /\ sent \in [Ids -> SUBSET (1 .. Parts)]
    /\ crashes \in Nat /\ sendFaults \in Nat /\ diskFaults \in Nat

BestEffort == {d \in Ids : option[d] # "strict"}
Watched == {d \in Ids : option[d] = "watched"}

At(stage, d) == [at |-> stage, id |-> d, part |-> 1, partial |-> FALSE, got |-> None]
NothingPending == [d \in Ids |-> None]

Init ==
    /\ option \in [Ids -> Options]
    /\ json = [d \in Ids |-> IF d \in Leftover THEN [retry |-> 1, stamped |-> FALSE] ELSE None]
    /\ marker = {} /\ failed = {}
    /\ worker = [w \in Workers |->
                    IF w = Recovery(1) THEN At("list", None)
                    ELSE IF w[1] = "call" /\ w[3] \notin Leftover THEN At("new", w[3])
                    ELSE At("over", w[3])]
    /\ start = 1
    /\ listed = [s \in Starts |-> {}]
    /\ pending = [s \in Starts |-> NothingPending]
    /\ accepted = Leftover
    /\ old = [s \in Starts |-> IF s = 1 THEN Leftover ELSE {}]
    /\ acked = {} /\ aborted = {} /\ cut = {} /\ shared = {}
    /\ sent = [d \in Ids |-> {}]
    /\ crashes = 0 /\ sendFaults = 0 /\ diskFaults = 0

-----------------------------------------------------------------------------
(* Workers *)

Goes(w, stage) == worker' = [worker EXCEPT ![w].at = stage]

\* What follows the last file operation of a worker.
Done(w) == IF w \in Recoveries THEN "scan" ELSE "over"

DiskFault == diskFaults < MaxDiskFaults /\ diskFaults' = diskFaults + 1
SendFault == sendFaults < MaxSendFaults /\ sendFaults' = sendFaults + 1

\* Outside its sends, a worker changes neither what was sent nor who aborted.
FilesOnly == UNCHANGED <<option, start, listed, accepted, aborted, cut, shared, old, sent, crashes,
                         sendFaults>>

\* deliverOutboundPayloads: write {id}.json, or go on without a queue entry.
Enqueue(d) ==
    /\ worker[Call(d)].at = "new"
    /\ \A c \in Ids : c < d => worker[Call(c)].at # "new"
    /\ Goes(Call(d), "send")
    /\ \/ /\ json' = [json EXCEPT ![d] = [retry |-> 0, stamped |-> FALSE]]
          /\ accepted' = accepted \cup {d}
          /\ UNCHANGED diskFaults
       \/ DiskFault /\ UNCHANGED <<json, accepted>>
    /\ UNCHANGED <<option, marker, failed, start, listed, pending, acked, aborted, cut, shared,
                   old, sent, crashes, sendFaults>>

\* A call without a queue entry has nothing to acknowledge or to fail.
After(w, stage) == IF worker[w].id \in accepted THEN stage ELSE "over"

SendsOnly == UNCHANGED <<option, disk, start, listed, pending, accepted, acked, shared, old,
                         crashes, diskFaults>>

\* Mutant: one payload too many.
SendBeyond(w) ==
    LET k == worker[w] IN
    /\ k.at = "send" /\ k.part <= Parts + 1
    /\ sent' = [sent EXCEPT ![k.id] = @ \cup {k.part}]
    /\ worker' = [worker EXCEPT ![w].part = @ + 1]
    /\ SendsOnly /\ UNCHANGED <<aborted, cut, sendFaults>>

\* The next payload is handed to the channel.
Send(w) ==
    LET k == worker[w] IN
    /\ k.at = "send" /\ k.part <= Parts
    /\ sent' = [sent EXCEPT ![k.id] = @ \cup {k.part}]
    /\ worker' = [worker EXCEPT ![w].part = @ + 1]
    /\ SendsOnly /\ UNCHANGED <<aborted, cut, sendFaults>>

\* The channel's handler cannot be made, before the first payload and under any
\* option; that the channel is not configured is a permanent error.
HandlerFails(w, permanent) ==
    /\ worker[w].at = "send" /\ worker[w].part = 1
    /\ SendFault
    /\ Goes(w, IF w \in Recoveries /\ permanent THEN "move" ELSE After(w, "read"))
    /\ SendsOnly /\ UNCHANGED <<sent, aborted, cut>>

\* Sending throws, though the message may have reached the channel.  Under
\* bestEffort the error goes to onError, which the recovery does not pass, and the
\* next payload follows.  Otherwise it ends the call, and an AbortError, which is
\* what a send that times out may throw, has the entry acknowledged whoever
\* aborted; a recovery moves an entry with a permanent error and fails any other.
SendFails(w, reached, kind) ==
    LET k == worker[w]
        strict == k.id \notin BestEffort
        cutOff == strict /\ kind = "abort" /\ w \notin Recoveries
    IN
    /\ k.at = "send" /\ k.part <= Parts
    /\ SendFault
    /\ sent' = IF reached THEN [sent EXCEPT ![k.id] = @ \cup {k.part}] ELSE sent
    /\ cut' = IF cutOff THEN cut \cup {k.id} ELSE cut
    /\ worker' =
         IF strict
         THEN [worker EXCEPT ![w].at =
                  IF cutOff THEN After(w, "rename")
                  ELSE IF kind = "permanent" /\ w \in Recoveries THEN "move"
                  ELSE After(w, "read")]
         ELSE [worker EXCEPT ![w].part = @ + 1,
                             ![w].partial = @ \/ (w \notin Recoveries /\ k.id \in Watched)]
    /\ SendsOnly /\ UNCHANGED aborted

\* The caller's abort is noticed before a payload: the entry is acknowledged.
\* Under bestEffort the abort error is one payload error for each payload left.
Abort(d) ==
    LET k == worker[Call(d)] IN
    /\ k.at = "send" /\ k.part <= Parts
    /\ aborted' = aborted \cup {d}
    /\ worker' =
         IF d \in BestEffort
         THEN [worker EXCEPT ![Call(d)].part = Parts + 1,
                             ![Call(d)].partial = @ \/ d \in Watched]
         ELSE [worker EXCEPT ![Call(d)].at = After(Call(d), "rename")]
    /\ SendsOnly /\ UNCHANGED <<sent, cut, sendFaults>>

\* Mutant: the last payload is not waited for.
SentAllEarly(w) ==
    /\ worker[w].at = "send" /\ worker[w].part >= Parts
    /\ Goes(w, After(w, IF worker[w].partial THEN "read" ELSE "rename"))
    /\ SendsOnly /\ UNCHANGED <<sent, aborted, cut, sendFaults>>

\* Every payload was tried: acknowledge, or fail after a partial failure.
SentAll(w) ==
    /\ worker[w].at = "send" /\ worker[w].part = Parts + 1
    /\ Goes(w, After(w, IF worker[w].partial THEN "read" ELSE "rename"))
    /\ SendsOnly /\ UNCHANGED <<sent, aborted, cut, sendFaults>>

\* The transcript mirror throws after the payloads were sent.
MirrorFails(w) ==
    /\ worker[w].at = "send" /\ worker[w].part = Parts + 1
    /\ SendFault
    /\ Goes(w, After(w, "read"))
    /\ SendsOnly /\ UNCHANGED <<sent, aborted, cut>>

-----------------------------------------------------------------------------
(* Files *)

\* ackDelivery, phase 1.  An entry that is gone was acknowledged before.
Rename(w) ==
    LET d == worker[w].id IN
    /\ worker[w].at = "rename"
    /\ json' = [json EXCEPT ![d] = None]
    /\ marker' = IF json[d] = None THEN marker ELSE marker \cup {d}
    /\ acked' = IF json[d] = None THEN acked ELSE acked \cup {d}
    /\ Goes(w, "unlink")
    /\ FilesOnly /\ UNCHANGED <<failed, pending, diskFaults>>

\* The rename fails: calls ignore it, the recovery counts a failed attempt.
RenameFails(w) ==
    /\ worker[w].at = "rename"
    /\ DiskFault
    /\ Goes(w, IF w \in Recoveries THEN "read" ELSE "over")
    /\ FilesOnly /\ UNCHANGED <<disk, acked, pending>>

\* ackDelivery, phase 2, best effort.
Unlink(w) ==
    /\ worker[w].at = "unlink"
    /\ \/ marker' = marker \ {worker[w].id} /\ UNCHANGED diskFaults
       \/ DiskFault /\ UNCHANGED marker
    /\ Goes(w, Done(w))
    /\ FilesOnly /\ UNCHANGED <<json, failed, acked, pending>>

\* failDelivery reads the entry; one that is gone makes it throw, and its callers
\* ignore that ...
Read(w) ==
    LET d == worker[w].id IN
    /\ worker[w].at = "read"
    /\ worker' = [worker EXCEPT ![w].at = IF json[d] = None THEN Done(w) ELSE "write",
                                ![w].got = json[d]]
    /\ FilesOnly /\ UNCHANGED <<disk, acked, pending, diskFaults>>

\* ... and writes what it read, whether or not the file is still there.
Write(w) ==
    LET k == worker[w] IN
    /\ k.at = "write"
    /\ \/ /\ json' = [json EXCEPT ![k.id] = [retry |-> k.got.retry + 1, stamped |-> TRUE]]
          /\ UNCHANGED diskFaults
       \/ DiskFault /\ UNCHANGED json
    /\ Goes(w, Done(w))
    /\ FilesOnly /\ UNCHANGED <<marker, failed, acked, pending>>

-----------------------------------------------------------------------------
(* The recoveries *)

\* loadPendingDeliveries: names are listed, leftover markers unlinked, ...
List(s) ==
    /\ worker[Recovery(s)].at = "list"
    /\ listed' = [listed EXCEPT ![s] = {d \in Ids : json[d] # None}]
    /\ marker' = {}
    /\ Goes(Recovery(s), "load")
    /\ UNCHANGED <<option, json, failed, start, pending, history, sent, counts>>

\* Somebody is at work on an entry, or a recovery is to handle it.
Busy(d) == \E w \in Workers : worker[w].id = d /\ worker[w].at \in Handling
Had(d) == Busy(d) \/ \E s \in Starts : pending[s][d] # None

\* ... and entries read one after the other: gone or unreadable ones are skipped,
\* one with a retryCount but no lastAttemptAt is rewritten.
Load(s, d) ==
    LET legacy == json[d] # None /\ json[d].retry > 0 /\ ~ json[d].stamped IN
    /\ worker[Recovery(s)].at = "load"
    /\ d \in listed[s]
    /\ listed' = [listed EXCEPT ![s] = @ \ {d}]
    /\ \/ /\ pending' = [pending EXCEPT ![s][d] = json[d]]
          /\ shared' = IF json[d] # None /\ Had(d) THEN shared \cup {d} ELSE shared
          /\ worker' = IF legacy
                       THEN [worker EXCEPT ![Recovery(s)].at = "migrate", ![Recovery(s)].id = d]
                       ELSE worker
          /\ UNCHANGED diskFaults
       \/ DiskFault /\ UNCHANGED <<pending, shared, worker>>
    /\ UNCHANGED <<option, disk, start, accepted, acked, aborted, cut, old, sent, crashes,
                   sendFaults>>

Migrate(s) ==
    LET d == worker[Recovery(s)].id
        entry == [pending[s][d] EXCEPT !.stamped = TRUE]
    IN
    /\ worker[Recovery(s)].at = "migrate"
    /\ \/ /\ json' = [json EXCEPT ![d] = entry]
          /\ pending' = [pending EXCEPT ![s][d] = entry]
          /\ UNCHANGED diskFaults
       \/ DiskFault /\ pending' = [pending EXCEPT ![s][d] = None] /\ UNCHANGED json
    /\ Goes(Recovery(s), "load")
    /\ FilesOnly /\ UNCHANGED <<marker, failed, acked>>

Loaded(s) ==
    /\ worker[Recovery(s)].at = "load"
    /\ listed[s] = {}
    /\ Goes(Recovery(s), "scan")
    /\ FilesOnly /\ UNCHANGED <<disk, acked, pending, diskFaults>>

\* The entry of the loop: the oldest that is left.
NextEntry(s, d) ==
    /\ worker[Recovery(s)].at = "scan"
    /\ pending[s][d] # None
    /\ \A e \in Ids : pending[s][e] # None => d <= e

ScanOnly == FilesOnly /\ UNCHANGED <<disk, acked, diskFaults>>

\* isEntryEligibleForRecoveryRetry: an entry that was never tried is eligible, any
\* other when its backoff is over, which may be so or not.
MustWait(entry) == entry.retry > 0 \/ entry.stamped

\* Mutant: an entry whose backoff is not over ends the loop.
SkipEndsLoop(s, d) ==
    /\ NextEntry(s, d)
    /\ pending[s][d].retry < MaxRetries
    /\ MustWait(pending[s][d])
    /\ pending' = [pending EXCEPT ![s] = NothingPending]
    /\ UNCHANGED worker
    /\ ScanOnly

Skip(s, d) ==
    /\ NextEntry(s, d)
    /\ pending[s][d].retry < MaxRetries
    /\ MustWait(pending[s][d])
    /\ pending' = [pending EXCEPT ![s][d] = None]
    /\ UNCHANGED worker
    /\ ScanOnly

\* Mutant: the entry is not taken off the recovery's list.
ReplayKeeps(s, d) ==
    /\ NextEntry(s, d)
    /\ pending[s][d].retry < MaxRetries
    /\ worker' = [worker EXCEPT ![Recovery(s)] = At("send", d)]
    /\ UNCHANGED pending
    /\ ScanOnly

Replay(s, d) ==
    /\ NextEntry(s, d)
    /\ pending[s][d].retry < MaxRetries
    /\ worker' = [worker EXCEPT ![Recovery(s)] = At("send", d)]
    /\ pending' = [pending EXCEPT ![s][d] = None]
    /\ ScanOnly

Exhausted(s, d) ==
    /\ NextEntry(s, d)
    /\ pending[s][d].retry >= MaxRetries
    /\ worker' = [worker EXCEPT ![Recovery(s)] = At("move", d)]
    /\ pending' = [pending EXCEPT ![s][d] = None]
    /\ ScanOnly

\* Mutant: the entry is deleted.
MoveDiscards(s) ==
    /\ worker[Recovery(s)].at = "move"
    /\ json' = [json EXCEPT ![worker[Recovery(s)].id] = None]
    /\ Goes(Recovery(s), "scan")
    /\ FilesOnly /\ UNCHANGED <<marker, failed, acked, pending, diskFaults>>

\* moveToFailed; its failure is only logged.
Move(s) ==
    LET d == worker[Recovery(s)].id IN
    /\ worker[Recovery(s)].at = "move"
    /\ \/ /\ json' = [json EXCEPT ![d] = None]
          /\ failed' = IF json[d] = None THEN failed ELSE failed \cup {d}
          /\ UNCHANGED diskFaults
       \/ DiskFault /\ UNCHANGED <<json, failed>>
    /\ Goes(Recovery(s), "scan")
    /\ FilesOnly /\ UNCHANGED <<marker, acked, pending>>

\* The time budget is spent: failDelivery for every entry left, all at once.
Defer(s) ==
    /\ worker[Recovery(s)].at = "scan"
    /\ pending[s] # NothingPending
    /\ worker' = [w \in Workers |->
                     IF w = Recovery(s) THEN At("defer", None)
                     ELSE IF \E d \in Ids : w = Deferral(s, d) /\ pending[s][d] # None
                     THEN At("read", w[3])
                     ELSE worker[w]]
    /\ pending' = [pending EXCEPT ![s] = NothingPending]
    /\ ScanOnly

\* Mutant: the recovery starts over as long as an entry is left.
RecoveryRepeats(s) ==
    /\ \/ worker[Recovery(s)].at = "scan" /\ pending[s] = NothingPending
       \/ worker[Recovery(s)].at = "defer" /\ \A d \in Ids : worker[Deferral(s, d)].at = "over"
    /\ Goes(Recovery(s), IF \E d \in Ids : json[d] # None THEN "list" ELSE "over")
    /\ UNCHANGED pending
    /\ ScanOnly

RecoveryEnds(s) ==
    /\ \/ worker[Recovery(s)].at = "scan" /\ pending[s] = NothingPending
       \/ worker[Recovery(s)].at = "defer" /\ \A d \in Ids : worker[Deferral(s, d)].at = "over"
    /\ Goes(Recovery(s), "over")
    /\ UNCHANGED pending
    /\ ScanOnly

-----------------------------------------------------------------------------

\* The process ends, and the next one starts a recovery.
Crash ==
    /\ crashes < MaxCrashes
    /\ crashes' = crashes + 1
    /\ start' = 1
    /\ worker' = [w \in Workers |->
                     IF w = Recovery(1) THEN At("list", None)
                     ELSE IF worker[w].at = "new" THEN worker[w] ELSE At("over", w[3])]
    /\ listed' = [s \in Starts |-> {}]
    /\ pending' = [s \in Starts |-> NothingPending]
    /\ old' = [s \in Starts |-> IF s = 1 THEN accepted ELSE {}]
    /\ UNCHANGED <<option, disk, accepted, acked, aborted, cut, shared, sent, sendFaults,
                   diskFaults>>

\* The gateway restarts inside its process: it starts a recovery, which nobody
\* waits for, and ends neither an earlier one nor a call.
Restart ==
    /\ start < MaxStarts
    /\ start' = start + 1
    /\ worker' = [worker EXCEPT ![Recovery(start + 1)] = At("list", None)]
    /\ old' = [old EXCEPT ![start + 1] = accepted]
    /\ UNCHANGED <<option, disk, listed, pending, accepted, acked, aborted, cut, shared, sent,
                   counts>>

FileStep(w) == Rename(w) \/ RenameFails(w) \/ Unlink(w) \/ Read(w) \/ Write(w)

SendStep(w) ==
    \/ Send(w) \/ SentAll(w) \/ MirrorFails(w)
    \/ \E permanent \in BOOLEAN : HandlerFails(w, permanent)
    \/ \E reached \in BOOLEAN, kind \in {"error", "permanent", "abort"} :
          SendFails(w, reached, kind)

RecoveryStep(s) ==
    \/ List(s) \/ Loaded(s) \/ Migrate(s) \/ Move(s) \/ Defer(s) \/ RecoveryEnds(s)
    \/ \E d \in Ids : Load(s, d) \/ Skip(s, d) \/ Replay(s, d) \/ Exhausted(s, d)

Over ==
    /\ crashes = MaxCrashes /\ start = MaxStarts
    /\ \A w \in Workers : worker[w].at = "over"
    /\ UNCHANGED vars

Next ==
    \/ \E d \in Ids : Enqueue(d) \/ Abort(d)
    \/ \E w \in Workers : SendStep(w) \/ FileStep(w)
    \/ \E s \in Starts : RecoveryStep(s)
    \/ Crash
    \/ Restart
    \/ Over

Spec == Init /\ [][Next]_vars

\* Sends return or throw, and file operations complete.
Fairness ==
    /\ \A w \in Workers : WF_vars(SendStep(w) \/ FileStep(w))
    /\ \A s \in Starts : WF_vars(RecoveryStep(s))
FairSpec == Spec /\ Fairness

-----------------------------------------------------------------------------
(* Properties *)

\* No accepted message is lost: one that is neither on disk, nor given up in
\* failed/, nor withdrawn by an abort error was sent in full, whatever crashes,
\* fails or overlaps.
AtLeastOnce ==
    \A d \in accepted \ BestEffort :
        json[d] = None /\ d \notin failed \cup aborted \cup cut => sent[d] = 1 .. Parts

\* "Write-ahead delivery queue: persist before sending, remove after success"
\* (deliver.ts): an entry is acknowledged when all of it was sent, or when its
\* caller aborted.
RemovedAfterSuccess ==
    \A d \in acked \ (BestEffort \cup aborted) : sent[d] = 1 .. Parts

\* An acknowledged message is not sent again, crashes between the two phases of
\* the acknowledgement and restarts included, unless a recovery had read its entry
\* while its call, or another recovery, had it.
AckedIsFinal ==
    \A d \in acked \ shared :
        /\ json[d] = None
        /\ \A w \in Workers : worker[w].id = d => worker[w].at # "send"

\* A recovery overlooks nothing: when it is over, no entry from before its start
\* is left that was never tried and carries no stamp, so that no backoff or spent
\* budget keeps an entry from ever being tried or given up.
NothingOverlooked ==
    diskFaults = 0 =>
        \A s \in Starts : worker[Recovery(s)].at = "over" =>
            \A d \in old[s] : json[d] # None => json[d].stamped

\* What has become of each delivery, read off the disk, for OutboundPromise.
Status == [d \in Ids |->
    IF d \notin accepted THEN "none"
    ELSE IF json[d] # None THEN "owed"
    ELSE IF d \in failed THEN "failed"
    ELSE IF d \in aborted \cup cut THEN "withdrawn" ELSE "kept"]

\* The queue implements the promise: an accepted delivery is owed until it is sent
\* in full, given up or withdrawn.
Promise == INSTANCE OutboundPromise WITH excused <- BestEffort, status <- Status
PromiseKept == Promise!Spec

\* A recovery comes to an end, its deferrals included, beside other recoveries.
RecoveryFinishes ==
    \A s \in Starts : worker[Recovery(s)].at # "over" ~> worker[Recovery(s)].at = "over"

\* "We track whether any payload failed so we can call failDelivery instead of
\* ackDelivery" (deliver.ts): when nobody works on it any more, a message with a
\* failed payload is still in the queue.
PartialFailureKept ==
    \A d \in accepted :
        json[d] = None /\ d \notin failed \cup aborted \cup cut /\ ~ Busy(d)
            => sent[d] = 1 .. Parts

=============================================================================
