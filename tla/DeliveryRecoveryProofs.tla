------------------------ MODULE DeliveryRecoveryProofs ------------------------
(***************************************************************************)
(* More proofs about DeliveryQueue: what is acknowledged is not sent again *)
(* and a recovery overlooks nothing, for any deliveries, payloads, retries *)
(* and any number of starts, crashes and faults.                           *)
(*                                                                         *)
(* Both rest on who has hold of an entry.  Unless a recovery read it while *)
(* its call, or another recovery, had it, an entry is in one pair of       *)
(* hands: its call's until that is over, then one recovery's, in one of    *)
(* the places of that.                                                     *)
(***************************************************************************)
EXTENDS DeliveryQueueProofs

\* The recovery of a start is at work on the entry of d, ...
RecoveryHas(s, d) == worker[Recovery(s)].id = d /\ worker[Recovery(s)].at \in Handling

\* ... or has it in its list or in a deferral.
Holds(s, d) ==
    pending[s][d] # None \/ RecoveryHas(s, d) \/ worker[Deferral(s, d)].at # "over"

OnFiles == {"rename", "unlink", "read", "write", "move", "migrate"}

\* Who works on the file of a delivery knows that it was accepted.
Known ==
    /\ acked \cup shared \subseteq accepted
    /\ \A s \in Starts : old[s] \subseteq accepted
    /\ \A d \in Ids : json[d] # None => d \in accepted
    /\ \A s \in Starts, d \in Ids : pending[s][d] # None => d \in accepted
    /\ \A w \in Workers : \/ worker[w].at \in OnFiles
                          \/ w \in Recoveries /\ worker[w].at = "send"
                          => worker[w].id \in accepted
    /\ \A d \in Ids : /\ worker[Call(d)].at = "new" => d \notin accepted
                      /\ worker[Call(d)].at \in Handling \cup {"new", "over"}

\* What a recovery holds, no other holds, and the call of it is over.
OneOwner ==
    \A s \in Starts, d \in Ids \ shared : Holds(s, d) =>
        worker[Call(d)].at = "over" /\ \A r \in Starts \ {s} : ~ Holds(r, d)

\* A recovery holds an entry in one place: in its list, at work, or in a deferral.
OnePlaceOf(s) ==
    /\ \A d \in Ids :
          /\ worker[Deferral(s, d)].at \in {"read", "write", "over"}
          /\ worker[Deferral(s, d)].id = d
          /\ worker[Deferral(s, d)].at # "over" => worker[Recovery(s)].at = "defer"
          /\ RecoveryHas(s, d) /\ worker[Recovery(s)].at # "migrate" => pending[s][d] = None
    /\ worker[Recovery(s)].at \in {"defer", "over"} => pending[s] = NothingPending
    /\ worker[Recovery(s)].at # "new"
    /\ s > start => worker[Recovery(s)].at = "over"
OnePlace == \A s \in Starts : OnePlaceOf(s)

Owned == Known /\ OneOwner /\ OnePlace

-----------------------------------------------------------------------------
(* A step of one worker *)

\* What a step of a worker, other than of a recovery between its entries, does.
WorkerMoves(w) ==
    LET d == worker[w].id
        at == worker[w].at
        next == worker'[w].at
    IN
    /\ d \in Ids /\ worker'[w].id = d
    /\ \A v \in Workers \ {w} : worker'[v] = worker[v]
    /\ UNCHANGED <<start, listed, pending, accepted, shared, old>>
    /\ \A e \in Ids \ {d} : json'[e] = json[e]
    /\ diskFaults' = 0 => diskFaults = 0
    /\ \/ /\ at = "send" /\ next \in {"send", "rename", "read", "move", "over"}
          /\ next = "move" => w \in Recoveries
          /\ next = "over" => d \notin accepted
          /\ next # "send" /\ next # "over" => d \in accepted \/ w \in Recoveries
          /\ UNCHANGED <<json, acked>>
       \/ /\ at = "rename" /\ next = "unlink" /\ json'[d] = None
          /\ acked' = IF json[d] = None THEN acked ELSE acked \cup {d}
       \/ /\ at = "rename" /\ next = (IF w \in Recoveries THEN "read" ELSE "over")
          /\ diskFaults' # 0 /\ UNCHANGED <<json, acked>>
       \/ at = "unlink" /\ next = Done(w) /\ UNCHANGED <<json, acked>>
       \/ /\ at = "read" /\ next = (IF json[d] = None THEN Done(w) ELSE "write")
          /\ UNCHANGED <<json, acked>>
       \/ /\ at = "write" /\ next = Done(w) /\ UNCHANGED acked
          /\ \/ json'[d] # None /\ json'[d].stamped
             \/ UNCHANGED json /\ diskFaults' # 0

LEMMA FaultCounts ==
    ASSUME TypeOK
    PROVE  /\ DiskFault => diskFaults' # 0
           /\ UNCHANGED diskFaults \/ DiskFault => (diskFaults' = 0 => diskFaults = 0)
  BY DEF TypeOK, DiskFault

LEMMA StepMoves ==
    ASSUME IInv, NEW w \in Workers, SendStep(w) \/ FileStep(w)
    PROVE  WorkerMoves(w)
<1>1. worker \in [Workers -> WorkerState] /\ TypeOK /\ WorkerKnows(w)
  BY DEF IInv, TypeOK, WorkersKnow
<1>2. worker[w].at \in {"send", "rename", "unlink", "read", "write"}
  BY DEF SendStep, Send, SendFails, HandlerFails, SentAll, MirrorFails, FileStep, Rename, RenameFails,
         Unlink, Read, Write
<1>3. worker[w].id \in Ids
  BY <1>1, <1>2 DEF WorkerKnows, Handling
<1>4. UNCHANGED <<start, listed, pending, accepted, shared, old>>
  BY DEF SendStep, Send, SendFails, HandlerFails, SentAll, MirrorFails, FileStep, Rename, RenameFails,
         Unlink, Read, Write, SendsOnly, FilesOnly
<1>5. \A v \in Workers \ {w} : worker'[v] = worker[v]
  BY <1>1 DEF SendStep, Send, SendFails, HandlerFails, SentAll, MirrorFails, FileStep, Rename, RenameFails,
              Unlink, Read, Write, Goes
<1>6. worker'[w].id = worker[w].id
  BY <1>1 DEF SendStep, Send, SendFails, HandlerFails, SentAll, MirrorFails, FileStep, Rename, RenameFails,
              Unlink, Read, Write, Goes, WorkerState
<1>7. CASE SendStep(w)
  <2>1. worker[w].at = "send" /\ UNCHANGED <<json, acked, diskFaults>>
    BY <1>7 DEF SendStep, Send, SendFails, HandlerFails, SentAll, MirrorFails, SendsOnly, disk
  <2>2. /\ worker'[w].at \in {"send", "rename", "read", "move", "over"}
        /\ worker'[w].at = "move" => w \in Recoveries
        /\ worker'[w].at = "over" => worker[w].id \notin accepted
        /\ worker'[w].at # "send" /\ worker'[w].at # "over"
              => worker[w].id \in accepted \/ w \in Recoveries
    <3>1. CASE Send(w)
      BY <1>1, <2>1, <3>1 DEF Send, WorkerState
    <3>2. CASE SentAll(w) \/ MirrorFails(w)
      BY <1>1, <2>1, <3>2 DEF SentAll, MirrorFails, Goes, After, WorkerState
    <3>3. ASSUME NEW permanent \in BOOLEAN, HandlerFails(w, permanent)
          PROVE  /\ worker'[w].at \in {"read", "move", "over"}
                 /\ worker'[w].at = "move" => w \in Recoveries
                 /\ worker'[w].at = "over" => worker[w].id \notin accepted
                 /\ worker'[w].at = "read" => worker[w].id \in accepted
      <4>1. PICK g : /\ g = IF w \in Recoveries /\ permanent THEN "move" ELSE After(w, "read")
                     /\ Goes(w, g)
        BY <3>3 DEF HandlerFails
      <4>2. worker'[w].at = g
        BY <1>1, <4>1 DEF Goes, WorkerState
      <4> QED BY <4>1, <4>2 DEF After
    <3>4. ASSUME NEW reached, NEW kind, SendFails(w, reached, kind)
          PROVE  /\ worker'[w].at \in {"send", "rename", "read", "move", "over"}
                 /\ worker'[w].at = "move" => w \in Recoveries
                 /\ worker'[w].at = "over" => worker[w].id \notin accepted
                 /\ worker'[w].at \in {"rename", "read"} => worker[w].id \in accepted
      <4>1. CASE worker[w].id \in BestEffort
        <5>1. PICK q : worker' = [worker EXCEPT ![w].part = @ + 1, ![w].partial = q]
          BY <3>4, <4>1 DEF SendFails
        <5> QED BY <1>1, <2>1, <5>1 DEF WorkerState
      <4>2. CASE worker[w].id \notin BestEffort
        <5>1. PICK g : /\ g = IF kind = "abort" /\ w \notin Recoveries THEN After(w, "rename")
                              ELSE IF kind = "permanent" /\ w \in Recoveries THEN "move"
                              ELSE After(w, "read")
                       /\ worker' = [worker EXCEPT ![w].at = g]
          BY <3>4, <4>2 DEF SendFails
        <5>2. worker'[w].at = g
          BY <1>1, <5>1 DEF WorkerState
        <5> QED BY <5>1, <5>2 DEF After
      <4> QED BY <4>1, <4>2
    <3> QED BY <1>7, <3>1, <3>2, <3>3, <3>4 DEF SendStep
  <2> QED BY <1>3, <1>4, <1>5, <1>6, <2>1, <2>2 DEF WorkerMoves
<1>8. CASE FileStep(w)
  <2>1. diskFaults' = 0 => diskFaults = 0
    BY <1>1, <1>8, FaultCounts DEF FileStep, Rename, RenameFails, Unlink, Read, Write
  <2>2. \A e \in Ids \ {worker[w].id} : json'[e] = json[e]
    BY <1>1, <1>8 DEF FileStep, Rename, RenameFails, Unlink, Read, Write, TypeOK, disk
  <2>3. CASE Rename(w)
    <3>1. worker'[w].at = "unlink" /\ json'[worker[w].id] = None
      BY <1>1, <1>3, <2>3 DEF Rename, Goes, WorkerState, TypeOK
    <3> QED BY <1>3, <1>4, <1>5, <1>6, <2>1, <2>2, <2>3, <3>1 DEF WorkerMoves, Rename
  <2>4. CASE RenameFails(w)
    <3>1. worker'[w].at = IF w \in Recoveries THEN "read" ELSE "over"
      BY <1>1, <2>4 DEF RenameFails, Goes, WorkerState
    <3>2. diskFaults' # 0 /\ UNCHANGED <<json, acked>>
      BY <1>1, <2>4, FaultCounts DEF RenameFails, disk
    <3> QED BY <1>3, <1>4, <1>5, <1>6, <2>1, <2>2, <2>4, <3>1, <3>2
            DEF WorkerMoves, RenameFails
  <2>5. CASE Unlink(w)
    <3>1. worker'[w].at = Done(w)
      BY <1>1, <2>5 DEF Unlink, Goes, WorkerState
    <3> QED BY <1>3, <1>4, <1>5, <1>6, <2>1, <2>2, <2>5, <3>1 DEF WorkerMoves, Unlink
  <2>6. CASE Read(w)
    <3>1. worker'[w].at = IF json[worker[w].id] = None THEN Done(w) ELSE "write"
      BY <1>1, <2>6 DEF Read, WorkerState
    <3> QED BY <1>3, <1>4, <1>5, <1>6, <2>1, <2>2, <2>6, <3>1 DEF WorkerMoves, Read, disk
  <2>7. CASE Write(w)
    <3>1. worker'[w].at = Done(w) /\ UNCHANGED acked
      BY <1>1, <2>7 DEF Write, Goes, WorkerState
    <3>2. \/ UNCHANGED json /\ diskFaults' # 0
          \/ /\ json'[worker[w].id] = [retry |-> worker[w].got.retry + 1, stamped |-> TRUE]
             /\ worker[w].got \in Entry
      BY <1>1, <1>3, <2>7, FaultCounts DEF Write, TypeOK, WorkerKnows
    <3>3. \/ UNCHANGED json /\ diskFaults' # 0
          \/ json'[worker[w].id] # None /\ json'[worker[w].id].stamped
      <4>1. \A n \in Nat : [retry |-> n + 1, stamped |-> TRUE] \in Entry
        BY DEF Entry
      <4>2. worker[w].got \in Entry =>
               [retry |-> worker[w].got.retry + 1, stamped |-> TRUE] # None
        BY <4>1, NoneAssumption DEF Entry
      <4> QED BY <3>2, <4>2
    <3> QED BY <1>3, <1>4, <1>5, <1>6, <2>1, <2>2, <2>7, <3>1, <3>3 DEF WorkerMoves, Write
  <2> QED BY <1>8, <2>3, <2>4, <2>5, <2>6, <2>7 DEF FileStep
<1> QED BY <1>7, <1>8

LEMMA AbortMoves ==
    ASSUME IInv, NEW d \in Ids, Abort(d)
    PROVE  WorkerMoves(Call(d))
<1>1. /\ worker \in [Workers -> WorkerState] /\ Call(d) \in Workers /\ Call(d) \notin Recoveries
      /\ WorkerKnows(Call(d))
  BY WorkersDistinct DEF IInv, TypeOK, WorkersKnow
<1>2. worker[Call(d)].at = "send" /\ worker[Call(d)].id = d
  BY <1>1, WorkersDistinct DEF Abort, WorkerKnows
<1>3. UNCHANGED <<json, acked, diskFaults, start, listed, pending, accepted, shared, old>>
  BY DEF Abort, SendsOnly, disk
<1>4. \A v \in Workers \ {Call(d)} : worker'[v] = worker[v]
  BY <1>1 DEF Abort
<1>5. /\ worker'[Call(d)].id = d
      /\ worker'[Call(d)].at \in {"send", "rename", "over"}
      /\ worker'[Call(d)].at = "over" => d \notin accepted
      /\ worker'[Call(d)].at = "rename" => d \in accepted
  BY <1>1, <1>2 DEF Abort, After, WorkerState
<1> QED BY <1>2, <1>3, <1>4, <1>5 DEF WorkerMoves

-----------------------------------------------------------------------------
(* Who has hold of an entry *)

LEMMA Kinds ==
    /\ \A w \in Workers : \/ \E s \in Starts : w = Recovery(s)
                          \/ \E d \in Ids : w = Call(d)
                          \/ \E s \in Starts, d \in Ids : w = Deferral(s, d)
    /\ \A d, e \in Ids : Call(d) = Call(e) => d = e
    /\ \A s, r \in Starts : Recovery(s) = Recovery(r) => s = r
    /\ \A s, r \in Starts, d, e \in Ids :
          /\ Deferral(s, d) = Deferral(r, e) => s = r /\ d = e
          /\ Call(e) # Deferral(s, d) /\ Call(e) # Recovery(r) /\ Deferral(s, d) # Recovery(r)
    /\ \A d \in Ids : Call(d) \in Workers /\ Call(d) \notin Recoveries
    /\ \A s \in Starts : Recovery(s) \in Workers /\ Recovery(s) \in Recoveries
    /\ \A s \in Starts, d \in Ids : Deferral(s, d) \in Workers /\ Deferral(s, d) \notin Recoveries
  BY DEF Workers, Calls, Call, Deferral, Recoveries, Recovery

\* The id of a call is that of its delivery.
LEMMA CallsOwn == ASSUME IInv, NEW d \in Ids PROVE worker[Call(d)].id = d
<1>1. WorkerKnows(Call(d)) /\ Call(d)[1] = "call" /\ Call(d)[3] = d
  BY WorkersDistinct DEF IInv, WorkersKnow
<1> QED BY <1>1 DEF WorkerKnows

LEMMA MovesKnown == ASSUME Known, NEW w \in Workers, WorkerMoves(w) PROVE Known'
<1> DEFINE d == worker[w].id
<1>1. /\ d \in Ids /\ worker'[w].id = d /\ \A v \in Workers \ {w} : worker'[v] = worker[v]
      /\ UNCHANGED <<pending, accepted, shared, old>>
      /\ \A e \in Ids \ {d} : json'[e] = json[e]
  BY DEF WorkerMoves
<1>2. worker[w].at \in OnFiles \/ (w \in Recoveries /\ worker[w].at = "send") => d \in accepted
  BY DEF Known
<1>3. acked' \cup shared' \subseteq accepted' /\ \A s \in Starts : old'[s] \subseteq accepted'
  BY <1>1, <1>2 DEF WorkerMoves, Known, OnFiles
<1>4. json'[d] # None => d \in accepted
  BY <1>1, <1>2 DEF WorkerMoves, Known, OnFiles
<1>5. /\ \A e \in Ids : json'[e] # None => e \in accepted'
      /\ \A s \in Starts, e \in Ids : pending'[s][e] # None => e \in accepted'
  BY <1>1, <1>4 DEF Known
<1>6. worker'[w].at \in OnFiles \/ (w \in Recoveries /\ worker'[w].at = "send") => d \in accepted
  BY <1>2 DEF WorkerMoves, OnFiles, Done
<1>7. \A v \in Workers : \/ worker'[v].at \in OnFiles
                         \/ v \in Recoveries /\ worker'[v].at = "send"
                         => worker'[v].id \in accepted'
  BY <1>1, <1>6 DEF Known
<1>8. worker'[w].at # "new" /\ (w \notin Recoveries => worker'[w].at \in Handling \cup {"over"})
  BY DEF WorkerMoves, Done, Handling
<1>9. \A e \in Ids : /\ worker'[Call(e)].at = "new" => e \notin accepted'
                     /\ worker'[Call(e)].at \in Handling \cup {"new", "over"}
  BY <1>1, <1>8, Kinds DEF Known
<1> QED BY <1>3, <1>5, <1>7, <1>9 DEF Known

\* Nobody gets hold of an entry in a step of one worker.
LEMMA MovesHold ==
    ASSUME OnePlace, NEW w \in Workers, WorkerMoves(w), NEW s \in Starts, NEW e \in Ids, Holds(s, e)'
    PROVE  Holds(s, e)
<1>1. /\ worker[w].id \in Ids /\ worker'[w].id = worker[w].id
      /\ \A v \in Workers \ {w} : worker'[v] = worker[v] /\ UNCHANGED pending
      /\ worker[w].at \in {"send", "rename", "unlink", "read", "write"}
  BY DEF WorkerMoves
<1>2. RecoveryHas(s, e)' => RecoveryHas(s, e)
  BY <1>1, Kinds DEF RecoveryHas, Handling
<1>3. worker'[Deferral(s, e)].at # "over" => worker[Deferral(s, e)].at # "over"
  BY <1>1, Kinds
<1> QED BY <1>1, <1>2, <1>3, Kinds DEF Holds, WorkerMoves

LEMMA MovesOwned == ASSUME IInv, Owned, NEW w \in Workers, WorkerMoves(w) PROVE Owned'
<1>1. Known /\ OneOwner /\ OnePlace
  BY DEF Owned
<1>2. Known'
  BY <1>1, MovesKnown
<1>3. /\ worker[w].id \in Ids /\ worker'[w].id = worker[w].id
      /\ \A v \in Workers \ {w} : worker'[v] = worker[v]
      /\ UNCHANGED <<start, pending, accepted, shared>>
      /\ worker[w].at \in {"send", "rename", "unlink", "read", "write"}
  BY DEF WorkerMoves
<1>4. OneOwner'
  <2> SUFFICES ASSUME NEW s \in Starts, NEW e \in Ids \ shared', Holds(s, e)'
               PROVE  /\ worker'[Call(e)].at = "over"
                      /\ \A r \in Starts \ {s} : ~ Holds(r, e)'
    BY DEF OneOwner
  <2>1. Holds(s, e)
    BY <1>1, MovesHold
  <2>2. worker[Call(e)].at = "over" /\ \A r \in Starts \ {s} : ~ Holds(r, e)
    BY <1>1, <1>3, <2>1 DEF OneOwner
  <2>3. worker'[Call(e)].at = "over"
    BY <1>3, <2>2, Kinds
  <2> QED BY <1>1, <2>2, <2>3, MovesHold
<1>5. ASSUME NEW s \in Starts PROVE OnePlaceOf(s)'
  <2>0. OnePlaceOf(s)
    BY <1>1 DEF OnePlace
  <2>1. CASE w = Recovery(s)
    <3>1. worker[w].at \in Handling /\ worker[w].at \notin {"defer", "migrate", "over"}
      BY <1>3 DEF Handling
    <3>2. w \in Recoveries
      BY <2>1, Kinds
    <3>3. /\ worker'[w].at \in Handling \cup {"scan"}
          /\ worker'[w].at \notin {"migrate", "defer", "over", "new"}
      <4>1. worker[w].at = "send" => worker[w].id \in accepted
        BY <1>1, <3>2 DEF Known
      <4> QED BY <3>2, <4>1 DEF WorkerMoves, Handling, Done
    <3>4. pending[s][worker[w].id] = None
      BY <1>3, <2>0, <2>1, <3>1 DEF OnePlaceOf, RecoveryHas
    <3>5. \A d \in Ids : worker'[Deferral(s, d)] = worker[Deferral(s, d)]
      BY <1>3, <2>1, Kinds
    <3>6. \A d \in Ids : RecoveryHas(s, d)' => d = worker[w].id
      BY <1>3, <2>1 DEF RecoveryHas
    <3>7. \A d \in Ids : worker[Deferral(s, d)].at = "over"
      BY <2>0, <2>1, <3>1 DEF OnePlaceOf
    <3>8. ~ (s > start)
      BY <2>0, <2>1, <3>1 DEF OnePlaceOf
    <3> QED BY <1>3, <2>0, <2>1, <3>3, <3>4, <3>5, <3>6, <3>7, <3>8 DEF OnePlaceOf
  <2>2. CASE \E d \in Ids : w = Deferral(s, d)
    <3>0. PICK d \in Ids : w = Deferral(s, d)
      BY <2>2
    <3>1. worker[w].at \in {"read", "write"} /\ w \notin Recoveries
      BY <1>3, <2>0, <3>0, Kinds DEF OnePlaceOf
    <3>2. worker'[w].at \in {"write", "over"}
      BY <3>1 DEF WorkerMoves, Done
    <3>3. /\ worker'[Recovery(s)] = worker[Recovery(s)]
          /\ \A e \in Ids \ {d} : worker'[Deferral(s, e)] = worker[Deferral(s, e)]
      BY <1>3, <3>0, Kinds
    <3> QED BY <1>3, <2>0, <3>0, <3>1, <3>2, <3>3 DEF OnePlaceOf, RecoveryHas
  <2>3. CASE w # Recovery(s) /\ ~ \E d \in Ids : w = Deferral(s, d)
    <3>1. /\ worker'[Recovery(s)] = worker[Recovery(s)]
          /\ \A e \in Ids : worker'[Deferral(s, e)] = worker[Deferral(s, e)]
      BY <1>3, <2>3, Kinds
    <3> QED BY <1>3, <2>0, <3>1 DEF OnePlaceOf, RecoveryHas
  <2> QED BY <2>1, <2>2, <2>3
<1> QED BY <1>2, <1>4, <1>5 DEF Owned, OnePlace

\* What a step of one recovery between its entries has to show.
LEMMA RecoveryOwned ==
    ASSUME IInv, Owned, NEW s \in Starts, worker[Recovery(s)].at # "over",
           \A v \in Workers \ {Recovery(s)} : worker'[v] = worker[v],
           \A r \in Starts \ {s} : pending'[r] = pending[r],
           UNCHANGED <<start, acked, accepted, old>>,
           shared \subseteq shared', shared' \subseteq accepted,
           \A d \in Ids : json'[d] # None \/ pending'[s][d] # None => d \in accepted,
           worker'[Recovery(s)].at \in OnFiles \cup {"send"}
              => worker'[Recovery(s)].id \in accepted,
           \A d \in Ids \ shared' : pending'[s][d] # None \/ RecoveryHas(s, d)' =>
               \/ Holds(s, d)
               \/ worker[Call(d)].at = "over" /\ \A r \in Starts \ {s} : ~ Holds(r, d),
           \A d \in Ids : RecoveryHas(s, d)' /\ worker'[Recovery(s)].at # "migrate" =>
               pending'[s][d] = None,
           worker'[Recovery(s)].at \in {"defer", "over"} => pending'[s] = NothingPending,
           worker'[Recovery(s)].at # "new",
           worker[Recovery(s)].at = "defer" => \A d \in Ids : worker[Deferral(s, d)].at = "over"
    PROVE  Owned'
<1>1. Known /\ OneOwner /\ OnePlace
  BY DEF Owned
<1>2. \A d \in Ids : worker'[Call(d)] = worker[Call(d)]
  BY Kinds
<1>3. \A r \in Starts, d \in Ids : worker'[Deferral(r, d)] = worker[Deferral(r, d)]
  BY Kinds
<1>4. \A r \in Starts \ {s} : worker'[Recovery(r)] = worker[Recovery(r)]
  BY Kinds
<1>5. Known'
  <2>1. \A w \in Workers : \/ worker'[w].at \in OnFiles
                           \/ w \in Recoveries /\ worker'[w].at = "send"
                           => worker'[w].id \in accepted'
    BY <1>1 DEF Known
  <2>2. \A r \in Starts, d \in Ids : pending'[r][d] # None => d \in accepted'
    BY <1>1 DEF Known
  <2> QED BY <1>1, <1>2, <2>1, <2>2 DEF Known
<1>6. OneOwner'
  <2>1. ASSUME NEW d \in Ids \ shared', Holds(s, d)'
        PROVE  worker[Call(d)].at = "over" /\ \A r \in Starts \ {s} : ~ Holds(r, d)
    <3>1. \/ Holds(s, d)
          \/ worker[Call(d)].at = "over" /\ \A r \in Starts \ {s} : ~ Holds(r, d)
      BY <1>3, <2>1 DEF Holds
    <3> QED BY <1>1, <3>1 DEF OneOwner
  <2>2. \A r \in Starts \ {s}, d \in Ids : Holds(r, d)' <=> Holds(r, d)
    BY <1>3, <1>4 DEF Holds, RecoveryHas
  <2> SUFFICES ASSUME NEW r \in Starts, NEW d \in Ids \ shared', Holds(r, d)'
               PROVE  /\ worker'[Call(d)].at = "over"
                      /\ \A q \in Starts \ {r} : ~ Holds(q, d)'
    BY DEF OneOwner
  <2>3. CASE r = s
    BY <1>2, <2>1, <2>2, <2>3
  <2>4. CASE r # s
    <3>1. Holds(r, d) /\ d \in Ids \ shared
      BY <2>2, <2>4
    <3>2. worker[Call(d)].at = "over" /\ \A q \in Starts \ {r} : ~ Holds(q, d)
      BY <1>1, <3>1 DEF OneOwner
    <3>3. ~ Holds(s, d)'
      BY <2>1, <2>4, <3>1
    <3> QED BY <1>2, <2>2, <3>2, <3>3
  <2> QED BY <2>3, <2>4
<1>7. OnePlace'
  <2>1. ASSUME NEW r \in Starts, r # s PROVE OnePlaceOf(r)'
    <3>1. OnePlaceOf(r) /\ worker'[Recovery(r)] = worker[Recovery(r)] /\ pending'[r] = pending[r]
      BY <1>1, <1>4, <2>1 DEF OnePlace
    <3> QED BY <1>3, <3>1 DEF OnePlaceOf, RecoveryHas
  <2>2. OnePlaceOf(s)'
    <3>1. OnePlaceOf(s)
      BY <1>1 DEF OnePlace
    <3>2. \A d \in Ids : worker'[Deferral(s, d)].at = "over" /\ worker'[Deferral(s, d)].id = d
      BY <1>3, <3>1 DEF OnePlaceOf
    <3>3. ~ (s > start)
      BY <3>1 DEF OnePlaceOf
    <3> QED BY <3>2, <3>3 DEF OnePlaceOf
  <2> QED BY <2>1, <2>2 DEF OnePlace
<1> QED BY <1>5, <1>6, <1>7 DEF Owned


-----------------------------------------------------------------------------
(* The steps of a recovery between its entries, of new calls, and of restarts *)

\* The recovery of s leaves the other workers, and the lists of other recoveries.
Alone(s) ==
    /\ \A v \in Workers \ {Recovery(s)} : worker'[v] = worker[v]
    /\ \A r \in Starts \ {s} : pending'[r] = pending[r] /\ listed'[r] = listed[r]
    /\ UNCHANGED <<start, accepted, acked, old>>

LEMMA LoadEffect ==
    ASSUME IInv, NEW s \in Starts, NEW d \in Ids, Load(s, d)
    PROVE  /\ Alone(s) /\ UNCHANGED json
           /\ worker[Recovery(s)].at = "load" /\ d \in listed[s] /\ listed'[s] = listed[s] \ {d}
           /\ \/ diskFaults' # 0 /\ UNCHANGED <<pending, shared, worker>>
              \/ /\ UNCHANGED diskFaults
                 /\ pending'[s][d] = json[d]
                 /\ \A e \in Ids \ {d} : pending'[s][e] = pending[s][e]
                 /\ shared' = IF json[d] # None /\ Had(d) THEN shared \cup {d} ELSE shared
                 /\ IF json[d] # None /\ json[d].retry > 0 /\ ~ json[d].stamped
                    THEN worker'[Recovery(s)].at = "migrate" /\ worker'[Recovery(s)].id = d
                    ELSE worker' = worker
<1>1. worker \in [Workers -> WorkerState] /\ json[d] \in Entry \cup {None} /\ TypeOK
  BY DEF IInv, TypeOK
<1>2. /\ worker[Recovery(s)].at = "load" /\ d \in listed[s] /\ listed'[s] = listed[s] \ {d}
      /\ \A r \in Starts \ {s} : listed'[r] = listed[r]
      /\ UNCHANGED <<json, start, accepted, acked, old>>
  BY <1>1 DEF Load, disk, TypeOK
<1>3. DiskFault => diskFaults' # 0
  BY <1>1, FaultCounts
<1>4. CASE DiskFault /\ UNCHANGED <<pending, shared, worker>>
  BY <1>2, <1>3, <1>4 DEF Alone
<1>5. CASE /\ UNCHANGED diskFaults /\ pending' = [pending EXCEPT ![s][d] = json[d]]
           /\ shared' = IF json[d] # None /\ Had(d) THEN shared \cup {d} ELSE shared
           /\ worker' = IF json[d] # None /\ json[d].retry > 0 /\ ~ json[d].stamped
                        THEN [worker EXCEPT ![Recovery(s)].at = "migrate", ![Recovery(s)].id = d]
                        ELSE worker
  <2>1. /\ pending'[s][d] = json[d]
        /\ \A e \in Ids \ {d} : pending'[s][e] = pending[s][e]
        /\ \A r \in Starts \ {s} : pending'[r] = pending[r]
    BY <1>1, <1>5, ListUpdated
  <2>2. CASE json[d] # None /\ json[d].retry > 0 /\ ~ json[d].stamped
    <3>1. /\ worker'[Recovery(s)].at = "migrate" /\ worker'[Recovery(s)].id = d
          /\ \A v \in Workers \ {Recovery(s)} : worker'[v] = worker[v]
      BY <1>1, <1>5, <2>2, Kinds DEF WorkerState
    <3> QED BY <1>2, <1>5, <2>1, <2>2, <3>1 DEF Alone
  <2>3. CASE ~ (json[d] # None /\ json[d].retry > 0 /\ ~ json[d].stamped)
    <3>1. worker' = worker
      BY <1>5, <2>3
    <3> QED BY <1>2, <1>5, <2>1, <2>3, <3>1 DEF Alone
  <2> QED BY <2>2, <2>3
<1> QED BY <1>4, <1>5 DEF Load

LEMMA MigrateEffect ==
    ASSUME IInv, NEW s \in Starts, Migrate(s)
    PROVE  LET d == worker[Recovery(s)].id IN
           /\ Alone(s)
           /\ worker[Recovery(s)].at = "migrate" /\ worker'[Recovery(s)].at = "load" /\ d \in Ids
           /\ worker'[Recovery(s)].id = d /\ pending[s][d] # None
           /\ UNCHANGED <<listed, shared>>
           /\ \A e \in Ids \ {d} : json'[e] = json[e] /\ pending'[s][e] = pending[s][e]
           /\ \/ diskFaults' # 0 /\ UNCHANGED json /\ pending'[s][d] = None
              \/ /\ UNCHANGED diskFaults /\ json'[d] = pending'[s][d]
                 /\ json'[d] # None /\ json'[d].stamped
<1> DEFINE d == worker[Recovery(s)].id
<1>1. /\ worker \in [Workers -> WorkerState] /\ TypeOK /\ json \in [Ids -> Entry \cup {None}]
      /\ Recovery(s) \in Workers /\ Recovery(s)[2] = s
  BY WorkersDistinct DEF IInv, TypeOK
<1>2. d \in Ids /\ pending[s][d] \in Entry /\ worker[Recovery(s)].at = "migrate"
  BY <1>1 DEF IInv, WorkersKnow, WorkerKnows, Handling, Migrate
<1>3. PICK entry : entry = [pending[s][d] EXCEPT !.stamped = TRUE]
  OBVIOUS
<1>4. entry \in Entry /\ entry # None /\ entry.stamped /\ pending[s][d] # None
  BY <1>2, <1>3, NoneAssumption DEF Entry
<1>5. /\ \A v \in Workers \ {Recovery(s)} : worker'[v] = worker[v]
      /\ worker'[Recovery(s)].at = "load" /\ worker'[Recovery(s)].id = d
  <2>1. Goes(Recovery(s), "load") /\ "load" \in Stages
    BY DEF Migrate, Stages
  <2> QED BY <1>1, <2>1, WorkerGoes
<1>6. UNCHANGED <<start, listed, accepted, acked, shared, old>>
  BY DEF Migrate, FilesOnly
<1>7. \/ /\ json' = [json EXCEPT ![d] = entry]
         /\ pending' = [pending EXCEPT ![s][d] = entry]
         /\ UNCHANGED diskFaults
      \/ DiskFault /\ pending' = [pending EXCEPT ![s][d] = None] /\ UNCHANGED json
  BY <1>3 DEF Migrate
<1>8. PICK p \in Entry \cup {None} : pending' = [pending EXCEPT ![s][d] = p]
  BY <1>4, <1>7
<1>9. /\ pending'[s][d] = p /\ \A e \in Ids \ {d} : pending'[s][e] = pending[s][e]
      /\ \A r \in Starts \ {s} : pending'[r] = pending[r]
  <2> HIDE DEF d
  <2> QED BY <1>1, <1>2, <1>8, ListUpdated
<1>10. Alone(s)
  BY <1>5, <1>6, <1>9 DEF Alone
<1>11. \A e \in Ids \ {d} : json'[e] = json[e]
  BY <1>1, <1>7
<1>12. \/ diskFaults' # 0 /\ UNCHANGED json /\ pending'[s][d] = None
       \/ UNCHANGED diskFaults /\ json'[d] = entry /\ pending'[s][d] = entry
  <2>1. CASE DiskFault /\ pending' = [pending EXCEPT ![s][d] = None] /\ UNCHANGED json
    BY <1>1, <1>2, <2>1, ListUpdated, FaultCounts
  <2>2. CASE /\ json' = [json EXCEPT ![d] = entry] /\ UNCHANGED diskFaults
             /\ pending' = [pending EXCEPT ![s][d] = entry]
    BY <1>1, <1>2, <1>4, <2>2, ListUpdated
  <2> QED BY <1>7, <2>1, <2>2
<1> QED BY <1>2, <1>4, <1>5, <1>6, <1>9, <1>10, <1>11, <1>12

\* The steps that take no entry off the list.
Turn(s) == List(s) \/ Loaded(s) \/ Move(s) \/ RecoveryEnds(s)

LEMMA TurnEffect ==
    ASSUME IInv, NEW s \in Starts, Turn(s)
    PROVE  /\ Alone(s)
           /\ worker'[Recovery(s)].id = worker[Recovery(s)].id
           /\ UNCHANGED <<pending, shared>>
           /\ diskFaults' = 0 => diskFaults = 0
           /\ \/ /\ worker[Recovery(s)].at = "list" /\ worker'[Recovery(s)].at = "load"
                 /\ UNCHANGED json /\ listed'[s] = {d \in Ids : json[d] # None}
              \/ /\ worker[Recovery(s)].at = "load" /\ worker'[Recovery(s)].at = "scan"
                 /\ UNCHANGED <<json, listed>> /\ listed[s] = {}
              \/ /\ worker[Recovery(s)].at = "move" /\ worker'[Recovery(s)].at = "scan"
                 /\ UNCHANGED listed /\ worker[Recovery(s)].id \in Ids
                 /\ \A e \in Ids \ {worker[Recovery(s)].id} : json'[e] = json[e]
                 /\ \/ json'[worker[Recovery(s)].id] = None
                    \/ diskFaults' # 0 /\ UNCHANGED json
              \/ /\ worker[Recovery(s)].at = "scan" /\ pending[s] = NothingPending
                 /\ worker'[Recovery(s)].at = "over" /\ UNCHANGED <<json, listed>>
              \/ /\ worker[Recovery(s)].at = "defer"
                 /\ \A d \in Ids : worker[Deferral(s, d)].at = "over"
                 /\ worker'[Recovery(s)].at = "over" /\ UNCHANGED <<json, listed>>
<1>1. /\ worker \in [Workers -> WorkerState] /\ TypeOK /\ json \in [Ids -> Entry \cup {None}]
      /\ listed \in [Starts -> SUBSET Ids] /\ Recovery(s) \in Workers
  BY Kinds DEF IInv, TypeOK
<1>2. PICK g \in {"load", "scan", "over"} :
         /\ Goes(Recovery(s), g) /\ (List(s) => g = "load")
         /\ (Loaded(s) \/ Move(s) => g = "scan") /\ (RecoveryEnds(s) => g = "over")
  <2>1. /\ List(s) => worker[Recovery(s)].at = "list"
        /\ Loaded(s) => worker[Recovery(s)].at = "load"
        /\ Move(s) => worker[Recovery(s)].at = "move"
        /\ RecoveryEnds(s) => worker[Recovery(s)].at \in {"scan", "defer"}
    BY DEF List, Loaded, Move, RecoveryEnds
  <2> QED BY <2>1 DEF Turn, List, Loaded, Move, RecoveryEnds
<1>3. /\ worker'[Recovery(s)].at = g /\ worker'[Recovery(s)].id = worker[Recovery(s)].id
      /\ \A v \in Workers \ {Recovery(s)} : worker'[v] = worker[v]
  <2>1. g \in Stages
    BY DEF Stages
  <2> QED BY <1>1, <1>2, <2>1, WorkerGoes
<1>4. UNCHANGED <<start, pending, accepted, acked, shared, old>>
  BY DEF Turn, List, Loaded, Move, RecoveryEnds, ScanOnly, FilesOnly, history
<1>5. diskFaults' = 0 => diskFaults = 0
  BY <1>1, FaultCounts DEF Turn, List, Loaded, Move, RecoveryEnds, ScanOnly, counts
<1>6. \A r \in Starts \ {s} : listed'[r] = listed[r]
  BY <1>1 DEF Turn, List, Loaded, Move, RecoveryEnds, ScanOnly, FilesOnly
<1>7. Alone(s)
  BY <1>3, <1>4, <1>6 DEF Alone
<1>8. CASE List(s)
  <2>1. listed'[s] = {d \in Ids : json[d] # None}
    BY <1>1, <1>8 DEF List
  <2> QED BY <1>2, <1>3, <1>4, <1>5, <1>7, <1>8, <2>1 DEF List
<1>9. CASE Loaded(s)
  BY <1>2, <1>3, <1>4, <1>5, <1>7, <1>9 DEF Loaded, FilesOnly, disk
<1>10. CASE Move(s)
  <2>1. worker[Recovery(s)].at = "move" /\ UNCHANGED listed
    BY <1>10 DEF Move, FilesOnly
  <2>2. worker[Recovery(s)].id \in Ids
    BY <1>1, <2>1 DEF IInv, WorkersKnow, WorkerKnows, Handling
  <2>3. \/ json' = [json EXCEPT ![worker[Recovery(s)].id] = None]
        \/ diskFaults' # 0 /\ UNCHANGED json
    BY <1>1, <1>10, FaultCounts DEF Move
  <2> QED BY <1>1, <1>2, <1>3, <1>4, <1>5, <1>7, <1>10, <2>1, <2>2, <2>3
<1>11. CASE RecoveryEnds(s)
  BY <1>2, <1>3, <1>4, <1>5, <1>7, <1>11 DEF RecoveryEnds, ScanOnly, FilesOnly, disk
<1> QED BY <1>8, <1>9, <1>10, <1>11 DEF Turn

\* The steps that take the next entry off it.
Take(s, d) == Skip(s, d) \/ Replay(s, d) \/ Exhausted(s, d)

LEMMA TakeEffect ==
    ASSUME IInv, NEW s \in Starts, NEW d \in Ids, Take(s, d)
    PROVE  /\ Alone(s)
           /\ UNCHANGED <<json, listed, shared, diskFaults>>
           /\ worker[Recovery(s)].at = "scan" /\ pending[s][d] # None
           /\ pending'[s][d] = None /\ \A e \in Ids \ {d} : pending'[s][e] = pending[s][e]
           /\ \/ worker' = worker /\ MustWait(pending[s][d])
              \/ worker'[Recovery(s)].at \in {"send", "move"} /\ worker'[Recovery(s)].id = d
<1>1. worker \in [Workers -> WorkerState] /\ TypeOK
  BY DEF IInv, TypeOK
<1>2. /\ UNCHANGED <<start, json, listed, accepted, acked, shared, old, diskFaults>>
      /\ worker[Recovery(s)].at = "scan" /\ pending[s][d] # None
      /\ pending' = [pending EXCEPT ![s][d] = None]
  BY DEF Take, Skip, Replay, Exhausted, ScanOnly, FilesOnly, NextEntry, disk
<1>3. /\ pending'[s][d] = None /\ \A e \in Ids \ {d} : pending'[s][e] = pending[s][e]
      /\ \A r \in Starts \ {s} : pending'[r] = pending[r]
  BY <1>1, <1>2, ListUpdated
<1>4. \/ worker' = worker /\ MustWait(pending[s][d])
      \/ \E g \in {"send", "move"} : worker' = [worker EXCEPT ![Recovery(s)] = At(g, d)]
  BY DEF Take, Skip, Replay, Exhausted
<1>5. /\ \A v \in Workers \ {Recovery(s)} : worker'[v] = worker[v]
      /\ \/ worker' = worker /\ MustWait(pending[s][d])
         \/ worker'[Recovery(s)].at \in {"send", "move"} /\ worker'[Recovery(s)].id = d
  BY <1>1, <1>4, Kinds DEF At
<1> QED BY <1>2, <1>3, <1>5 DEF Alone

LEMMA DeferEffect ==
    ASSUME IInv, NEW s \in Starts, Defer(s)
    PROVE  /\ UNCHANGED <<start, json, listed, accepted, acked, shared, old, diskFaults>>
           /\ worker[Recovery(s)].at = "scan" /\ worker'[Recovery(s)].at = "defer"
           /\ pending'[s] = NothingPending
           /\ \A r \in Starts \ {s} : /\ pending'[r] = pending[r]
                                      /\ worker'[Recovery(r)] = worker[Recovery(r)]
           /\ \A d \in Ids :
                 /\ worker'[Call(d)] = worker[Call(d)]
                 /\ \A r \in Starts \ {s} : worker'[Deferral(r, d)] = worker[Deferral(r, d)]
                 /\ IF pending[s][d] = None
                    THEN worker'[Deferral(s, d)] = worker[Deferral(s, d)]
                    ELSE worker'[Deferral(s, d)].at = "read" /\ worker'[Deferral(s, d)].id = d
<1>1. /\ UNCHANGED <<start, json, listed, accepted, acked, shared, old, diskFaults>>
      /\ worker[Recovery(s)].at = "scan"
      /\ pending' = [pending EXCEPT ![s] = NothingPending]
      /\ worker' = [w \in Workers |->
                      IF w = Recovery(s) THEN At("defer", None)
                      ELSE IF \E d \in Ids : w = Deferral(s, d) /\ pending[s][d] # None
                      THEN At("read", w[3])
                      ELSE worker[w]]
  BY DEF Defer, ScanOnly, FilesOnly, disk
<1>2. /\ pending'[s] = NothingPending /\ \A r \in Starts \ {s} : pending'[r] = pending[r]
      /\ pending \in [Starts -> [Ids -> Entry \cup {None}]]
  BY <1>1 DEF IInv, TypeOK
<1>3. worker'[Recovery(s)].at = "defer"
  BY <1>1, Kinds DEF At
<1>4. \A r \in Starts \ {s} : worker'[Recovery(r)] = worker[Recovery(r)]
  BY <1>1, Kinds
<1>5. ASSUME NEW d \in Ids
      PROVE  /\ worker'[Call(d)] = worker[Call(d)]
             /\ \A r \in Starts \ {s} : worker'[Deferral(r, d)] = worker[Deferral(r, d)]
             /\ IF pending[s][d] = None
                THEN worker'[Deferral(s, d)] = worker[Deferral(s, d)]
                ELSE worker'[Deferral(s, d)].at = "read" /\ worker'[Deferral(s, d)].id = d
  <2>1. Call(d) # Recovery(s) /\ \A e \in Ids : Call(d) # Deferral(s, e)
    BY Kinds
  <2>2. worker'[Call(d)] = worker[Call(d)]
    BY <1>1, <2>1, Kinds
  <2>3. ASSUME NEW r \in Starts \ {s} PROVE worker'[Deferral(r, d)] = worker[Deferral(r, d)]
    <3>1. Deferral(r, d) # Recovery(s) /\ \A e \in Ids : Deferral(r, d) # Deferral(s, e)
      BY Kinds
    <3> QED BY <1>1, <3>1, Kinds
  <2>4. worker'[Deferral(s, d)] = IF pending[s][d] # None THEN At("read", d)
                                  ELSE worker[Deferral(s, d)]
    <3>1. /\ Deferral(s, d) \in Workers /\ Deferral(s, d) # Recovery(s) /\ Deferral(s, d)[3] = d
          /\ (\E e \in Ids : Deferral(s, d) = Deferral(s, e) /\ pending[s][e] # None)
                <=> pending[s][d] # None
      BY Kinds, WorkersDistinct
    <3> QED BY <1>1, <3>1
  <2> QED BY <2>2, <2>3, <2>4 DEF At
<1> QED BY <1>1, <1>2, <1>3, <1>4, <1>5

LEMMA EnqueueEffect ==
    ASSUME IInv, NEW d \in Ids, Enqueue(d)
    PROVE  /\ \A v \in Workers \ {Call(d)} : worker'[v] = worker[v]
           /\ worker[Call(d)].at = "new" /\ worker'[Call(d)].at = "send"
           /\ worker'[Call(d)].id = d
           /\ UNCHANGED <<start, listed, pending, acked, shared, old>>
           /\ \A e \in Ids \ {d} : json'[e] = json[e]
           /\ diskFaults' = 0 => diskFaults = 0
           /\ \/ accepted' = accepted \cup {d}
              \/ UNCHANGED <<json, accepted>>
<1>1. worker \in [Workers -> WorkerState] /\ TypeOK /\ json \in [Ids -> Entry \cup {None}]
  BY DEF IInv, TypeOK
<1>2. /\ worker'[Call(d)].at = "send" /\ worker'[Call(d)].id = worker[Call(d)].id
      /\ \A v \in Workers \ {Call(d)} : worker'[v] = worker[v]
  <2>1. Goes(Call(d), "send") /\ "send" \in Stages /\ Call(d) \in Workers
    BY Kinds DEF Enqueue, Stages
  <2> QED BY <1>1, <2>1, WorkerGoes
<1>3. worker[Call(d)].at = "new" /\ UNCHANGED <<start, listed, pending, acked, shared, old>>
  BY DEF Enqueue
<1>4. diskFaults' = 0 => diskFaults = 0
  BY <1>1, FaultCounts DEF Enqueue
<1>5. \A e \in Ids \ {d} : json'[e] = json[e]
  BY <1>1 DEF Enqueue
<1> QED BY <1>2, <1>3, <1>4, <1>5, CallsOwn DEF Enqueue

LEMMA CrashEffect ==
    ASSUME IInv, Crash
    PROVE  /\ UNCHANGED <<json, accepted, acked, shared, diskFaults>>
           /\ start' = 1 /\ worker'[Recovery(1)].at = "list"
           /\ \A s \in Starts :
                 /\ listed'[s] = {} /\ pending'[s] = NothingPending
                 /\ old'[s] = (IF s = 1 THEN accepted ELSE {})
                 /\ s # 1 => worker'[Recovery(s)].at = "over" \/ worker[Recovery(s)].at = "new"
                 /\ \A d \in Ids : \/ worker[Deferral(s, d)].at = "new"
                                   \/ /\ worker'[Deferral(s, d)].at = "over"
                                      /\ worker'[Deferral(s, d)].id = d
           /\ \A d \in Ids : \/ worker[Call(d)].at = "new" /\ worker'[Call(d)] = worker[Call(d)]
                             \/ worker'[Call(d)].at = "over"
<1>1. /\ UNCHANGED <<json, accepted, acked, shared, diskFaults>> /\ start' = 1
      /\ \A s \in Starts : /\ listed'[s] = {} /\ pending'[s] = NothingPending
                           /\ old'[s] = (IF s = 1 THEN accepted ELSE {})
      /\ worker' = [w \in Workers |->
                      IF w = Recovery(1) THEN At("list", None)
                      ELSE IF worker[w].at = "new" THEN worker[w] ELSE At("over", w[3])]
  BY DEF Crash, disk
<1>2. worker'[Recovery(1)].at = "list"
  BY <1>1, Kinds, FirstStart DEF At
<1>3. \A w \in Workers \ {Recovery(1)} :
         worker'[w] = IF worker[w].at = "new" THEN worker[w] ELSE At("over", w[3])
  BY <1>1
<1>4. \A x : At("over", x).at = "over" /\ At("over", x).id = x
  BY DEF At
<1>5. ASSUME NEW s \in Starts, NEW d \in Ids
      PROVE  \/ worker[Deferral(s, d)].at = "new"
             \/ worker'[Deferral(s, d)].at = "over" /\ worker'[Deferral(s, d)].id = d
  BY <1>3, <1>4, Kinds, FirstStart, WorkersDistinct
<1>6. ASSUME NEW s \in Starts, s # 1
      PROVE  worker'[Recovery(s)].at = "over" \/ worker[Recovery(s)].at = "new"
  BY <1>3, <1>4, <1>6, Kinds, FirstStart
<1>7. ASSUME NEW d \in Ids
      PROVE  \/ worker[Call(d)].at = "new" /\ worker'[Call(d)] = worker[Call(d)]
             \/ worker'[Call(d)].at = "over"
  BY <1>3, <1>4, Kinds, FirstStart
<1> QED BY <1>1, <1>2, <1>5, <1>6, <1>7

LEMMA RestartEffect ==
    ASSUME IInv, Restart
    PROVE  \E s \in Starts :
              /\ s = start + 1 /\ start' = s
              /\ worker'[Recovery(s)].at = "list"
              /\ old'[s] = accepted /\ \A r \in Starts \ {s} : old'[r] = old[r]
              /\ \A v \in Workers \ {Recovery(s)} : worker'[v] = worker[v]
              /\ UNCHANGED <<json, listed, pending, accepted, acked, shared, diskFaults>>
<1>1. /\ start \in 1 .. MaxStarts /\ worker \in [Workers -> WorkerState]
      /\ old \in [Starts -> SUBSET Ids]
  BY DEF IInv, TypeOK, Starts
<1>2. PICK s : s = start + 1
  OBVIOUS
<1>3. s \in Starts
  BY <1>1, <1>2, BoundsAssumption DEF Restart, Starts
<1>4. /\ start' = s /\ worker' = [worker EXCEPT ![Recovery(s)] = At("list", None)]
      /\ old' = [old EXCEPT ![s] = accepted]
      /\ UNCHANGED <<json, listed, pending, accepted, acked, shared, diskFaults>>
  BY <1>2 DEF Restart, disk, counts
<1>5. worker'[Recovery(s)].at = "list"
  BY <1>1, <1>3, <1>4, Kinds DEF At
<1> QED BY <1>1, <1>2, <1>3, <1>4, <1>5

LEMMA InitEffect ==
    ASSUME Init
    PROVE  /\ start = 1 /\ worker[Recovery(1)].at = "list" /\ 1 \in Starts
           /\ accepted = Leftover /\ acked = {} /\ shared = {}
           /\ \A s \in Starts :
                 /\ pending[s] = NothingPending /\ listed[s] = {}
                 /\ old[s] = (IF s = 1 THEN Leftover ELSE {})
                 /\ s # 1 => worker[Recovery(s)].at = "over"
                 /\ \A d \in Ids : /\ worker[Deferral(s, d)].at = "over"
                                   /\ worker[Deferral(s, d)].id = d
           /\ \A d \in Ids : /\ json[d] # None => d \in Leftover
                             /\ worker[Call(d)].at = (IF d \in Leftover THEN "over" ELSE "new")
<1>1. \A w \in Workers :
         worker[w] = IF w = Recovery(1) THEN At("list", None)
                     ELSE IF w[1] = "call" /\ w[3] \notin Leftover THEN At("new", w[3])
                     ELSE At("over", w[3])
  BY DEF Init
<1>2. \A g, x : At(g, x).at = g /\ At(g, x).id = x
  BY DEF At
<1>3. worker[Recovery(1)].at = "list" /\ 1 \in Starts
  BY <1>1, <1>2, Kinds, FirstStart
<1>4. ASSUME NEW s \in Starts, s # 1 PROVE worker[Recovery(s)].at = "over"
  BY <1>1, <1>2, <1>4, Kinds, FirstStart, WorkersDistinct
<1>5. ASSUME NEW s \in Starts, NEW d \in Ids
      PROVE  worker[Deferral(s, d)].at = "over" /\ worker[Deferral(s, d)].id = d
  BY <1>1, <1>2, Kinds, FirstStart, WorkersDistinct
<1>6. ASSUME NEW d \in Ids
      PROVE  worker[Call(d)].at = (IF d \in Leftover THEN "over" ELSE "new")
  BY <1>1, <1>2, Kinds, FirstStart, WorkersDistinct
<1>7. \A d \in Ids : json[d] # None => d \in Leftover
  BY DEF Init
<1>8. /\ start = 1 /\ accepted = Leftover /\ acked = {} /\ shared = {}
      /\ \A s \in Starts : /\ pending[s] = NothingPending /\ listed[s] = {}
                           /\ old[s] = (IF s = 1 THEN Leftover ELSE {})
  BY DEF Init
<1> QED BY <1>3, <1>4, <1>5, <1>6, <1>7, <1>8

LEMMA InitOwned == ASSUME Init PROVE Owned
<1>1. \A s \in Starts, d \in Ids : pending[s][d] = None /\ ~ RecoveryHas(s, d)
  BY InitEffect DEF NothingPending, RecoveryHas, Handling
<1>2. Known
  <2>1. ASSUME NEW w \in Workers PROVE worker[w].at \in {"list", "new", "over"}
    BY InitEffect, Kinds
  <2>2. \A s \in Starts : old[s] \subseteq accepted
    BY InitEffect
  <2>3. \A d \in Ids : /\ json[d] # None => d \in accepted
                       /\ worker[Call(d)].at = "new" => d \notin accepted
                       /\ worker[Call(d)].at \in {"new", "over"}
    BY InitEffect
  <2> QED BY <1>1, <2>1, <2>2, <2>3, InitEffect DEF Known, OnFiles
<1>3. OneOwner
  BY <1>1, InitEffect DEF OneOwner, Holds
<1>4. ASSUME NEW s \in Starts PROVE OnePlaceOf(s)
  BY <1>1, InitEffect DEF OnePlaceOf, Starts
<1> QED BY <1>2, <1>3, <1>4 DEF Owned, OnePlace

LEMMA EnqueueOwned == ASSUME IInv, Owned, NEW d \in Ids, Enqueue(d) PROVE Owned'
<1>1. Known /\ OneOwner /\ OnePlace
  BY DEF Owned
<1>2. d \notin accepted /\ accepted \subseteq accepted' /\ accepted' \subseteq accepted \cup {d}
  BY <1>1, EnqueueEffect DEF Known
<1>3. /\ \A e \in Ids \ {d} : worker'[Call(e)] = worker[Call(e)]
      /\ \A s \in Starts : worker'[Recovery(s)] = worker[Recovery(s)]
      /\ \A s \in Starts, e \in Ids : worker'[Deferral(s, e)] = worker[Deferral(s, e)]
      /\ UNCHANGED <<start, pending, shared>>
  BY EnqueueEffect, Kinds
<1>4. json'[d] # None => d \in accepted'
  BY <1>1, EnqueueEffect DEF Known
<1>5. Known'
  <2>1. ASSUME NEW w \in Workers, w # Call(d)
        PROVE  worker'[w].at \in OnFiles \/ (w \in Recoveries /\ worker'[w].at = "send")
                  => worker'[w].id \in accepted'
    BY <1>1, <1>2, <2>1, EnqueueEffect DEF Known
  <2>2. worker'[Call(d)].at \notin OnFiles /\ Call(d) \notin Recoveries
    BY EnqueueEffect, Kinds DEF OnFiles
  <2>3. \A e \in Ids : /\ worker'[Call(e)].at = "new" => e \notin accepted'
                       /\ worker'[Call(e)].at \in Handling \cup {"new", "over"}
    BY <1>1, <1>2, <1>3, EnqueueEffect DEF Known, Handling
  <2>4. acked' \cup shared' \subseteq accepted' /\ \A s \in Starts : old'[s] \subseteq accepted'
    BY <1>1, <1>2, EnqueueEffect DEF Known
  <2>5. /\ \A e \in Ids : json'[e] # None => e \in accepted'
        /\ \A s \in Starts, e \in Ids : pending'[s][e] # None => e \in accepted'
    BY <1>1, <1>2, <1>4, EnqueueEffect DEF Known
  <2> QED BY <2>1, <2>2, <2>3, <2>4, <2>5 DEF Known
<1>6. \A s \in Starts, e \in Ids : Holds(s, e)' <=> Holds(s, e)
  BY <1>3 DEF Holds, RecoveryHas
<1>7. OneOwner'
  <2>1. ASSUME NEW s \in Starts, d \notin shared PROVE ~ Holds(s, d)
    BY <1>1, <2>1, EnqueueEffect DEF OneOwner
  <2> QED BY <1>1, <1>3, <1>6, <2>1 DEF OneOwner
<1>8. ASSUME NEW s \in Starts PROVE OnePlaceOf(s)'
  <2>1. OnePlaceOf(s)
    BY <1>1 DEF OnePlace
  <2> QED BY <1>3, <2>1 DEF OnePlaceOf, RecoveryHas
<1> QED BY <1>5, <1>7, <1>8 DEF Owned, OnePlace

LEMMA LoadOwned ==
    ASSUME IInv, Owned, NEW s \in Starts, NEW d \in Ids, Load(s, d) PROVE Owned'
<1>1. Known /\ OneOwner /\ OnePlace
  BY DEF Owned
<1>2. worker[Recovery(s)].at = "load" /\ worker'[Recovery(s)].at \in {"load", "migrate"}
  BY LoadEffect
<1>3. worker'[Recovery(s)].at = "migrate" =>
         worker'[Recovery(s)].id = d /\ json[d] # None /\ pending'[s][d] = json[d]
  BY LoadEffect
<1>4. \A e \in Ids \ {d} : pending'[s][e] = pending[s][e]
  BY LoadEffect
<1>5. \/ pending' = pending /\ worker' = worker
      \/ pending'[s][d] = json[d] /\ (json[d] # None /\ Had(d) => d \in shared')
  BY LoadEffect
<1>6. shared \subseteq shared' /\ shared' \subseteq accepted
  BY <1>1, LoadEffect DEF Known
<1>7. \A e \in Ids : json'[e] # None \/ pending'[s][e] # None => e \in accepted
  <2>1. UNCHANGED json
    BY LoadEffect
  <2> QED BY <1>1, <1>4, <1>5, <2>1 DEF Known
<1>8. ASSUME json[d] # None, ~ Had(d)
      PROVE  worker[Call(d)].at = "over" /\ \A r \in Starts \ {s} : ~ Holds(r, d)
  <2>1. \A w \in Workers : worker[w].id = d => worker[w].at \notin Handling
    BY <1>8 DEF Had, Busy
  <2>2. worker[Call(d)].at = "over"
    <3>1. worker[Call(d)].at \in Handling \cup {"new", "over"} /\ worker[Call(d)].at # "new"
      BY <1>1, <1>8 DEF Known
    <3> QED BY <2>1, <3>1, CallsOwn, Kinds
  <2>3. ASSUME NEW r \in Starts PROVE ~ Holds(r, d)
    <3>1. pending[r][d] = None
      BY <1>8 DEF Had
    <3>2. ~ RecoveryHas(r, d)
      BY <2>1, Kinds DEF RecoveryHas
    <3>3. worker[Deferral(r, d)].at \in {"read", "write", "over"} /\ worker[Deferral(r, d)].id = d
      BY <1>1 DEF OnePlace, OnePlaceOf
    <3> QED BY <2>1, <3>1, <3>2, <3>3, Kinds DEF Holds, Handling
  <2> QED BY <2>2, <2>3
<1>9. ASSUME NEW e \in Ids \ shared', pending'[s][e] # None \/ RecoveryHas(s, e)'
      PROVE  \/ Holds(s, e)
             \/ worker[Call(e)].at = "over" /\ \A r \in Starts \ {s} : ~ Holds(r, e)
  <2>1. CASE e # d
    <3>1. ~ RecoveryHas(s, e)'
      BY <1>2, <1>3, <2>1 DEF RecoveryHas, Handling
    <3> QED BY <1>4, <1>9, <2>1, <3>1 DEF Holds
  <2>2. CASE e = d
    <3>1. CASE pending' = pending /\ worker' = worker
      BY <1>9, <3>1 DEF Holds, RecoveryHas
    <3>2. CASE pending'[s][d] = json[d] /\ (json[d] # None /\ Had(d) => d \in shared')
      <4>1. json[d] # None
        BY <1>2, <1>3, <1>9, <2>2, <3>2 DEF RecoveryHas, Handling
      <4> QED BY <1>8, <1>9, <2>2, <3>2, <4>1
    <3> QED BY <1>5, <3>1, <3>2
  <2> QED BY <2>1, <2>2
<1>10. \A e \in Ids : RecoveryHas(s, e)' /\ worker'[Recovery(s)].at # "migrate" =>
           pending'[s][e] = None
  BY <1>2 DEF RecoveryHas, Handling
<1>11. worker'[Recovery(s)].at \in OnFiles \cup {"send"} => worker'[Recovery(s)].id \in accepted
  BY <1>1, <1>2, <1>3 DEF Known, OnFiles
<1>12. Alone(s)
  BY LoadEffect
<1> QED BY <1>2, <1>6, <1>7, <1>9, <1>10, <1>11, <1>12, RecoveryOwned DEF Alone

LEMMA MigrateOwned == ASSUME IInv, Owned, NEW s \in Starts, Migrate(s) PROVE Owned'
<1>1. Known /\ OneOwner /\ OnePlace
  BY DEF Owned
<1>2. PICK d \in Ids :
         /\ worker[Recovery(s)].id = d /\ pending[s][d] # None
         /\ worker[Recovery(s)].at = "migrate" /\ worker'[Recovery(s)].at = "load"
         /\ Alone(s) /\ UNCHANGED shared
         /\ \A e \in Ids \ {d} : json'[e] = json[e] /\ pending'[s][e] = pending[s][e]
  BY MigrateEffect
<1>3. \A e \in Ids : json'[e] # None \/ pending'[s][e] # None => e \in accepted
  BY <1>1, <1>2 DEF Known
<1>4. \A e \in Ids : ~ RecoveryHas(s, e)'
  BY <1>2 DEF RecoveryHas, Handling
<1>5. \A e \in Ids : pending'[s][e] # None => Holds(s, e)
  BY <1>2 DEF Holds
<1>6. shared \subseteq shared' /\ shared' \subseteq accepted
  BY <1>1, <1>2 DEF Known
<1> QED BY <1>2, <1>3, <1>4, <1>5, <1>6, RecoveryOwned DEF OnFiles, Alone

LEMMA TurnOwned == ASSUME IInv, Owned, NEW s \in Starts, Turn(s) PROVE Owned'
<1>1. Known /\ OneOwner /\ OnePlace
  BY DEF Owned
<1>2. /\ Alone(s) /\ UNCHANGED <<pending, shared>>
      /\ worker'[Recovery(s)].at \in {"load", "scan", "over"} /\ worker[Recovery(s)].at # "over"
      /\ worker[Recovery(s)].at = "defer" => \A d \in Ids : worker[Deferral(s, d)].at = "over"
      /\ \A d \in Ids : json'[d] # None => json[d] # None
  BY TurnEffect
<1>3. worker'[Recovery(s)].at = "over" => pending'[s] = NothingPending
  BY <1>1, TurnEffect DEF OnePlace, OnePlaceOf
<1>4. \A e \in Ids : ~ RecoveryHas(s, e)'
  BY <1>2 DEF RecoveryHas, Handling
<1>5. \A d \in Ids : json'[d] # None \/ pending'[s][d] # None => d \in accepted
  BY <1>1, <1>2 DEF Known
<1>6. shared \subseteq shared' /\ shared' \subseteq accepted
  BY <1>1, <1>2 DEF Known
<1>7. \A e \in Ids : pending'[s][e] # None => Holds(s, e)
  BY <1>2 DEF Holds
<1> QED BY <1>2, <1>3, <1>4, <1>5, <1>6, <1>7, RecoveryOwned DEF OnFiles, Alone

LEMMA TakeOwned ==
    ASSUME IInv, Owned, NEW s \in Starts, NEW d \in Ids, Take(s, d) PROVE Owned'
<1>1. Known /\ OneOwner /\ OnePlace
  BY DEF Owned
<1>2. /\ Alone(s) /\ UNCHANGED <<json, shared>>
      /\ worker[Recovery(s)].at = "scan" /\ pending[s][d] # None
      /\ pending'[s][d] = None /\ \A e \in Ids \ {d} : pending'[s][e] = pending[s][e]
      /\ \/ worker' = worker
         \/ worker'[Recovery(s)].at \in {"send", "move"} /\ worker'[Recovery(s)].id = d
  BY TakeEffect
<1>3. d \in accepted /\ Holds(s, d)
  BY <1>1, <1>2 DEF Known, Holds
<1>4. \A e \in Ids : RecoveryHas(s, e)' => e = d
  BY <1>2 DEF RecoveryHas, Handling
<1>5. \A e \in Ids : pending'[s][e] # None => Holds(s, e)
  BY <1>2 DEF Holds
<1>6. \A e \in Ids : json'[e] # None \/ pending'[s][e] # None => e \in accepted
  BY <1>1, <1>2 DEF Known
<1>7. shared \subseteq shared' /\ shared' \subseteq accepted
  BY <1>1, <1>2 DEF Known
<1>8. worker'[Recovery(s)].at \in {"scan", "send", "move"}
      /\ (worker'[Recovery(s)].at # "scan" => worker'[Recovery(s)].id = d)
  BY <1>2
<1>9. worker'[Recovery(s)].at \in OnFiles \cup {"send"} => worker'[Recovery(s)].id \in accepted
  BY <1>3, <1>8 DEF OnFiles
<1>10. \A e \in Ids : RecoveryHas(s, e)' => pending'[s][e] = None /\ Holds(s, e)
  BY <1>2, <1>3, <1>4
<1> QED BY <1>2, <1>5, <1>6, <1>7, <1>8, <1>9, <1>10, RecoveryOwned DEF Alone

LEMMA DeferOwned == ASSUME IInv, Owned, NEW s \in Starts, Defer(s) PROVE Owned'
<1>1. Known /\ OneOwner /\ OnePlace
  BY DEF Owned
<1>2. /\ \A d \in Ids : pending'[s][d] = None /\ ~ RecoveryHas(s, d)'
      /\ \A r \in Starts \ {s} : pending'[r] = pending[r]
  BY DeferEffect DEF NothingPending, RecoveryHas, Handling
<1>3. ASSUME NEW d \in Ids, worker'[Deferral(s, d)].at # "over"
      PROVE  Holds(s, d)
  BY <1>3, DeferEffect DEF Holds
<1>4. Known'
  <2>1. ASSUME NEW w \in Workers
        PROVE  worker'[w].at \in OnFiles \/ (w \in Recoveries /\ worker'[w].at = "send")
                  => worker'[w].id \in accepted'
    <3>1. CASE w = Recovery(s)
      BY <3>1, DeferEffect DEF OnFiles
    <3>2. ASSUME w # Recovery(s) PROVE worker'[w] = worker[w] \/ worker'[w].id \in accepted
      <4>1. ASSUME NEW r \in Starts, w = Recovery(r) PROVE worker'[w] = worker[w]
        BY <3>2, <4>1, DeferEffect
      <4>2. ASSUME NEW d \in Ids, w = Call(d) PROVE worker'[w] = worker[w]
        BY <4>2, DeferEffect
      <4>3. ASSUME NEW r \in Starts, NEW d \in Ids, w = Deferral(r, d)
            PROVE  worker'[w] = worker[w] \/ worker'[w].id \in accepted
        BY <1>1, <4>3, DeferEffect DEF Known
      <4> QED BY <4>1, <4>2, <4>3, Kinds
    <3>3. CASE w # Recovery(s)
      BY <1>1, <3>2, <3>3, DeferEffect DEF Known
    <3> QED BY <3>1, <3>3
  <2>2. \A r \in Starts, d \in Ids : pending'[r][d] # None => d \in accepted'
    BY <1>1, <1>2, DeferEffect DEF Known
  <2>3. \A d \in Ids : worker'[Call(d)] = worker[Call(d)]
    BY DeferEffect
  <2>4. UNCHANGED <<json, accepted, acked, shared, old>>
    BY DeferEffect
  <2> QED BY <1>1, <2>1, <2>2, <2>3, <2>4 DEF Known
<1>5. OneOwner'
  <2>1. ASSUME NEW r \in Starts, NEW d \in Ids, Holds(r, d)' PROVE Holds(r, d)
    <3>1. CASE r = s
      BY <1>2, <1>3, <2>1, <3>1 DEF Holds
    <3>2. CASE r # s
      BY <1>2, <2>1, <3>2, DeferEffect DEF Holds, RecoveryHas
    <3> QED BY <3>1, <3>2
  <2>2. \A d \in Ids : worker'[Call(d)] = worker[Call(d)]
    BY DeferEffect
  <2>3. UNCHANGED shared
    BY DeferEffect
  <2> QED BY <1>1, <2>1, <2>2, <2>3 DEF OneOwner
<1>6. ASSUME NEW r \in Starts PROVE OnePlaceOf(r)'
  <2>1. OnePlaceOf(r)
    BY <1>1 DEF OnePlace
  <2>2. CASE r = s
    <3>1. \A d \in Ids : /\ worker'[Deferral(s, d)].at \in {"read", "write", "over"}
                         /\ worker'[Deferral(s, d)].id = d
      BY <2>1, <2>2, DeferEffect DEF OnePlaceOf
    <3>2. worker'[Recovery(s)].at = "defer" /\ pending'[s] = NothingPending /\ UNCHANGED start
      BY DeferEffect
    <3>3. ~ (s > start)
      BY <2>1, <2>2, DeferEffect DEF OnePlaceOf
    <3> QED BY <1>2, <2>2, <3>1, <3>2, <3>3 DEF OnePlaceOf
  <2>3. CASE r # s
    BY <1>2, <2>1, <2>3, DeferEffect DEF OnePlaceOf, RecoveryHas
  <2> QED BY <2>2, <2>3
<1> QED BY <1>4, <1>5, <1>6 DEF Owned, OnePlace

LEMMA CrashOwned == ASSUME IInv, Owned, Crash PROVE Owned'
<1>1. Known /\ OneOwner /\ OnePlace
  BY DEF Owned
<1>2. \A s \in Starts, d \in Ids : /\ pending'[s][d] = None
                                   /\ worker'[Deferral(s, d)].at = "over"
                                   /\ worker'[Deferral(s, d)].id = d
  BY <1>1, CrashEffect DEF OnePlace, OnePlaceOf, NothingPending
<1>3. \A s \in Starts : worker'[Recovery(s)].at = (IF s = 1 THEN "list" ELSE "over")
  BY <1>1, CrashEffect DEF OnePlace, OnePlaceOf
<1>4. \A s \in Starts, d \in Ids : ~ RecoveryHas(s, d)'
  BY <1>3 DEF RecoveryHas, Handling
<1>5. Known'
  <2>1. ASSUME NEW w \in Workers PROVE worker'[w].at \in {"list", "new", "over"}
    <3>1. ASSUME NEW d \in Ids PROVE worker'[Call(d)].at \in {"new", "over"}
      BY CrashEffect
    <3> QED BY <1>2, <1>3, <3>1, Kinds
  <2>2. \A d \in Ids : /\ worker'[Call(d)].at = "new" => d \notin accepted'
                       /\ worker'[Call(d)].at \in {"new", "over"}
    BY <1>1, CrashEffect DEF Known
  <2>3. acked' \cup shared' \subseteq accepted' /\ \A s \in Starts : old'[s] \subseteq accepted'
    BY <1>1, CrashEffect DEF Known
  <2>4. \A d \in Ids : json'[d] # None => d \in accepted'
    BY <1>1, CrashEffect DEF Known
  <2> QED BY <1>2, <2>1, <2>2, <2>3, <2>4 DEF Known, OnFiles
<1>6. OneOwner'
  BY <1>2, <1>4 DEF OneOwner, Holds
<1>7. ASSUME NEW s \in Starts PROVE OnePlaceOf(s)'
  <2>1. start' = 1 /\ s \in 1 .. MaxStarts /\ pending'[s] = NothingPending
    BY CrashEffect DEF Starts
  <2>2. s > start' => worker'[Recovery(s)].at = "over"
    BY <1>3, <2>1
  <2> QED BY <1>2, <1>3, <1>4, <2>1, <2>2 DEF OnePlaceOf
<1> QED BY <1>5, <1>6, <1>7 DEF Owned, OnePlace

LEMMA RestartOwned == ASSUME IInv, Owned, Restart PROVE Owned'
<1>1. Known /\ OneOwner /\ OnePlace
  BY DEF Owned
<1>2. PICK s \in Starts :
         /\ s = start + 1 /\ start' = s
         /\ worker'[Recovery(s)].at = "list"
         /\ old'[s] = accepted /\ \A r \in Starts \ {s} : old'[r] = old[r]
         /\ \A v \in Workers \ {Recovery(s)} : worker'[v] = worker[v]
         /\ UNCHANGED <<json, listed, pending, accepted, acked, shared, diskFaults>>
  BY RestartEffect
<1>3. start \in Nat
  BY DEF IInv, TypeOK, Starts
<1>4. /\ \A d \in Ids : worker'[Call(d)] = worker[Call(d)]
      /\ \A r \in Starts, d \in Ids : worker'[Deferral(r, d)] = worker[Deferral(r, d)]
      /\ \A r \in Starts \ {s} : worker'[Recovery(r)] = worker[Recovery(r)]
  BY <1>2, Kinds
<1>5. worker[Recovery(s)].at = "over"
  BY <1>1, <1>2, <1>3 DEF OnePlace, OnePlaceOf
<1>6. \A d \in Ids : ~ RecoveryHas(s, d)'
  BY <1>2 DEF RecoveryHas, Handling
<1>7. Known'
  <2>1. \A w \in Workers : \/ worker'[w].at \in OnFiles
                           \/ w \in Recoveries /\ worker'[w].at = "send"
                           => worker'[w].id \in accepted'
    BY <1>1, <1>2 DEF Known, OnFiles
  <2>2. \A r \in Starts : old'[r] \subseteq accepted'
    BY <1>1, <1>2 DEF Known
  <2> QED BY <1>1, <1>2, <1>4, <2>1, <2>2 DEF Known
<1>8. OneOwner'
  <2>1. \A r \in Starts, d \in Ids : Holds(r, d)' => Holds(r, d)
    BY <1>2, <1>4, <1>6 DEF Holds, RecoveryHas
  <2> QED BY <1>1, <1>2, <1>4, <2>1 DEF OneOwner
<1>9. ASSUME NEW r \in Starts PROVE OnePlaceOf(r)'
  <2>1. OnePlaceOf(r)
    BY <1>1 DEF OnePlace
  <2>2. CASE r = s
    <3>1. \A d \in Ids : worker'[Deferral(s, d)].at = "over" /\ worker'[Deferral(s, d)].id = d
      BY <1>4, <1>5, <2>1, <2>2 DEF OnePlaceOf
    <3>2. ~ (s > start')
      BY <1>2, <1>3
    <3> QED BY <1>2, <1>6, <2>2, <3>1, <3>2 DEF OnePlaceOf
  <2>3. CASE r # s
    <3>1. r > start' => r > start
      BY <1>2, <1>3 DEF Starts
    <3> QED BY <1>2, <1>4, <2>1, <2>3, <3>1 DEF OnePlaceOf, RecoveryHas
  <2> QED BY <2>2, <2>3
<1> QED BY <1>7, <1>8, <1>9 DEF Owned, OnePlace

\* Whatever a step is, it is one of these.
LEMMA NextOwned == ASSUME IInv, Owned, [Next]_vars PROVE Owned'
<1>1. CASE UNCHANGED vars \/ Over
  <2>1. UNCHANGED <<json, worker, start, pending, accepted, acked, shared, old>>
    BY <1>1 DEF vars, disk, history, Over
  <2> QED BY <2>1 DEF Owned, Known, OneOwner, OnePlace, OnePlaceOf, Holds, RecoveryHas
<1>2. ASSUME NEW w \in Workers, SendStep(w) \/ FileStep(w) PROVE Owned'
  BY <1>2, StepMoves, MovesOwned
<1>3. ASSUME NEW d \in Ids, Abort(d) PROVE Owned'
  BY <1>3, AbortMoves, MovesOwned, Kinds
<1>4. ASSUME NEW d \in Ids, Enqueue(d) PROVE Owned'
  BY <1>4, EnqueueOwned
<1>5. ASSUME NEW s \in Starts, RecoveryStep(s) PROVE Owned'
  BY <1>5, TurnOwned, MigrateOwned, DeferOwned, LoadOwned, TakeOwned DEF RecoveryStep, Turn, Take
<1>6. CASE Crash
  BY <1>6, CrashOwned
<1>7. CASE Restart
  BY <1>7, RestartOwned
<1> QED BY <1>1, <1>2, <1>3, <1>4, <1>5, <1>6, <1>7 DEF Next

LEMMA OwnedCorrect == Spec => []Owned
<1>1. Init => Owned
  BY InitOwned
<1>2. IInv /\ Owned /\ [Next]_vars => Owned'
  BY NextOwned
<1> QED BY Invariance, <1>1, <1>2, PTL DEF Spec

-----------------------------------------------------------------------------
(* What is acknowledged is not sent again *)

\* Whose entry was acknowledged is in nobody's hands.
Released(d) ==
    /\ json[d] = None /\ \A s \in Starts : pending[s][d] = None
    /\ \A w \in Workers : worker[w].id = d => worker[w].at \notin {"send", "write"}
Final == \A d \in acked \ shared : Released(d)

\* Who acknowledges an entry is the only one that has hold of it.
LEMMA RenameAlone ==
    ASSUME IInv, Owned, NEW w \in Workers, worker[w].at = "rename",
           worker[w].id \in Ids \ shared
    PROVE  /\ \A s \in Starts : pending[s][worker[w].id] = None
           /\ \A v \in Workers \ {w} : worker[v].id = worker[w].id =>
                  worker[v].at \notin {"send", "write"}
<1>1. OneOwner /\ OnePlace
  BY DEF Owned
<1>2. PICK d \in Ids \ shared : d = worker[w].id
  OBVIOUS
<1>3. ASSUME NEW v \in Workers, worker[v].id = d
      PROVE  \/ v = Call(d) \/ \E s \in Starts : v = Recovery(s) \/ v = Deferral(s, d)
  <2>1. \A e \in Ids : worker[Call(e)].id = e
    BY CallsOwn
  <2>2. \A s \in Starts, e \in Ids : worker[Deferral(s, e)].id = e
    BY <1>1 DEF OnePlace, OnePlaceOf
  <2> QED BY <1>3, <2>1, <2>2, Kinds
<1>4. \A s \in Starts : /\ worker[Recovery(s)].id = d /\ worker[Recovery(s)].at \in {"send", "write"}
                              => Holds(s, d)
                        /\ worker[Deferral(s, d)].at \in {"send", "write"} => Holds(s, d)
  BY DEF Holds, RecoveryHas, Handling
<1>5. CASE w = Call(d)
  <2>1. \A s \in Starts : ~ Holds(s, d)
    BY <1>1, <1>5 DEF OneOwner
  <2> QED BY <1>2, <1>3, <1>4, <1>5, <2>1 DEF Holds
<1>6. ASSUME NEW s \in Starts, w = Recovery(s)
      PROVE  /\ \A r \in Starts : pending[r][d] = None
             /\ \A v \in Workers \ {w} : worker[v].id = d => worker[v].at \notin {"send", "write"}
  <2>1. RecoveryHas(s, d)
    BY <1>2, <1>6 DEF RecoveryHas, Handling
  <2>2. worker[Call(d)].at = "over" /\ \A r \in Starts \ {s} : ~ Holds(r, d)
    BY <1>1, <2>1 DEF OneOwner, Holds
  <2>3. pending[s][d] = None /\ worker[Deferral(s, d)].at = "over"
    BY <1>1, <1>6, <2>1 DEF OnePlace, OnePlaceOf
  <2>4. \A r \in Starts : pending[r][d] = None
    BY <2>2, <2>3 DEF Holds
  <2>5. ASSUME NEW v \in Workers \ {w}, worker[v].id = d
        PROVE  worker[v].at \notin {"send", "write"}
    <3>1. ASSUME NEW r \in Starts, v = Recovery(r) \/ v = Deferral(r, d)
          PROVE  worker[v].at \notin {"send", "write"}
      BY <1>4, <1>6, <2>2, <2>3, <2>5, <3>1
    <3> QED BY <1>3, <2>2, <2>5, <3>1
  <2> QED BY <2>4, <2>5
<1>7. ~ \E s \in Starts : w = Deferral(s, d)
  BY <1>1, <1>2 DEF OnePlace, OnePlaceOf
<1> QED BY <1>2, <1>3, <1>5, <1>6, <1>7

LEMMA MovesFinal ==
    ASSUME IInv, Owned, Final, NEW w \in Workers, WorkerMoves(w)
    PROVE  Final'
<1>1. PICK d \in Ids :
         /\ d = worker[w].id /\ worker'[w].id = d
         /\ \A v \in Workers \ {w} : worker'[v] = worker[v]
         /\ UNCHANGED <<pending, shared>> /\ \A e \in Ids \ {d} : json'[e] = json[e]
  BY DEF WorkerMoves
<1>2. SUFFICES ASSUME NEW e \in acked' \ shared' PROVE Released(e)'
  BY DEF Final
<1>3. e \in Ids
  BY <1>1 DEF WorkerMoves, IInv, TypeOK
<1>4. CASE e \in acked
  <2>1. Released(e)
    BY <1>1, <1>2, <1>4 DEF Final
  <2>2. d = e => json'[e] = None /\ worker'[w].at \notin {"send", "write"}
    BY <1>1, <2>1 DEF WorkerMoves, Released, Done
  <2> QED BY <1>1, <1>3, <2>1, <2>2 DEF Released
<1>5. CASE e \notin acked
  <2>1. /\ e = d /\ worker[w].at = "rename" /\ json'[d] = None /\ worker'[w].at = "unlink"
    BY <1>1, <1>2, <1>5 DEF WorkerMoves
  <2>2. /\ \A s \in Starts : pending[s][d] = None
        /\ \A v \in Workers \ {w} : worker[v].id = d => worker[v].at \notin {"send", "write"}
    BY <1>1, <1>2, <2>1, RenameAlone
  <2> QED BY <1>1, <2>1, <2>2 DEF Released
<1> QED BY <1>4, <1>5

\* A step in which only a recovery, and not by renaming, gets hold of an entry.
LEMMA QuietFinal ==
    ASSUME IInv, Final, UNCHANGED acked, shared \subseteq shared',
           \A d \in Ids : Released(d) =>
               json'[d] = None /\ \A s \in Starts : pending'[s][d] = None,
           \A w \in Workers : \/ worker'[w] = worker[w]
                              \/ worker'[w].at \notin {"send", "write"}
                              \/ ~ Released(worker'[w].id)
    PROVE  Final'
<1> SUFFICES ASSUME NEW d \in acked \ shared' PROVE Released(d)'
  BY DEF Final
<1>1. Released(d) /\ d \in Ids
  BY DEF Final, IInv, TypeOK
<1> QED BY <1>1 DEF Released

\* The same for the recovery of s.
LEMMA RecoveryFinal ==
    ASSUME IInv, Final, NEW s \in Starts, Alone(s), shared \subseteq shared',
           \A d \in Ids : Released(d) => json'[d] = None /\ pending'[s][d] = None,
           \/ worker' = worker
           \/ worker'[Recovery(s)].at \notin {"send", "write"}
           \/ ~ Released(worker'[Recovery(s)].id)
    PROVE  Final'
<1>1. \A d \in Ids : Released(d) =>
          json'[d] = None /\ \A r \in Starts : pending'[r][d] = None
  BY DEF Alone, Released
<1>2. \A w \in Workers : \/ worker'[w] = worker[w]
                         \/ worker'[w].at \notin {"send", "write"}
                         \/ ~ Released(worker'[w].id)
  BY DEF Alone
<1> QED BY <1>1, <1>2, QuietFinal DEF Alone

LEMMA RecoveryStepFinal ==
    ASSUME IInv, Final, NEW s \in Starts, RecoveryStep(s) PROVE Final'
<1>1. ASSUME Turn(s) PROVE Final'
  <2>1. \A d \in Ids : json[d] = None => json'[d] = None
    BY <1>1, TurnEffect
  <2>2. Alone(s) /\ UNCHANGED <<shared, pending>> /\ worker'[Recovery(s)].at \notin {"send", "write"}
    BY <1>1, TurnEffect
  <2> QED BY <2>1, <2>2, RecoveryFinal DEF Released
<1>2. ASSUME Migrate(s) PROVE Final'
  <2>1. \A d \in Ids : Released(d) => json'[d] = None /\ pending'[s][d] = None
    BY <1>2, MigrateEffect DEF Released
  <2>2. Alone(s) /\ UNCHANGED shared /\ worker'[Recovery(s)].at \notin {"send", "write"}
    BY <1>2, MigrateEffect
  <2> QED BY <2>1, <2>2, RecoveryFinal
<1>3. ASSUME NEW d \in Ids, Load(s, d) PROVE Final'
  <2>1. \A e \in Ids : Released(e) => json'[e] = None /\ pending'[s][e] = None
    BY <1>3, LoadEffect DEF Released
  <2>2. worker' = worker \/ worker'[Recovery(s)].at \notin {"send", "write"}
    BY <1>3, LoadEffect
  <2>3. Alone(s) /\ shared \subseteq shared'
    BY <1>3, LoadEffect
  <2> QED BY <2>1, <2>2, <2>3, RecoveryFinal
<1>4. ASSUME NEW d \in Ids, Take(s, d) PROVE Final'
  <2>1. \A e \in Ids : Released(e) => json'[e] = None /\ pending'[s][e] = None
    BY <1>4, TakeEffect DEF Released
  <2>2. worker' = worker \/ ~ Released(worker'[Recovery(s)].id)
    BY <1>4, TakeEffect DEF Released
  <2>3. Alone(s) /\ UNCHANGED shared
    BY <1>4, TakeEffect
  <2> QED BY <2>1, <2>2, <2>3, RecoveryFinal
<1>5. ASSUME Defer(s) PROVE Final'
  <2>1. \A d \in Ids : Released(d) => json'[d] = None /\ \A r \in Starts : pending'[r][d] = None
    BY <1>5, DeferEffect DEF Released, NothingPending
  <2>2. ASSUME NEW w \in Workers
        PROVE  worker'[w] = worker[w] \/ worker'[w].at \notin {"send", "write"}
    <3>1. ASSUME NEW r \in Starts, NEW d \in Ids
          PROVE  /\ worker'[Call(d)] = worker[Call(d)]
                 /\ \/ worker'[Deferral(r, d)] = worker[Deferral(r, d)]
                    \/ worker'[Deferral(r, d)].at = "read"
      BY <1>5, DeferEffect
    <3>2. ASSUME NEW d \in Ids PROVE worker'[Call(d)] = worker[Call(d)]
      BY <1>5, DeferEffect
    <3>3. ASSUME NEW r \in Starts
          PROVE  worker'[Recovery(r)] = worker[Recovery(r)] \/ worker'[Recovery(r)].at = "defer"
      BY <1>5, DeferEffect
    <3> QED BY <3>1, <3>2, <3>3, Kinds
  <2>3. UNCHANGED <<acked, shared>>
    BY <1>5, DeferEffect
  <2> QED BY <2>1, <2>2, <2>3, QuietFinal
<1> QED BY <1>1, <1>2, <1>3, <1>4, <1>5 DEF RecoveryStep, Turn, Take

LEMMA NextFinal == ASSUME IInv, Owned, Final, [Next]_vars PROVE Final'
<1>1. CASE UNCHANGED vars \/ Over
  <2>1. UNCHANGED <<json, worker, pending, acked, shared>>
    BY <1>1 DEF vars, disk, history, Over
  <2> QED BY <2>1 DEF Final, Released
<1>2. ASSUME NEW w \in Workers, SendStep(w) \/ FileStep(w) PROVE Final'
  BY <1>2, StepMoves, MovesFinal
<1>3. ASSUME NEW d \in Ids, Abort(d) PROVE Final'
  BY <1>3, AbortMoves, MovesFinal, Kinds
<1>4. ASSUME NEW d \in Ids, Enqueue(d) PROVE Final'
  <2>1. d \notin acked
    BY <1>4, EnqueueEffect DEF Owned, Known
  <2> SUFFICES ASSUME NEW e \in acked' \ shared' PROVE Released(e)'
    BY DEF Final
  <2>2. e \in acked \ shared /\ e # d /\ e \in Ids /\ Released(e)
    BY <1>4, <2>1, EnqueueEffect DEF Final, IInv, TypeOK
  <2> QED BY <1>4, <2>2, EnqueueEffect DEF Released
<1>5. ASSUME NEW s \in Starts, RecoveryStep(s) PROVE Final'
  BY <1>5, RecoveryStepFinal
<1>6. CASE Crash
  <2>1. \A d \in Ids : Released(d) => json'[d] = None /\ \A s \in Starts : pending'[s][d] = None
    BY <1>6, CrashEffect DEF Released, NothingPending
  <2>2. ASSUME NEW w \in Workers
        PROVE  worker'[w] = worker[w] \/ worker'[w].at \notin {"send", "write"}
    <3>1. \A s \in Starts : /\ worker'[Recovery(s)].at \in {"list", "over"}
                            /\ \A d \in Ids : worker'[Deferral(s, d)].at = "over"
      BY <1>6, CrashEffect DEF Owned, OnePlace, OnePlaceOf
    <3>2. \A d \in Ids : worker'[Call(d)] = worker[Call(d)] \/ worker'[Call(d)].at = "over"
      BY <1>6, CrashEffect
    <3> QED BY <3>1, <3>2, Kinds
  <2>3. UNCHANGED <<acked, shared>>
    BY <1>6, CrashEffect
  <2> QED BY <2>1, <2>2, <2>3, QuietFinal
<1>7. CASE Restart
  <2>1. \A w \in Workers : worker'[w] = worker[w] \/ worker'[w].at \notin {"send", "write"}
    BY <1>7, RestartEffect
  <2>2. UNCHANGED <<json, pending, acked, shared>>
    BY <1>7, RestartEffect
  <2> QED BY <2>1, <2>2, QuietFinal DEF Released
<1> QED BY <1>1, <1>2, <1>3, <1>4, <1>5, <1>6, <1>7 DEF Next

\* An acknowledged message is not sent again, and its entry does not come back
\* (ackDelivery against failDelivery and the recoveries): crashes between the two phases
\* of the acknowledgement, deferrals and recoveries that overlap included, unless a
\* recovery had read the entry while its call or another recovery had it.
THEOREM AcknowledgedIsFinal == Spec => []AckedIsFinal
<1>1. Init => Final
  BY DEF Init, Final
<1>2. IInv /\ Owned /\ Final /\ [Next]_vars => Final'
  BY NextFinal
<1>3. Final => AckedIsFinal
  BY DEF Final, Released, AckedIsFinal
<1> QED BY Invariance, OwnedCorrect, <1>1, <1>2, <1>3, PTL DEF Spec

-----------------------------------------------------------------------------
(* A recovery overlooks nothing *)

\* An entry from before a start that was never tried is somewhere on the way.
Underway(s, d) ==
    \/ worker[Recovery(s)].at = "list" \/ d \in listed[s] \/ pending[s][d] # None
    \/ RecoveryHas(s, d) /\ worker[Recovery(s)].at # "unlink"
    \/ worker[Deferral(s, d)].at # "over"
\* What the recovery has read of an entry is so as long as it is not stamped since.
AsRead(s, d) ==
    pending[s][d] # None =>
        /\ pending[s][d].stamped /\ json[d] # None => json[d].stamped
        /\ pending[s][d].retry > 0 /\ ~ pending[s][d].stamped =>
              worker[Recovery(s)].at = "migrate" /\ worker[Recovery(s)].id = d
Unstamped(d) == json[d] # None /\ ~ json[d].stamped
AccountedFor(s, d) == (Unstamped(d) => Underway(s, d)) /\ AsRead(s, d)

Accounted(s) ==
    /\ listed[s] # {} => worker[Recovery(s)].at \in {"load", "migrate"}
    /\ diskFaults = 0 => \A d \in old[s] : AccountedFor(s, d)

\* A step beside the recovery of s deletes an entry, stamps it or leaves it.
LEMMA BesideAccounted ==
    ASSUME NEW s \in Starts, Accounted(s), diskFaults' = 0 => diskFaults = 0,
           old[s] \subseteq Ids, listed'[s] = listed[s], pending'[s] = pending[s], old'[s] = old[s],
           worker'[Recovery(s)] = worker[Recovery(s)],
           \A d \in Ids : worker'[Deferral(s, d)] = worker[Deferral(s, d)],
           \A d \in old[s] : json'[d] = json[d] \/ json'[d] = None \/ json'[d].stamped
    PROVE  Accounted(s)'
<1>1. ASSUME NEW d \in old[s], AccountedFor(s, d) PROVE AccountedFor(s, d)'
  <2>1. d \in Ids
    OBVIOUS
  <2>2. Unstamped(d)' => Underway(s, d)'
    <3>1. Underway(s, d) => Underway(s, d)'
      BY <2>1 DEF Underway, RecoveryHas
    <3>2. Unstamped(d)' => Unstamped(d)
      BY <1>1 DEF Unstamped
    <3> QED BY <1>1, <3>1, <3>2 DEF AccountedFor
  <2>3. AsRead(s, d)'
    BY <1>1 DEF AccountedFor, AsRead
  <2> QED BY <2>2, <2>3 DEF AccountedFor
<1> QED BY <1>1 DEF Accounted

\* A step by which its recovery overlooks nothing, if no file operation has failed.
LEMMA QuietAccounted ==
    ASSUME NEW s \in Starts, Accounted(s), old[s] \subseteq Ids, old'[s] = old[s],
           diskFaults' = 0 => diskFaults = 0,
           listed'[s] # {} => worker'[Recovery(s)].at \in {"load", "migrate"},
           diskFaults' = 0 =>
               \A d \in Ids : d \in old[s] /\ AccountedFor(s, d) => AccountedFor(s, d)'
    PROVE  Accounted(s)'
  BY DEF Accounted

LEMMA MovesAccounted ==
    ASSUME IInv, Owned, NEW s \in Starts, Accounted(s), NEW w \in Workers, WorkerMoves(w)
    PROVE  Accounted(s)'
<1>1. PICK d \in Ids :
         /\ d = worker[w].id /\ worker'[w].id = d
         /\ \A v \in Workers \ {w} : worker'[v] = worker[v]
         /\ UNCHANGED <<listed, pending, accepted, shared, old>>
         /\ \A e \in Ids \ {d} : json'[e] = json[e]
         /\ diskFaults' = 0 => diskFaults = 0
         /\ worker[w].at \in {"send", "rename", "unlink", "read", "write"}
  BY DEF WorkerMoves
<1>2. Known /\ OnePlaceOf(s)
  BY DEF Owned, OnePlace
<1>3. old[s] \subseteq Ids /\ old[s] \subseteq accepted
  BY <1>2 DEF Known, IInv, TypeOK
<1>4. json'[d] = json[d] \/ json'[d] = None \/ json'[d].stamped
  BY <1>1 DEF WorkerMoves
<1>5. \A e \in Ids : json'[e] = json[e] \/ json'[e] = None \/ json'[e].stamped
  BY <1>1, <1>4
<1>6. CASE w # Recovery(s) /\ \A e \in Ids : w # Deferral(s, e)
  <2>1. /\ worker'[Recovery(s)] = worker[Recovery(s)]
        /\ \A e \in Ids : worker'[Deferral(s, e)] = worker[Deferral(s, e)]
    BY <1>1, <1>6, Kinds
  <2> QED BY <1>1, <1>3, <1>5, <2>1, BesideAccounted
<1>7. CASE w = Recovery(s)
  <2>1. \A e \in Ids : worker'[Deferral(s, e)] = worker[Deferral(s, e)]
    BY <1>1, <1>7, Kinds
  <2>2. listed[s] = {} /\ worker[Recovery(s)].at \notin {"list", "migrate"}
    BY <1>1, <1>7 DEF Accounted
  <2>3. ASSUME diskFaults' = 0, NEW e \in Ids, e \in old[s], AccountedFor(s, e)
        PROVE  AccountedFor(s, e)'
    <3>1. AsRead(s, e)'
      BY <1>1, <1>5, <2>2, <2>3 DEF AccountedFor, AsRead
    <3>2. ASSUME Unstamped(e)' PROVE Underway(s, e)'
      <4>1. json'[e] = json[e] /\ Underway(s, e)
        BY <1>5, <2>3, <3>2 DEF AccountedFor, Unstamped
      <4>2. CASE e # d
        BY <1>1, <1>7, <2>1, <2>2, <4>1, <4>2 DEF Underway, RecoveryHas
      <4>3. CASE e = d
        <5>1. worker'[w].at \in {"send", "rename", "read", "write", "move"}
              \/ worker[w].at = "unlink"
          BY <1>1, <1>3, <2>3, <3>2, <4>1, <4>3 DEF WorkerMoves, Unstamped
        <5> QED BY <1>1, <1>2, <1>7, <2>1, <2>2, <4>1, <4>3, <5>1, Kinds
                DEF Underway, RecoveryHas, Handling
      <4> QED BY <4>2, <4>3
    <3> QED BY <3>1, <3>2 DEF AccountedFor
  <2> QED BY <1>1, <1>3, <2>2, <2>3, QuietAccounted
<1>8. CASE \E e \in Ids : w = Deferral(s, e)
  <2>1. w = Deferral(s, d) /\ w \notin Recoveries /\ w # Recovery(s)
    BY <1>1, <1>2, <1>8, Kinds DEF OnePlaceOf
  <2>2. /\ worker'[Recovery(s)] = worker[Recovery(s)]
        /\ \A e \in Ids \ {d} : worker'[Deferral(s, e)] = worker[Deferral(s, e)]
    BY <1>1, <2>1, Kinds
  <2>3. ASSUME diskFaults' = 0, NEW e \in Ids, e \in old[s], AccountedFor(s, e)
        PROVE  AccountedFor(s, e)'
    <3>1. AsRead(s, e)'
      BY <1>1, <1>5, <2>2, <2>3 DEF AccountedFor, AsRead
    <3>2. ASSUME Unstamped(e)' PROVE Underway(s, e)'
      <4>1. json'[e] = json[e] /\ Underway(s, e)
        BY <1>5, <2>3, <3>2 DEF AccountedFor, Unstamped
      <4>2. CASE e # d
        BY <1>1, <2>2, <4>1, <4>2 DEF Underway, RecoveryHas
      <4>3. CASE e = d
        <5>1. worker[w].at \in {"read", "write"}
          BY <1>1, <1>2, <2>1 DEF OnePlaceOf
        <5>2. worker'[w].at = "write"
          BY <1>1, <2>1, <2>3, <3>2, <4>1, <4>3, <5>1 DEF WorkerMoves, Unstamped
        <5> QED BY <2>1, <4>3, <5>2 DEF Underway
      <4> QED BY <4>2, <4>3
    <3> QED BY <3>1, <3>2 DEF AccountedFor
  <2>4. listed'[s] # {} => worker'[Recovery(s)].at \in {"load", "migrate"}
    BY <1>1, <2>2 DEF Accounted
  <2> QED BY <1>1, <1>3, <2>3, <2>4, QuietAccounted
<1> QED BY <1>6, <1>7, <1>8

LEMMA TurnAccounted ==
    ASSUME IInv, NEW s \in Starts, Accounted(s), Turn(s) PROVE Accounted(s)'
<1> DEFINE r == worker[Recovery(s)]
<1>1. /\ Alone(s) /\ worker'[Recovery(s)].id = r.id
      /\ UNCHANGED pending /\ (diskFaults' = 0 => diskFaults = 0)
  BY TurnEffect
<1>2. \A d \in Ids : worker'[Deferral(s, d)] = worker[Deferral(s, d)]
  BY <1>1, Kinds DEF Alone
<1>3. old'[s] = old[s] /\ old[s] \subseteq Ids
  BY <1>1 DEF Alone, IInv, TypeOK
<1>4. CASE r.at = "list" /\ worker'[Recovery(s)].at = "load" /\ UNCHANGED json
           /\ listed'[s] = {d \in Ids : json[d] # None}
  BY <1>1, <1>3, <1>4, QuietAccounted DEF AccountedFor, Underway, AsRead, Unstamped
<1>5. CASE r.at = "load" /\ worker'[Recovery(s)].at = "scan" /\ UNCHANGED <<json, listed>>
           /\ listed[s] = {}
  BY <1>1, <1>2, <1>3, <1>5, QuietAccounted
     DEF AccountedFor, Underway, AsRead, Unstamped, RecoveryHas, Handling
<1>6. CASE /\ r.at = "move" /\ worker'[Recovery(s)].at = "scan" /\ UNCHANGED listed /\ r.id \in Ids
           /\ \A e \in Ids \ {r.id} : json'[e] = json[e]
           /\ json'[r.id] = None \/ (diskFaults' # 0 /\ UNCHANGED json)
  <2>1. listed[s] = {}
    BY <1>6 DEF Accounted
  <2>2. ASSUME diskFaults' = 0, NEW d \in Ids, AccountedFor(s, d) PROVE AccountedFor(s, d)'
    <3>1. json'[d] = json[d] \/ json'[d] = None
      BY <1>6, <2>2
    <3>2. AsRead(s, d)'
      BY <1>1, <1>6, <2>2, <3>1 DEF AccountedFor, AsRead
    <3>3. ASSUME Unstamped(d)' PROVE Underway(s, d)'
      <4>1. d # r.id /\ json'[d] = json[d]
        BY <1>6, <2>2, <3>3 DEF Unstamped
      <4>2. Underway(s, d)
        BY <2>2, <3>3, <4>1 DEF AccountedFor, Unstamped
      <4> QED BY <1>1, <1>2, <1>6, <4>1, <4>2 DEF Underway, RecoveryHas
    <3> QED BY <3>2, <3>3 DEF AccountedFor
  <2> QED BY <1>1, <1>3, <1>6, <2>1, <2>2, QuietAccounted
<1>7. CASE /\ worker'[Recovery(s)].at = "over" /\ UNCHANGED <<json, listed>>
           /\ r.at \in {"scan", "defer"}
  BY <1>1, <1>2, <1>3, <1>7, QuietAccounted
     DEF Accounted, AccountedFor, Underway, AsRead, Unstamped, RecoveryHas, Handling
<1> QED BY <1>4, <1>5, <1>6, <1>7, TurnEffect

LEMMA MigrateAccounted ==
    ASSUME IInv, NEW s \in Starts, Accounted(s), Migrate(s) PROVE Accounted(s)'
<1>1. PICK d \in Ids :
         /\ d = worker[Recovery(s)].id /\ Alone(s)
         /\ worker[Recovery(s)].at = "migrate" /\ worker'[Recovery(s)].at = "load"
         /\ UNCHANGED listed
         /\ \A e \in Ids \ {d} : json'[e] = json[e] /\ pending'[s][e] = pending[s][e]
         /\ \/ diskFaults' # 0
            \/ /\ UNCHANGED diskFaults /\ json'[d] = pending'[s][d]
               /\ json'[d] # None /\ json'[d].stamped
  BY MigrateEffect
<1>2. \A e \in Ids : worker'[Deferral(s, e)] = worker[Deferral(s, e)]
  BY <1>1, Kinds DEF Alone
<1>3. ASSUME diskFaults' = 0, NEW e \in Ids, AccountedFor(s, e) PROVE AccountedFor(s, e)'
  <2>1. CASE e = d
    BY <1>1, <1>3, <2>1 DEF AccountedFor, Unstamped, AsRead
  <2>2. CASE e # d
    <3>1. json'[e] = json[e] /\ pending'[s][e] = pending[s][e]
      BY <1>1, <2>2
    <3> QED BY <1>1, <1>2, <1>3, <2>2, <3>1
            DEF AccountedFor, Unstamped, AsRead, Underway, RecoveryHas
  <2> QED BY <2>1, <2>2
<1>4. old'[s] = old[s] /\ old[s] \subseteq Ids /\ (diskFaults' = 0 => diskFaults = 0)
  BY <1>1 DEF Alone, IInv, TypeOK
<1> QED BY <1>1, <1>3, <1>4, QuietAccounted

LEMMA LoadAccounted ==
    ASSUME IInv, NEW s \in Starts, Accounted(s), NEW d \in Ids, Load(s, d) PROVE Accounted(s)'
<1>1. /\ Alone(s) /\ UNCHANGED json
      /\ worker[Recovery(s)].at = "load" /\ worker'[Recovery(s)].at \in {"load", "migrate"}
      /\ listed'[s] = listed[s] \ {d}
  BY LoadEffect
<1>2. \/ diskFaults' # 0
      \/ /\ UNCHANGED diskFaults
         /\ pending'[s][d] = json[d] /\ \A e \in Ids \ {d} : pending'[s][e] = pending[s][e]
         /\ IF json[d] # None /\ json[d].retry > 0 /\ ~ json[d].stamped
            THEN worker'[Recovery(s)].at = "migrate" /\ worker'[Recovery(s)].id = d
            ELSE worker' = worker
  BY LoadEffect
<1>3. \A e \in Ids : worker'[Deferral(s, e)] = worker[Deferral(s, e)]
  BY <1>1, Kinds DEF Alone
<1>4. ASSUME diskFaults' = 0, NEW e \in Ids, AccountedFor(s, e) PROVE AccountedFor(s, e)'
  <2>1. CASE e = d
    <3>1. Unstamped(e)' => Underway(s, e)'
      BY <1>1, <1>2, <1>4, <2>1 DEF Unstamped, Underway
    <3>2. AsRead(s, e)'
      BY <1>1, <1>2, <1>4, <2>1 DEF AsRead
    <3> QED BY <3>1, <3>2 DEF AccountedFor
  <2>2. CASE e # d
    <3>1. pending'[s][e] = pending[s][e] /\ json'[e] = json[e]
      BY <1>1, <1>2, <1>4, <2>2
    <3>2. ~ RecoveryHas(s, e)
      BY <1>1 DEF RecoveryHas, Handling
    <3>3. Unstamped(e)' => Underway(s, e)'
      BY <1>1, <1>3, <1>4, <2>2, <3>1, <3>2 DEF AccountedFor, Unstamped, Underway
    <3>4. AsRead(s, e)'
      BY <1>1, <1>4, <3>1 DEF AccountedFor, AsRead
    <3> QED BY <3>3, <3>4 DEF AccountedFor
  <2> QED BY <2>1, <2>2
<1>5. old'[s] = old[s] /\ old[s] \subseteq Ids /\ (diskFaults' = 0 => diskFaults = 0)
  BY <1>1, <1>2 DEF Alone, IInv, TypeOK
<1> QED BY <1>1, <1>4, <1>5, QuietAccounted

LEMMA TakeAccounted ==
    ASSUME IInv, NEW s \in Starts, Accounted(s), NEW d \in Ids, Take(s, d) PROVE Accounted(s)'
<1>1. /\ Alone(s) /\ UNCHANGED <<json, listed, diskFaults>>
      /\ worker[Recovery(s)].at = "scan" /\ pending[s][d] # None
      /\ pending'[s][d] = None /\ \A e \in Ids \ {d} : pending'[s][e] = pending[s][e]
      /\ \/ worker' = worker /\ MustWait(pending[s][d])
         \/ worker'[Recovery(s)].at \in {"send", "move"} /\ worker'[Recovery(s)].id = d
  BY TakeEffect
<1>2. listed[s] = {} /\ pending[s][d] \in Entry
  BY <1>1 DEF Accounted, IInv, TypeOK
<1>3. \A e \in Ids : worker'[Deferral(s, e)] = worker[Deferral(s, e)]
  BY <1>1, Kinds DEF Alone
<1>4. ASSUME NEW e \in Ids, AccountedFor(s, e) PROVE AccountedFor(s, e)'
  <2>1. CASE e = d
    <3>1. AsRead(s, e)'
      BY <1>1, <2>1 DEF AsRead
    <3>2. CASE worker' = worker /\ MustWait(pending[s][d])
      <4>1. pending[s][d].stamped
        <5>1. pending[s][d].retry > 0 \/ pending[s][d].stamped
          BY <3>2 DEF MustWait
        <5> QED BY <1>1, <1>4, <2>1, <5>1 DEF AccountedFor, AsRead
      <4>2. ~ Unstamped(e)'
        BY <1>1, <1>4, <2>1, <4>1 DEF AccountedFor, AsRead, Unstamped
      <4> QED BY <3>1, <4>2 DEF AccountedFor
    <3>3. CASE worker'[Recovery(s)].at \in {"send", "move"} /\ worker'[Recovery(s)].id = d
      <4>1. Underway(s, e)'
        BY <2>1, <3>3 DEF Underway, RecoveryHas, Handling
      <4> QED BY <3>1, <4>1 DEF AccountedFor
    <3> QED BY <1>1, <3>2, <3>3
  <2>2. CASE e # d
    <3>1. pending'[s][e] = pending[s][e] /\ json'[e] = json[e]
      BY <1>1, <2>2
    <3>2. ~ RecoveryHas(s, e) /\ worker[Recovery(s)].at \notin {"list", "migrate"}
      BY <1>1 DEF RecoveryHas, Handling
    <3>3. Unstamped(e)' => Underway(s, e)'
      BY <1>1, <1>3, <1>4, <3>1, <3>2 DEF AccountedFor, Unstamped, Underway
    <3>4. AsRead(s, e)'
      BY <1>4, <3>1, <3>2 DEF AccountedFor, AsRead
    <3> QED BY <3>3, <3>4 DEF AccountedFor
  <2> QED BY <2>1, <2>2
<1>5. old'[s] = old[s] /\ old[s] \subseteq Ids
  BY <1>1 DEF Alone, IInv, TypeOK
<1> QED BY <1>1, <1>2, <1>4, <1>5, QuietAccounted

LEMMA DeferAccounted ==
    ASSUME IInv, NEW s \in Starts, Accounted(s), Defer(s) PROVE Accounted(s)'
<1>1. listed[s] = {}
  BY DeferEffect DEF Accounted
<1>2. ASSUME NEW e \in Ids, AccountedFor(s, e) PROVE AccountedFor(s, e)'
  <2>1. AsRead(s, e)'
    BY DeferEffect DEF AsRead, NothingPending
  <2>2. ~ RecoveryHas(s, e) /\ worker[Recovery(s)].at # "list"
    BY DeferEffect DEF RecoveryHas, Handling
  <2>3. IF pending[s][e] = None THEN worker'[Deferral(s, e)] = worker[Deferral(s, e)]
        ELSE worker'[Deferral(s, e)].at = "read"
    BY DeferEffect
  <2>4. UNCHANGED json
    BY DeferEffect
  <2>5. Unstamped(e)' => Underway(s, e)'
    BY <1>1, <1>2, <2>2, <2>3, <2>4 DEF AccountedFor, Unstamped, Underway
  <2> QED BY <2>1, <2>5 DEF AccountedFor
<1>3. UNCHANGED <<listed, old, diskFaults>> /\ old[s] \subseteq Ids
  BY DeferEffect DEF IInv, TypeOK
<1> QED BY <1>1, <1>2, <1>3, QuietAccounted

\* The recovery of one start beside that of another.
LEMMA OtherAccounted ==
    ASSUME IInv, NEW s \in Starts, NEW r \in Starts \ {s}, Accounted(r), RecoveryStep(s)
    PROVE  Accounted(r)'
<1>1. old[r] \subseteq Ids
  BY DEF IInv, TypeOK
<1>2. CASE Defer(s)
  <2>1. /\ UNCHANGED <<json, listed, old, diskFaults>> /\ pending'[r] = pending[r]
        /\ worker'[Recovery(r)] = worker[Recovery(r)]
        /\ \A d \in Ids : worker'[Deferral(r, d)] = worker[Deferral(r, d)]
    BY <1>2, DeferEffect
  <2> QED BY <1>1, <2>1, BesideAccounted
<1>3. ASSUME Alone(s), diskFaults' = 0 => diskFaults = 0,
             \A d \in Ids : json'[d] = json[d] \/ json'[d] = None \/ json'[d].stamped
      PROVE  Accounted(r)'
  <2>1. /\ worker'[Recovery(r)] = worker[Recovery(r)]
        /\ \A d \in Ids : worker'[Deferral(r, d)] = worker[Deferral(r, d)]
        /\ listed'[r] = listed[r] /\ pending'[r] = pending[r] /\ old'[r] = old[r]
    BY <1>3, Kinds DEF Alone
  <2> QED BY <1>1, <1>3, <2>1, BesideAccounted
<1>4. ASSUME Turn(s) PROVE Accounted(r)'
  <2>1. /\ Alone(s) /\ (diskFaults' = 0 => diskFaults = 0)
        /\ \A d \in Ids : json'[d] = json[d] \/ json'[d] = None
    BY <1>4, TurnEffect
  <2> QED BY <1>3, <2>1
<1>5. ASSUME Migrate(s) PROVE Accounted(r)'
  <2>1. /\ Alone(s) /\ (diskFaults' = 0 => diskFaults = 0)
        /\ \A d \in Ids : json'[d] = json[d] \/ json'[d].stamped
    BY <1>5, MigrateEffect
  <2> QED BY <1>3, <2>1
<1>6. ASSUME NEW d \in Ids, Load(s, d) \/ Take(s, d) PROVE Accounted(r)'
  <2>1. Alone(s) /\ UNCHANGED json /\ (diskFaults' = 0 => diskFaults = 0)
    BY <1>6, LoadEffect, TakeEffect
  <2> QED BY <1>3, <2>1
<1> QED BY <1>2, <1>4, <1>5, <1>6 DEF RecoveryStep, Turn, Take

LEMMA NextAccounted ==
    ASSUME IInv, Owned, NEW s \in Starts, Accounted(s), [Next]_vars PROVE Accounted(s)'
<1>1. CASE UNCHANGED vars \/ Over
  <2>1. UNCHANGED <<json, worker, listed, pending, old, diskFaults>>
    BY <1>1 DEF vars, disk, history, counts, Over
  <2> QED BY <2>1 DEF Accounted, AccountedFor, Underway, AsRead, Unstamped, RecoveryHas
<1>2. ASSUME NEW w \in Workers, SendStep(w) \/ FileStep(w) PROVE Accounted(s)'
  BY <1>2, StepMoves, MovesAccounted
<1>3. ASSUME NEW d \in Ids, Abort(d) PROVE Accounted(s)'
  BY <1>3, AbortMoves, MovesAccounted, Kinds
<1>4. ASSUME NEW d \in Ids, Enqueue(d) PROVE Accounted(s)'
  <2>1. d \notin old[s] /\ old[s] \subseteq Ids
    BY <1>4, EnqueueEffect DEF Owned, Known, IInv, TypeOK
  <2>2. worker'[Recovery(s)] = worker[Recovery(s)]
        /\ \A e \in Ids : worker'[Deferral(s, e)] = worker[Deferral(s, e)]
    BY <1>4, EnqueueEffect, Kinds
  <2>3. UNCHANGED <<listed, pending, old>> /\ (diskFaults' = 0 => diskFaults = 0)
        /\ \A e \in Ids \ {d} : json'[e] = json[e]
    BY <1>4, EnqueueEffect
  <2> QED BY <2>1, <2>2, <2>3, BesideAccounted
<1>5. ASSUME NEW r \in Starts, RecoveryStep(r) PROVE Accounted(s)'
  <2>1. CASE r = s
    BY <1>5, <2>1, TurnAccounted, MigrateAccounted, LoadAccounted, TakeAccounted, DeferAccounted
       DEF RecoveryStep, Turn, Take
  <2>2. CASE r # s
    BY <1>5, <2>2, OtherAccounted
  <2> QED BY <2>1, <2>2
<1>6. CASE Crash
  <2>1. /\ listed'[s] = {} /\ pending'[s] = NothingPending
        /\ old'[s] = {} \/ worker'[Recovery(s)].at = "list"
    BY <1>6, CrashEffect
  <2>2. old'[s] \subseteq Ids
    BY <1>6, CrashEffect DEF IInv, TypeOK
  <2> QED BY <2>1, <2>2 DEF Accounted, AccountedFor, Underway, AsRead, NothingPending
<1>7. CASE Restart
  <2>1. PICK r \in Starts :
           /\ r = start + 1 /\ worker'[Recovery(r)].at = "list"
           /\ old'[r] = accepted /\ \A q \in Starts \ {r} : old'[q] = old[q]
           /\ \A v \in Workers \ {Recovery(r)} : worker'[v] = worker[v]
           /\ UNCHANGED <<json, listed, pending, diskFaults>>
    BY <1>7, RestartEffect
  <2>2. CASE r = s
    <3>1. worker[Recovery(s)].at = "over" /\ pending[s] = NothingPending
      BY <2>1, <2>2 DEF Owned, OnePlace, OnePlaceOf, IInv, TypeOK, Starts
    <3>2. listed[s] = {} /\ accepted \subseteq Ids
      BY <3>1 DEF Accounted, IInv, TypeOK
    <3> QED BY <2>1, <2>2, <3>1, <3>2
            DEF Accounted, AccountedFor, Underway, AsRead, NothingPending
  <2>3. CASE r # s
    <3>1. /\ worker'[Recovery(s)] = worker[Recovery(s)]
          /\ \A e \in Ids : worker'[Deferral(s, e)] = worker[Deferral(s, e)]
      BY <2>1, <2>3, Kinds
    <3>2. old[s] \subseteq Ids
      BY DEF IInv, TypeOK
    <3> QED BY <2>1, <2>3, <3>1, <3>2, BesideAccounted
  <2> QED BY <2>2, <2>3
<1> QED BY <1>1, <1>2, <1>3, <1>4, <1>5, <1>6, <1>7 DEF Next

AllAccounted == \A s \in Starts : Accounted(s)

\* A recovery overlooks nothing (loadPendingDeliveries, its migration of old entries, the
\* loop and the deferrals of its budget), whatever runs beside it: when it is over and no
\* file operation failed, every entry left from before its start carries a stamp.
THEOREM RecoveryOverlooksNothing == Spec => []NothingOverlooked
<1>1. Init => AllAccounted
  <2> SUFFICES ASSUME Init, NEW s \in Starts PROVE Accounted(s)
    BY DEF AllAccounted
  <2>1. ASSUME NEW d \in old[s]
        PROVE  d \in Ids /\ pending[s][d] = None /\ worker[Recovery(s)].at = "list"
    <3>1. s = 1 /\ d \in Leftover
      BY InitEffect
    <3>2. pending[s] = NothingPending /\ d \in Ids
      BY <3>1, InitEffect, IdsAssumption
    <3> QED BY <3>1, <3>2, InitEffect DEF NothingPending
  <2> QED BY <2>1, InitEffect DEF Accounted, AccountedFor, Underway, AsRead
<1>2. IInv /\ Owned /\ AllAccounted /\ [Next]_vars => AllAccounted'
  BY NextAccounted DEF AllAccounted
<1>3. Owned /\ IInv /\ AllAccounted => NothingOverlooked
  <2> SUFFICES ASSUME Owned, IInv, AllAccounted, diskFaults = 0,
                      NEW s \in Starts, worker[Recovery(s)].at = "over",
                      NEW d \in old[s], json[d] # None
               PROVE  json[d].stamped
    BY DEF NothingOverlooked
  <2>1. d \in Ids /\ AccountedFor(s, d) /\ listed[s] = {}
    BY DEF AllAccounted, Accounted, IInv, TypeOK
  <2>2. pending[s][d] = None /\ worker[Deferral(s, d)].at = "over" /\ ~ RecoveryHas(s, d)
    BY <2>1 DEF Owned, OnePlace, OnePlaceOf, NothingPending, RecoveryHas, Handling
  <2> QED BY <2>1, <2>2 DEF AccountedFor, Unstamped, Underway
<1> QED BY Invariance, OwnedCorrect, <1>1, <1>2, <1>3, PTL DEF Spec

=============================================================================
