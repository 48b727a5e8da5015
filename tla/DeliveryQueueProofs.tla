------------------------- MODULE DeliveryQueueProofs -------------------------
(***************************************************************************)
(* Proofs about DeliveryQueue for any deliveries, payloads, retries and    *)
(* any number of crashes and faults: no accepted message is lost, and the  *)
(* queue implements OutboundPromise.                                       *)
(*                                                                         *)
(* AtLeastOnce speaks of files only; it is kept because of what workers    *)
(* know: whoever is about to rename an entry has sent all of it or serves  *)
(* an abort error, since whoever sends has sent every payload before its   *)
(* next.                                                                   *)
(***************************************************************************)
EXTENDS DeliveryQueue, TLAPS

\* What a worker at each stage has done and knows.
WorkerKnows(w) ==
    LET k == worker[w] IN
    /\ k.at \in Handling => k.id \in Ids
    /\ w[1] = "call" => k.id = w[3]
    /\ k.at = "new" => k.part = 1
    /\ k.at = "write" => k.got \in Entry
    /\ k.at = "migrate" => w \in Recoveries /\ pending[w[2]][k.id] \in Entry
    /\ (k.at = "send" /\ k.id \notin BestEffort) => 1 .. (k.part - 1) \subseteq sent[k.id]
    /\ (k.at = "rename" /\ k.id \notin BestEffort)
          => sent[k.id] = 1 .. Parts \/ k.id \in aborted \cup cut

WorkersKnow == \A w \in Workers : WorkerKnows(w)

IInv == TypeOK /\ WorkersKnow /\ AtLeastOnce

-----------------------------------------------------------------------------
(* Workers *)

LEMMA WorkersDistinct ==
    /\ \A s \in Starts : /\ Recovery(s) \in Workers /\ Recovery(s) \in Recoveries
                         /\ Recovery(s)[1] # "call" /\ Recovery(s)[2] = s /\ Recovery(s)[3] = None
    /\ \A d \in Ids : /\ Call(d) \in Workers /\ Call(d) \notin Recoveries
                      /\ Call(d)[1] = "call" /\ Call(d)[3] = d
    /\ \A s \in Starts, d \in Ids : /\ Deferral(s, d) \in Workers
                                   /\ Deferral(s, d) \notin Recoveries
                                   /\ Deferral(s, d)[1] # "call" /\ Deferral(s, d)[3] = d
    /\ \A w \in Recoveries : w[2] \in Starts /\ w = Recovery(w[2]) /\ w[1] # "call"
    /\ \A w \in Workers : w \in Recoveries \/ w[3] \in Ids
  BY DEF Workers, Calls, Call, Deferral, Recoveries, Recovery

\* Steps of w leave the lists of the recoveries other than w alone.
ListsOfOthers(w) == \A s \in Starts : Recovery(s) # w => pending'[s] = pending[s]

\* The first start of a process.
LEMMA FirstStart == 1 \in Starts
  BY BoundsAssumption DEF Starts

\* A new value of one worker's record.
LEMMA WorkerUpdated ==
    ASSUME worker \in [Workers -> WorkerState], NEW w \in Workers, NEW k \in WorkerState,
           worker' = [worker EXCEPT ![w] = k]
    PROVE  /\ worker' \in [Workers -> WorkerState]
           /\ worker'[w] = k
           /\ \A v \in Workers \ {w} : worker'[v] = worker[v]
  OBVIOUS

\* One entry of one recovery's list.
LEMMA ListUpdated ==
    ASSUME TypeOK, NEW s \in Starts, NEW d \in Ids, NEW entry \in Entry \cup {None},
           pending' = [pending EXCEPT ![s][d] = entry]
    PROVE  /\ pending' \in [Starts -> [Ids -> Entry \cup {None}]]
           /\ pending'[s][d] = entry
           /\ \A e \in Ids \ {d} : pending'[s][e] = pending[s][e]
           /\ \A r \in Starts \ {s} : pending'[r] = pending[r]
<1>1. pending \in [Starts -> [Ids -> Entry \cup {None}]]
  BY DEF TypeOK
<1> QED
  BY <1>1

\* A worker at another payload.
LEMMA PartUpdated ==
    ASSUME NEW k \in WorkerState, NEW p \in 1 .. Parts + 1, NEW q \in BOOLEAN
    PROVE  /\ [k EXCEPT !.part = p, !.partial = q] \in WorkerState
           /\ [k EXCEPT !.part = p, !.partial = q].id = k.id
           /\ [k EXCEPT !.part = p, !.partial = q].at = k.at
  BY DEF WorkerState

\* Goes changes the stage of one worker.
LEMMA WorkerGoes ==
    ASSUME worker \in [Workers -> WorkerState], NEW w \in Workers, NEW s \in Stages,
           Goes(w, s)
    PROVE  /\ worker' \in [Workers -> WorkerState]
           /\ worker'[w].at = s
           /\ worker'[w].id = worker[w].id
           /\ worker'[w].part = worker[w].part
           /\ worker'[w].got = worker[w].got
           /\ \A v \in Workers \ {w} : worker'[v] = worker[v]
  BY DEF Goes, WorkerState

\* A step of one worker leaves what the others know.
LEMMA OthersKnow ==
    ASSUME TypeOK, WorkersKnow, NEW w \in Workers,
           \A v \in Workers \ {w} : worker'[v] = worker[v],
           \A d \in Ids : sent[d] \subseteq sent'[d] /\ sent'[d] \subseteq 1 .. Parts,
           aborted \subseteq aborted', cut \subseteq cut',
           option' = option,
           ListsOfOthers(w)
    PROVE  \A v \in Workers \ {w} : WorkerKnows(v)'
<1> SUFFICES ASSUME NEW v \in Workers \ {w} PROVE WorkerKnows(v)'
  OBVIOUS
<1>1. WorkerKnows(v) /\ worker'[v] = worker[v] /\ BestEffort' = BestEffort
  BY DEF WorkersKnow, BestEffort
<1>2. v \in Recoveries => pending'[v[2]] = pending[v[2]]
  BY WorkersDistinct DEF ListsOfOthers
<1>3. worker[v].at \in Handling => worker[v].id \in Ids
  BY <1>1 DEF WorkerKnows
<1>4. worker[v].at = "send" => sent[worker[v].id] \subseteq sent'[worker[v].id]
  BY <1>3 DEF Handling
<1>5. worker[v].at = "rename" /\ sent[worker[v].id] = 1 .. Parts
        => sent'[worker[v].id] = 1 .. Parts
  BY <1>3 DEF Handling
<1> QED
  BY <1>1, <1>2, <1>4, <1>5 DEF WorkerKnows

\* What a step of one worker has to show.  An entry may leave the disk only when
\* its delivery was sent, is in failed/, was aborted or is best effort.
LEMMA WorkerStep ==
    ASSUME IInv, TypeOK', NEW w \in Workers,
           \A v \in Workers \ {w} : worker'[v] = worker[v],
           WorkerKnows(w)',
           option' = option,
           accepted' = accepted,
           \A d \in Ids : sent[d] \subseteq sent'[d],
           aborted \subseteq aborted', cut \subseteq cut',
           failed \subseteq failed',
           ListsOfOthers(w),
           \A d \in Ids : \/ json'[d] # None \/ json[d] = None
                          \/ d \in failed' \cup aborted' \cup cut' \/ d \in BestEffort
                          \/ sent'[d] = 1 .. Parts
    PROVE  IInv'
<1>1. \A d \in Ids : sent[d] \subseteq sent'[d] /\ sent'[d] \subseteq 1 .. Parts
  BY DEF TypeOK
<1>2. WorkersKnow'
  <2>1. \A v \in Workers \ {w} : WorkerKnows(v)'
    BY <1>1, OthersKnow DEF IInv
  <2> QED
    BY <2>1 DEF WorkersKnow
<1>3. AtLeastOnce'
  <2> SUFFICES ASSUME NEW d \in accepted' \ BestEffort',
                      json'[d] = None, d \notin failed' \cup aborted' \cup cut'
               PROVE  sent'[d] = 1 .. Parts
    BY DEF AtLeastOnce
  <2>1. d \in Ids /\ d \in accepted \ BestEffort
    BY DEF TypeOK, BestEffort
  <2>2. json[d] = None => sent[d] = 1 .. Parts
    BY <2>1 DEF IInv, AtLeastOnce
  <2> QED
    BY <1>1, <2>1, <2>2
<1> QED
  BY <1>2, <1>3 DEF IInv

\* The same for a step that leaves the entries and the sends alone.
LEMMA QuietStep ==
    ASSUME IInv, TypeOK', NEW w \in Workers,
           \A v \in Workers \ {w} : worker'[v] = worker[v],
           WorkerKnows(w)',
           UNCHANGED <<option, accepted, sent, aborted, cut, failed, json>>,
           ListsOfOthers(w)
    PROVE  IInv'
  BY WorkerStep DEF ListsOfOthers

-----------------------------------------------------------------------------
(* The file operations *)

LEMMA RenameStep == ASSUME IInv, NEW w \in Workers, Rename(w) PROVE IInv'
<1>1. worker[w].at = "rename" /\ WorkerKnows(w) /\ worker \in [Workers -> WorkerState]
  BY DEF Rename, IInv, TypeOK, WorkersKnow
<1>2. worker[w].id \in Ids
  BY <1>1 DEF WorkerKnows, Handling
<1> DEFINE d == worker[w].id
<1>3. /\ worker' \in [Workers -> WorkerState]
      /\ worker'[w].at = "unlink" /\ worker'[w].id = d
      /\ \A v \in Workers \ {w} : worker'[v] = worker[v]
  BY <1>1, WorkerGoes DEF Rename, Stages
<1>4. TypeOK'
  BY <1>2, <1>3 DEF IInv, TypeOK, Rename, FilesOnly
<1>5. WorkerKnows(w)'
  BY <1>1, <1>2, <1>3 DEF WorkerKnows, Handling
<1>6. \/ sent[d] = 1 .. Parts \/ d \in aborted \cup cut \/ d \in BestEffort
  BY <1>1 DEF WorkerKnows
<1>7. \A e \in Ids : e # d => json'[e] = json[e]
  BY DEF Rename, IInv, TypeOK
<1>8. UNCHANGED <<option, accepted, sent, aborted, cut, failed, pending>>
  BY DEF Rename, FilesOnly
<1> QED
  BY <1>3, <1>4, <1>5, <1>6, <1>7, <1>8, WorkerStep DEF ListsOfOthers

LEMMA RenameFailsStep == ASSUME IInv, NEW w \in Workers, RenameFails(w) PROVE IInv'
<1>1. WorkerKnows(w) /\ worker \in [Workers -> WorkerState]
  BY DEF IInv, TypeOK, WorkersKnow
<1>2. worker[w].id \in Ids
  BY <1>1 DEF WorkerKnows, Handling, RenameFails
<1>3. PICK s \in {"read", "over"} : Goes(w, s)
  BY DEF RenameFails
<1>4. /\ worker' \in [Workers -> WorkerState]
      /\ worker'[w].at = s /\ worker'[w].id = worker[w].id
      /\ \A v \in Workers \ {w} : worker'[v] = worker[v]
  <2>1. s \in Stages
    BY DEF Stages
  <2> QED
    BY <1>1, <1>3, <2>1, WorkerGoes
<1>5. TypeOK'
  BY <1>4 DEF IInv, TypeOK, RenameFails, FilesOnly, DiskFault, disk
<1>6. WorkerKnows(w)'
  BY <1>1, <1>2, <1>4 DEF WorkerKnows, Handling
<1> QED
  BY <1>4, <1>5, <1>6, QuietStep DEF RenameFails, FilesOnly, disk, ListsOfOthers

LEMMA UnlinkStep == ASSUME IInv, NEW w \in Workers, Unlink(w) PROVE IInv'
<1>1. WorkerKnows(w) /\ worker \in [Workers -> WorkerState]
  BY DEF IInv, TypeOK, WorkersKnow
<1>2. PICK s \in {"scan", "over"} : Goes(w, s)
  BY DEF Unlink, Done
<1>3. /\ worker' \in [Workers -> WorkerState]
      /\ worker'[w].at = s /\ worker'[w].id = worker[w].id
      /\ \A v \in Workers \ {w} : worker'[v] = worker[v]
  <2>1. s \in Stages
    BY DEF Stages
  <2> QED
    BY <1>1, <1>2, <2>1, WorkerGoes
<1>4. TypeOK'
  BY <1>3 DEF IInv, TypeOK, Unlink, FilesOnly, DiskFault
<1>5. WorkerKnows(w)'
  BY <1>1, <1>3 DEF WorkerKnows, Handling
<1> QED
  BY <1>3, <1>4, <1>5, QuietStep DEF Unlink, FilesOnly, ListsOfOthers

LEMMA ReadStep == ASSUME IInv, NEW w \in Workers, Read(w) PROVE IInv'
<1>1. WorkerKnows(w) /\ worker \in [Workers -> WorkerState]
  BY DEF IInv, TypeOK, WorkersKnow
<1>2. worker[w].id \in Ids
  BY <1>1 DEF WorkerKnows, Handling, Read
<1> DEFINE d == worker[w].id
           s == IF json[d] = None THEN Done(w) ELSE "write"
           k == [worker[w] EXCEPT !.at = s, !.got = json[d]]
<1>3. json[d] \in Entry \cup {None} /\ s \in Stages
  BY <1>2 DEF IInv, TypeOK, Stages, Done
<1>4. worker' = [worker EXCEPT ![w] = k]
  BY <1>1 DEF Read
<1>5. /\ k \in WorkerState /\ k.at = s /\ k.id = d /\ k.got = json[d]
  BY <1>1, <1>3 DEF WorkerState
<1> HIDE DEF k
<1>6. /\ worker' \in [Workers -> WorkerState] /\ worker'[w] = k
      /\ \A v \in Workers \ {w} : worker'[v] = worker[v]
  BY <1>1, <1>4, <1>5, WorkerUpdated
<1>7. TypeOK'
  BY <1>6 DEF IInv, TypeOK, Read, FilesOnly, disk
<1>8. WorkerKnows(w)'
  <2>1. k.at = "write" => k.got \in Entry
    BY <1>3, <1>5 DEF Done
  <2>2. k.at \in {"write", "scan", "over"}
    BY <1>5 DEF Done
  <2> QED
    BY <1>1, <1>2, <1>5, <1>6, <2>1, <2>2 DEF WorkerKnows, Handling
<1> QED
  BY <1>6, <1>7, <1>8, QuietStep DEF Read, FilesOnly, disk, ListsOfOthers

LEMMA WriteStep == ASSUME IInv, NEW w \in Workers, Write(w) PROVE IInv'
<1>1. worker[w].at = "write" /\ WorkerKnows(w) /\ worker \in [Workers -> WorkerState]
  BY DEF Write, IInv, TypeOK, WorkersKnow
<1>2. worker[w].id \in Ids /\ worker[w].got \in Entry
  BY <1>1 DEF WorkerKnows, Handling
<1> DEFINE d == worker[w].id
           entry == [retry |-> worker[w].got.retry + 1, stamped |-> TRUE]
<1>3. PICK s \in {"scan", "over"} : Goes(w, s)
  BY DEF Write, Done
<1>4. /\ worker' \in [Workers -> WorkerState]
      /\ worker'[w].at = s /\ worker'[w].id = d
      /\ \A v \in Workers \ {w} : worker'[v] = worker[v]
  <2>1. s \in Stages
    BY DEF Stages
  <2> QED
    BY <1>1, <1>3, <2>1, WorkerGoes
<1>5. entry \in Entry
  BY <1>2 DEF Entry
<1>6. json' = [json EXCEPT ![d] = entry] \/ json' = json
  BY DEF Write
<1> HIDE DEF entry
<1>7. TypeOK'
  <2>1. json' \in [Ids -> Entry \cup {None}]
    BY <1>2, <1>5, <1>6 DEF IInv, TypeOK
  <2> QED
    BY <1>4, <2>1 DEF IInv, TypeOK, Write, FilesOnly, DiskFault
<1>8. WorkerKnows(w)'
  BY <1>1, <1>4 DEF WorkerKnows, Handling
<1>9. \A e \in Ids : json'[e] # None \/ json[e] = None
  BY <1>2, <1>5, <1>6, NoneAssumption DEF IInv, TypeOK
<1>10. UNCHANGED <<option, accepted, sent, aborted, cut, failed, pending>>
  BY DEF Write, FilesOnly
<1> QED
  BY <1>4, <1>7, <1>8, <1>9, <1>10, WorkerStep DEF ListsOfOthers

-----------------------------------------------------------------------------
(* The sends *)

\* A worker that sends knows which delivery and payload it is at.
LEMMA Sender ==
    ASSUME IInv, NEW w \in Workers, worker[w].at = "send"
    PROVE  /\ worker \in [Workers -> WorkerState]
           /\ WorkerKnows(w)
           /\ worker[w].id \in Ids
           /\ worker[w].part \in 1 .. Parts + 1
           /\ Parts \in Nat \ {0}
<1>1. WorkerKnows(w) /\ worker \in [Workers -> WorkerState]
  BY DEF IInv, TypeOK, WorkersKnow
<1> QED
  BY <1>1, PartsAssumption DEF WorkerKnows, Handling, WorkerState

\* One more payload sent, at most.
LEMMA SentGrows ==
    ASSUME IInv, NEW d \in Ids, NEW p \in 1 .. Parts,
           \/ sent' = [sent EXCEPT ![d] = @ \cup {p}]
           \/ sent' = sent
    PROVE  /\ sent' \in [Ids -> SUBSET (1 .. Parts)]
           /\ \A e \in Ids : sent[e] \subseteq sent'[e]
<1>1. sent \in [Ids -> SUBSET (1 .. Parts)]
  BY DEF IInv, TypeOK
<1> QED
  BY <1>1

LEMMA SendOneStep == ASSUME IInv, NEW w \in Workers, Send(w) PROVE IInv'
<1> DEFINE d == worker[w].id
           p == worker[w].part
           k == [worker[w] EXCEPT !.part = p + 1]
<1>1. worker[w].at = "send" /\ p <= Parts /\ sent' = [sent EXCEPT ![d] = @ \cup {p}]
  BY DEF Send
<1>2. /\ worker \in [Workers -> WorkerState] /\ WorkerKnows(w)
      /\ d \in Ids /\ p \in 1 .. Parts + 1 /\ Parts \in Nat \ {0}
  BY <1>1, Sender
<1>3. p \in 1 .. Parts
  BY <1>1, <1>2
<1>4. worker' = [worker EXCEPT ![w] = k]
  BY <1>2 DEF Send
<1>5. k \in WorkerState /\ k.at = "send" /\ k.id = d /\ k.part = p + 1
  BY <1>1, <1>2, <1>3 DEF WorkerState
<1> HIDE DEF k
<1>6. /\ worker' \in [Workers -> WorkerState] /\ worker'[w] = k
      /\ \A v \in Workers \ {w} : worker'[v] = worker[v]
  BY <1>2, <1>4, <1>5, WorkerUpdated
<1>7. /\ sent' \in [Ids -> SUBSET (1 .. Parts)]
      /\ \A e \in Ids : sent[e] \subseteq sent'[e]
  BY <1>1, <1>2, <1>3, SentGrows
<1>8. TypeOK'
  BY <1>6, <1>7 DEF IInv, TypeOK, Send, SendsOnly, disk
<1>9. WorkerKnows(w)'
  <2>1. d \notin BestEffort => 1 .. (p - 1) \subseteq sent[d]
    BY <1>1, <1>2 DEF WorkerKnows
  <2>2. p \in sent'[d]
    BY <1>1, <1>2, <1>3 DEF IInv, TypeOK
  <2>3. d \notin BestEffort => 1 .. p \subseteq sent'[d]
    BY <1>2, <1>3, <1>7, <2>1, <2>2
  <2>4. (p + 1) - 1 = p
    BY <1>3
  <2>5. BestEffort' = BestEffort
    BY DEF Send, SendsOnly, BestEffort
  <2>6. w[1] = "call" => d = w[3]
    BY <1>2 DEF WorkerKnows
  <2> QED
    BY <1>2, <1>5, <1>6, <2>3, <2>4, <2>5, <2>6 DEF WorkerKnows, Handling
<1> QED
  BY <1>6, <1>7, <1>8, <1>9, WorkerStep DEF Send, SendsOnly, disk, ListsOfOthers

LEMMA SendFailsStep ==
    ASSUME IInv, NEW w \in Workers, NEW reached \in BOOLEAN, NEW kind,
           SendFails(w, reached, kind)
    PROVE  IInv'
<1> DEFINE d == worker[w].id
           p == worker[w].part
<1>1. /\ worker[w].at = "send" /\ p <= Parts
      /\ sent' = [sent EXCEPT ![d] = @ \cup {p}] \/ sent' = sent
  BY DEF SendFails
<1>2. /\ worker \in [Workers -> WorkerState] /\ WorkerKnows(w)
      /\ d \in Ids /\ p \in 1 .. Parts + 1 /\ Parts \in Nat \ {0}
  BY <1>1, Sender
<1>3. p \in 1 .. Parts
  BY <1>1, <1>2
<1>4. /\ sent' \in [Ids -> SUBSET (1 .. Parts)]
      /\ \A e \in Ids : sent[e] \subseteq sent'[e]
  BY <1>1, <1>2, <1>3, SentGrows
<1>5. PICK k \in WorkerState :
        /\ worker' = [worker EXCEPT ![w] = k]
        /\ k.id = d
        /\ \/ k.at = "send" /\ d \in BestEffort
           \/ k.at \in {"move", "read", "over"}
           \/ k.at = "rename" /\ d \in cut'
  <2>1. CASE d \in BestEffort
    <3> DEFINE q == worker[w].partial \/ (w \notin Recoveries /\ d \in Watched)
               k == [worker[w] EXCEPT !.part = p + 1, !.partial = q]
    <3>1. worker' = [worker EXCEPT ![w] = k]
      BY <1>2, <2>1 DEF SendFails
    <3> q \in BOOLEAN
      OBVIOUS
    <3> HIDE DEF q
    <3>2. worker[w] \in WorkerState /\ p + 1 \in 1 .. Parts + 1
      BY <1>2, <1>3
    <3>3. k \in WorkerState /\ k.id = d /\ k.at = "send"
      BY <1>1, <3>2, PartUpdated
    <3> QED
      BY <2>1, <3>1, <3>3
  <2>2. CASE d \notin BestEffort
    <3> DEFINE s == IF kind = "abort" /\ w \notin Recoveries THEN After(w, "rename")
                    ELSE IF kind = "permanent" /\ w \in Recoveries THEN "move"
                    ELSE After(w, "read")
               k == [worker[w] EXCEPT !.at = s]
    <3>1. worker' = [worker EXCEPT ![w] = k]
      BY <1>2, <2>2 DEF SendFails
    <3>2. /\ s \in {"move", "read", "over"} \/ (s = "rename" /\ d \in cut')
          /\ s \in Stages
      BY <2>2 DEF SendFails, After, Stages
    <3> HIDE DEF s
    <3>3. k \in WorkerState /\ k.id = d /\ k.at = s
      BY <1>2, <3>2 DEF WorkerState
    <3> QED
      BY <3>1, <3>2, <3>3
  <2> QED
    BY <2>1, <2>2
<1>0. cut' \in {cut, cut \cup {d}}
  BY DEF SendFails
<1>6. /\ worker' \in [Workers -> WorkerState] /\ worker'[w] = k
      /\ \A v \in Workers \ {w} : worker'[v] = worker[v]
  BY <1>2, <1>5, WorkerUpdated
<1>7. TypeOK'
  BY <1>0, <1>2, <1>4, <1>6 DEF IInv, TypeOK, SendFails, SendsOnly, SendFault, disk
<1>8. WorkerKnows(w)'
  <2>1. BestEffort' = BestEffort
    BY DEF SendFails, SendsOnly, BestEffort
  <2>2. w[1] = "call" => d = w[3]
    BY <1>2 DEF WorkerKnows
  <2> QED
    BY <1>2, <1>5, <1>6, <2>1, <2>2 DEF WorkerKnows, Handling
<1> QED
  BY <1>0, <1>4, <1>6, <1>7, <1>8, WorkerStep DEF SendFails, SendsOnly, ListsOfOthers, disk

LEMMA HandlerFailsStep ==
    ASSUME IInv, NEW w \in Workers, NEW permanent \in BOOLEAN, HandlerFails(w, permanent)
    PROVE  IInv'
<1>1. worker[w].at = "send"
  BY DEF HandlerFails
<1>2. worker \in [Workers -> WorkerState] /\ WorkerKnows(w) /\ worker[w].id \in Ids
  BY <1>1, Sender
<1>3. PICK s \in {"move", "read", "over"} : Goes(w, s)
  BY DEF HandlerFails, After
<1>4. /\ worker' \in [Workers -> WorkerState]
      /\ worker'[w].at = s /\ worker'[w].id = worker[w].id
      /\ \A v \in Workers \ {w} : worker'[v] = worker[v]
  <2>1. s \in Stages
    BY DEF Stages
  <2> QED
    BY <1>2, <1>3, <2>1, WorkerGoes
<1>5. TypeOK'
  BY <1>4 DEF IInv, TypeOK, HandlerFails, SendFault, SendsOnly, disk
<1>6. WorkerKnows(w)'
  BY <1>2, <1>4 DEF WorkerKnows, Handling
<1> QED
  BY <1>4, <1>5, <1>6, QuietStep DEF HandlerFails, SendsOnly, ListsOfOthers, disk

\* The call is over, with or without an error: on to the entry, if there is one.
LEMMA SendOverStep ==
    ASSUME IInv, NEW w \in Workers, SentAll(w) \/ MirrorFails(w)
    PROVE  IInv'
<1> DEFINE d == worker[w].id
<1>1. worker[w].at = "send" /\ worker[w].part = Parts + 1
  BY DEF SentAll, MirrorFails
<1>2. /\ worker \in [Workers -> WorkerState] /\ WorkerKnows(w)
      /\ d \in Ids /\ Parts \in Nat \ {0}
  BY <1>1, Sender
<1>3. PICK s \in {"read", "rename", "over"} : Goes(w, s)
  BY DEF SentAll, MirrorFails, After
<1>4. /\ worker' \in [Workers -> WorkerState]
      /\ worker'[w].at = s /\ worker'[w].id = d
      /\ \A v \in Workers \ {w} : worker'[v] = worker[v]
  <2>1. s \in Stages
    BY DEF Stages
  <2> QED
    BY <1>2, <1>3, <2>1, WorkerGoes
<1>5. TypeOK'
  BY <1>4 DEF IInv, TypeOK, SentAll, MirrorFails, SendFault, SendsOnly, disk
<1>6. WorkerKnows(w)'
  <2>0. worker[w].part - 1 = Parts
    BY <1>1, <1>2
  <2>1. d \notin BestEffort => 1 .. Parts \subseteq sent[d]
    BY <1>1, <1>2, <2>0 DEF WorkerKnows
  <2>2. d \notin BestEffort => sent[d] = 1 .. Parts
    BY <1>2, <2>1 DEF IInv, TypeOK
  <2>3. sent' = sent /\ BestEffort' = BestEffort
    BY DEF SentAll, MirrorFails, SendsOnly, BestEffort
  <2>4. w[1] = "call" => d = w[3]
    BY <1>2 DEF WorkerKnows
  <2> QED
    BY <1>2, <1>4, <2>2, <2>3, <2>4 DEF WorkerKnows, Handling
<1> QED
  BY <1>4, <1>5, <1>6, QuietStep DEF SentAll, MirrorFails, SendsOnly, disk, ListsOfOthers

LEMMA AbortStep == ASSUME IInv, NEW d \in Ids, Abort(d) PROVE IInv'
<1> DEFINE w == Call(d)
<1>1. w \in Workers /\ w[1] = "call" /\ w[3] = d
  BY WorkersDistinct
<1> HIDE DEF w
<1>2. worker[w].at = "send" /\ aborted' = aborted \cup {d}
  BY DEF Abort, w
<1>3. /\ worker \in [Workers -> WorkerState] /\ WorkerKnows(w)
      /\ worker[w].id = d /\ Parts \in Nat \ {0}
  BY <1>1, <1>2, Sender DEF WorkerKnows
<1>4. PICK k \in WorkerState :
        /\ worker' = [worker EXCEPT ![w] = k]
        /\ k.id = d
        /\ \/ k.at = "send" /\ d \in BestEffort
           \/ k.at \in {"rename", "over"}
  <2>1. CASE d \in BestEffort
    <3> DEFINE q == worker[w].partial \/ d \in Watched
               k == [worker[w] EXCEPT !.part = Parts + 1, !.partial = q]
    <3>1. worker' = [worker EXCEPT ![w] = k]
      BY <1>1, <1>3, <2>1 DEF Abort, w
    <3> q \in BOOLEAN
      OBVIOUS
    <3> HIDE DEF q
    <3>2. worker[w] \in WorkerState /\ Parts + 1 \in 1 .. Parts + 1
      BY <1>1, <1>3
    <3>3. k \in WorkerState /\ k.id = d /\ k.at = "send"
      BY <1>2, <1>3, <3>2, PartUpdated
    <3> QED
      BY <2>1, <3>1, <3>3
  <2>2. CASE d \notin BestEffort
    <3> DEFINE s == After(w, "rename")
               k == [worker[w] EXCEPT !.at = s]
    <3>1. worker' = [worker EXCEPT ![w] = k]
      BY <1>1, <1>3, <2>2 DEF Abort, w
    <3>2. s \in {"rename", "over"} /\ s \in Stages
      BY DEF After, Stages
    <3> HIDE DEF s
    <3>3. k \in WorkerState /\ k.id = d /\ k.at = s
      BY <1>1, <1>3, <3>2 DEF WorkerState
    <3> QED
      BY <3>1, <3>2, <3>3
  <2> QED
    BY <2>1, <2>2
<1>5. /\ worker' \in [Workers -> WorkerState] /\ worker'[w] = k
      /\ \A v \in Workers \ {w} : worker'[v] = worker[v]
  BY <1>1, <1>3, <1>4, WorkerUpdated
<1>6. TypeOK'
  BY <1>5 DEF IInv, TypeOK, Abort, SendsOnly, disk
<1>7. WorkerKnows(w)'
  <2>1. BestEffort' = BestEffort /\ d \in aborted'
    BY <1>2 DEF Abort, SendsOnly, BestEffort
  <2> QED
    BY <1>1, <1>4, <1>5, <2>1 DEF WorkerKnows, Handling
<1> QED
  BY <1>1, <1>2, <1>5, <1>6, <1>7, WorkerStep DEF Abort, SendsOnly, disk, ListsOfOthers

LEMMA EnqueueStep == ASSUME IInv, NEW d \in Ids, Enqueue(d) PROVE IInv'
<1> DEFINE w == Call(d)
           entry == [retry |-> 0, stamped |-> FALSE]
<1>1. w \in Workers /\ w[1] = "call" /\ w[3] = d /\ w \notin Recoveries
  BY WorkersDistinct
<1> HIDE DEF w
<1>2. worker \in [Workers -> WorkerState] /\ WorkerKnows(w) /\ worker[w].id = d
  BY <1>1 DEF IInv, TypeOK, WorkersKnow, WorkerKnows
<1>3. entry \in Entry
  BY DEF Entry
<1>4. /\ Goes(w, "send")
      /\ UNCHANGED <<option, marker, failed, start, listed, pending, acked, aborted, cut, shared, old,
                     sent, crashes, sendFaults>>
      /\ \/ /\ json' = [json EXCEPT ![d] = entry]
            /\ accepted' = accepted \cup {d}
            /\ UNCHANGED diskFaults
         \/ DiskFault /\ UNCHANGED <<json, accepted>>
  BY DEF Enqueue, w
<1> HIDE DEF entry
<1>5. /\ worker' \in [Workers -> WorkerState]
      /\ worker'[w].at = "send" /\ worker'[w].id = d /\ worker'[w].part = worker[w].part
      /\ \A v \in Workers \ {w} : worker'[v] = worker[v]
  BY <1>1, <1>2, <1>4, WorkerGoes DEF Stages
<1>6. TypeOK'
  BY <1>3, <1>4, <1>5 DEF IInv, TypeOK, DiskFault
<1>7. WorkerKnows(w)'
  <2>1. worker[w].part = 1
    BY <1>2 DEF WorkerKnows, Enqueue, w
  <2> QED
    BY <1>1, <1>2, <1>5, <2>1 DEF WorkerKnows, Handling
<1>8. WorkersKnow'
  <2>1. \A v \in Workers \ {w} : WorkerKnows(v)'
    BY <1>1, <1>4, <1>5, OthersKnow DEF IInv, TypeOK, ListsOfOthers
  <2> QED
    BY <1>7, <2>1 DEF WorkersKnow
<1>9. AtLeastOnce'
  <2> SUFFICES ASSUME NEW e \in accepted' \ BestEffort',
                      json'[e] = None, e \notin failed' \cup aborted' \cup cut'
               PROVE  sent'[e] = 1 .. Parts
    BY DEF AtLeastOnce
  <2>1. e \in Ids /\ BestEffort' = BestEffort
    BY <1>4, <1>6 DEF TypeOK, BestEffort
  <2>2. e \in accepted /\ json[e] = None
    BY <1>3, <1>4, <2>1, NoneAssumption DEF IInv, TypeOK
  <2> QED
    BY <1>4, <2>1, <2>2 DEF IInv, AtLeastOnce
<1> QED
  BY <1>6, <1>8, <1>9 DEF IInv
-----------------------------------------------------------------------------
(* The recoveries *)

\* A step of the recovery, whose stages below say nothing about what was sent.
LEMMA RecoveryStaged ==
    ASSUME IInv, NEW s \in Starts, NEW g \in {"load", "scan", "over"}, Goes(Recovery(s), g)
    PROVE  /\ worker' \in [Workers -> WorkerState]
           /\ \A v \in Workers \ {Recovery(s)} : worker'[v] = worker[v]
           /\ WorkerKnows(Recovery(s))'
<1>1. Recovery(s) \in Workers /\ Recovery(s)[1] # "call"
  BY WorkersDistinct
<1>2. worker \in [Workers -> WorkerState] /\ g \in Stages
  BY DEF IInv, TypeOK, Stages
<1>3. /\ worker' \in [Workers -> WorkerState] /\ worker'[Recovery(s)].at = g
      /\ \A v \in Workers \ {Recovery(s)} : worker'[v] = worker[v]
  BY <1>1, <1>2, WorkerGoes
<1> QED
  BY <1>1, <1>3 DEF WorkerKnows, Handling

LEMMA ListStep == ASSUME IInv, NEW s \in Starts, List(s) PROVE IInv'
<1>1. /\ worker' \in [Workers -> WorkerState]
      /\ \A v \in Workers \ {Recovery(s)} : worker'[v] = worker[v]
      /\ WorkerKnows(Recovery(s))'
  BY RecoveryStaged DEF List
<1>2. TypeOK'
  BY <1>1 DEF IInv, TypeOK, List, history, counts
<1> QED
  BY <1>1, <1>2, WorkersDistinct, QuietStep DEF List, history, counts, ListsOfOthers

LEMMA LoadedStep == ASSUME IInv, NEW s \in Starts, Loaded(s) PROVE IInv'
<1>1. /\ worker' \in [Workers -> WorkerState]
      /\ \A v \in Workers \ {Recovery(s)} : worker'[v] = worker[v]
      /\ WorkerKnows(Recovery(s))'
  BY RecoveryStaged DEF Loaded
<1>2. TypeOK'
  BY <1>1 DEF IInv, TypeOK, Loaded, FilesOnly, disk
<1> QED
  BY <1>1, <1>2, WorkersDistinct, QuietStep DEF Loaded, FilesOnly, disk, ListsOfOthers

LEMMA RecoveryEndsStep == ASSUME IInv, NEW s \in Starts, RecoveryEnds(s) PROVE IInv'
<1>1. /\ worker' \in [Workers -> WorkerState]
      /\ \A v \in Workers \ {Recovery(s)} : worker'[v] = worker[v]
      /\ WorkerKnows(Recovery(s))'
  BY RecoveryStaged DEF RecoveryEnds
<1>2. TypeOK'
  BY <1>1 DEF IInv, TypeOK, RecoveryEnds, ScanOnly, FilesOnly, disk
<1> QED
  BY <1>1, <1>2, WorkersDistinct, QuietStep DEF RecoveryEnds, ScanOnly, FilesOnly, disk, ListsOfOthers

\* moveToFailed takes the entry off the disk into failed/.
LEMMA MoveStep == ASSUME IInv, NEW s \in Starts, Move(s) PROVE IInv'
<1>1. /\ worker' \in [Workers -> WorkerState]
      /\ \A v \in Workers \ {Recovery(s)} : worker'[v] = worker[v]
      /\ WorkerKnows(Recovery(s))'
  BY RecoveryStaged DEF Move
<1> DEFINE d == worker[Recovery(s)].id
<1>2. d \in Ids
  BY WorkersDistinct DEF IInv, WorkersKnow, WorkerKnows, Handling, Move
<1>3. \/ /\ json' = [json EXCEPT ![d] = None]
         /\ failed' = IF json[d] = None THEN failed ELSE failed \cup {d}
         /\ UNCHANGED diskFaults
      \/ DiskFault /\ UNCHANGED <<json, failed>>
  BY DEF Move
<1>4. UNCHANGED <<marker, acked, pending, option, start, listed, accepted, aborted, cut, shared, old,
                  sent, crashes, sendFaults>>
  BY DEF Move, FilesOnly
<1>5. TypeOK'
  BY <1>1, <1>2, <1>3, <1>4 DEF IInv, TypeOK, DiskFault
<1>6. \A e \in Ids : json'[e] # None \/ json[e] = None \/ e \in failed'
  BY <1>2, <1>3 DEF IInv, TypeOK
<1>7. failed \subseteq failed'
  BY <1>3
<1> QED
  BY <1>1, <1>4, <1>5, <1>6, <1>7, WorkersDistinct, WorkerStep DEF ListsOfOthers

LEMMA LoadStep == ASSUME IInv, NEW s \in Starts, NEW d \in Ids, Load(s, d) PROVE IInv'
<1> DEFINE w == Recovery(s)
           k == [worker[w] EXCEPT !.at = "migrate", !.id = d]
           legacy == json[d] # None /\ json[d].retry > 0 /\ ~ json[d].stamped
<1>1. w \in Workers /\ w[1] # "call" /\ w \in Recoveries /\ w[2] = s
  BY WorkersDistinct
<1>2. worker \in [Workers -> WorkerState] /\ json[d] \in Entry \cup {None}
  BY DEF IInv, TypeOK
<1>3. k \in WorkerState /\ k.at = "migrate" /\ k.id = d
  BY <1>1, <1>2 DEF WorkerState, Stages
<1>4. \/ /\ pending' = [pending EXCEPT ![s][d] = json[d]]
         /\ worker' = IF legacy THEN [worker EXCEPT ![w] = k] ELSE worker
         /\ UNCHANGED diskFaults
      \/ DiskFault /\ UNCHANGED <<pending, worker>>
  BY <1>1, <1>2 DEF Load
<1> HIDE DEF k
<1>5. \/ legacy /\ worker' = [worker EXCEPT ![w] = k] /\ pending' = [pending EXCEPT ![s][d] = json[d]]
      \/ worker' = worker
  BY <1>4
<1>6. /\ worker' \in [Workers -> WorkerState]
      /\ \A v \in Workers \ {w} : worker'[v] = worker[v]
      /\ worker' = worker \/ worker'[w] = k
  BY <1>1, <1>2, <1>3, <1>5, WorkerUpdated
<1>7. UNCHANGED <<option, disk, start, accepted, acked, aborted, cut, old, sent, crashes, sendFaults>>
  BY DEF Load
<1>0. /\ pending' \in [Starts -> [Ids -> Entry \cup {None}]]
      /\ \A r \in Starts \ {s} : pending'[r] = pending[r]
  <2>1. TypeOK
    BY DEF IInv
  <2>2. CASE pending' = [pending EXCEPT ![s][d] = json[d]]
    BY <1>2, <2>1, <2>2, ListUpdated
  <2>3. CASE pending' = pending
    BY <2>1, <2>3 DEF TypeOK
  <2> QED
    BY <1>4, <2>2, <2>3
<1>8. TypeOK'
  <2>1. listed' \in [Starts -> SUBSET Ids]
    BY DEF IInv, TypeOK, Load
  <2>2. shared' \subseteq Ids
    BY DEF IInv, TypeOK, Load
  <2>3. diskFaults' \in Nat
    BY <1>4 DEF IInv, TypeOK, DiskFault
  <2> QED
    BY <1>0, <1>6, <1>7, <2>1, <2>2, <2>3 DEF IInv, TypeOK, disk
<1>9. WorkerKnows(w)'
  <2>1. legacy /\ pending' = [pending EXCEPT ![s][d] = json[d]] => pending'[s][d] \in Entry
    <3> SUFFICES ASSUME legacy, pending' = [pending EXCEPT ![s][d] = json[d]]
                 PROVE  pending'[s][d] \in Entry
      OBVIOUS
    <3>1. TypeOK
      BY DEF IInv
    <3>2. pending'[s][d] = json[d]
      BY <1>2, <3>1, ListUpdated
    <3> QED
      BY <1>2, <3>2
  <2>2. CASE legacy /\ worker' = [worker EXCEPT ![w] = k]
                    /\ pending' = [pending EXCEPT ![s][d] = json[d]]
    <3>1. worker'[w] = k
      BY <1>1, <1>2, <1>3, <2>2, WorkerUpdated
    <3>2. worker'[w].at = "migrate" /\ worker'[w].id = d /\ pending'[w[2]][d] \in Entry
      BY <1>1, <1>3, <2>1, <2>2, <3>1
    <3> QED
      BY <1>1, <3>2 DEF WorkerKnows, Handling
  <2>3. CASE worker' = worker
    <3>1. WorkerKnows(w) /\ worker[w].at = "load"
      BY <1>1 DEF IInv, WorkersKnow, Load
    <3> QED
      BY <1>1, <2>3, <3>1 DEF WorkerKnows, Handling
  <2> QED
    BY <1>5, <2>2, <2>3
<1>10. ListsOfOthers(w)
  BY <1>0 DEF ListsOfOthers
<1> QED
  BY <1>1, <1>6, <1>7, <1>8, <1>9, <1>10, QuietStep DEF disk

LEMMA MigrateStep == ASSUME IInv, NEW s \in Starts, Migrate(s) PROVE IInv'
<1> DEFINE d == worker[Recovery(s)].id
           entry == [pending[s][d] EXCEPT !.stamped = TRUE]
<1>1. /\ worker' \in [Workers -> WorkerState]
      /\ \A v \in Workers \ {Recovery(s)} : worker'[v] = worker[v]
      /\ WorkerKnows(Recovery(s))'
  BY RecoveryStaged DEF Migrate
<1>2. d \in Ids /\ pending[s][d] \in Entry
  BY WorkersDistinct DEF IInv, WorkersKnow, WorkerKnows, Handling, Migrate
<1>3. entry \in Entry
  BY <1>2 DEF Entry
<1>4. \/ /\ json' = [json EXCEPT ![d] = entry]
         /\ pending' = [pending EXCEPT ![s][d] = entry]
         /\ UNCHANGED diskFaults
      \/ DiskFault /\ pending' = [pending EXCEPT ![s][d] = None] /\ UNCHANGED json
  BY DEF Migrate
<1>5. UNCHANGED <<marker, failed, acked, option, start, listed, accepted, aborted, cut, shared, old,
                  sent, crashes, sendFaults>>
  BY DEF Migrate, FilesOnly
<1> HIDE DEF entry
<1>0. /\ pending' \in [Starts -> [Ids -> Entry \cup {None}]]
      /\ \A r \in Starts \ {s} : pending'[r] = pending[r]
  <2>1. TypeOK
    BY DEF IInv
  <2> QED
    BY <1>2, <1>3, <1>4, <2>1, ListUpdated
<1>6. TypeOK'
  BY <1>0, <1>1, <1>2, <1>3, <1>4, <1>5 DEF IInv, TypeOK, DiskFault
<1>7. \A e \in Ids : json'[e] # None \/ json[e] = None
  BY <1>2, <1>3, <1>4, NoneAssumption DEF IInv, TypeOK
<1>8. ListsOfOthers(Recovery(s))
  BY <1>0 DEF ListsOfOthers
<1> QED
  BY <1>1, <1>5, <1>6, <1>7, <1>8, WorkersDistinct, WorkerStep

\* The loop takes an entry: it skips it, or turns to it.
LEMMA ScanStep ==
    ASSUME IInv, NEW s \in Starts, NEW d \in Ids,
           Skip(s, d) \/ Replay(s, d) \/ Exhausted(s, d)
    PROVE  IInv'
<1> DEFINE w == Recovery(s)
<1>1. w \in Workers /\ w[1] # "call"
  BY WorkersDistinct
<1>2. worker \in [Workers -> WorkerState] /\ WorkerKnows(w) /\ worker[w].at = "scan"
  BY <1>1 DEF IInv, TypeOK, WorkersKnow, Skip, Replay, Exhausted, NextEntry
<1>3. \A g \in {"send", "move"} :
          /\ At(g, d) \in WorkerState
          /\ At(g, d).at = g /\ At(g, d).id = d /\ At(g, d).part = 1
  BY PartsAssumption DEF At, WorkerState, Stages
<1>4. \/ worker' = worker
      \/ \E g \in {"send", "move"} : worker' = [worker EXCEPT ![w] = At(g, d)]
  BY DEF Skip, Replay, Exhausted
<1>5. /\ worker' \in [Workers -> WorkerState]
      /\ \A v \in Workers \ {w} : worker'[v] = worker[v]
      /\ worker' = worker \/ \E g \in {"send", "move"} : worker'[w] = At(g, d)
  BY <1>1, <1>2, <1>3, <1>4, WorkerUpdated
<1>6. /\ pending' = [pending EXCEPT ![s][d] = None]
      /\ UNCHANGED <<option, start, listed, accepted, aborted, cut, shared, old, sent, crashes,
                     sendFaults, json, marker, failed, acked, diskFaults>>
  BY DEF Skip, Replay, Exhausted, ScanOnly, FilesOnly, disk
<1>0. /\ pending' \in [Starts -> [Ids -> Entry \cup {None}]]
      /\ ListsOfOthers(w)
  <2>1. TypeOK
    BY DEF IInv
  <2> QED
    BY <1>6, <2>1, ListUpdated DEF ListsOfOthers
<1>7. TypeOK'
  BY <1>0, <1>5, <1>6 DEF IInv, TypeOK
<1>8. WorkerKnows(w)'
  <2>1. CASE worker' = worker
    BY <1>1, <1>2, <2>1 DEF WorkerKnows, Handling
  <2>2. ASSUME NEW g \in {"send", "move"}, worker'[w] = At(g, d)
        PROVE  WorkerKnows(w)'
    <3>1. At(g, d).at = g /\ At(g, d).id = d /\ At(g, d).part = 1
      BY <1>3
    <3> QED
      BY <1>1, <2>2, <3>1 DEF WorkerKnows, Handling
  <2> QED
    BY <1>5, <2>1, <2>2
<1> QED
  BY <1>0, <1>1, <1>5, <1>6, <1>7, <1>8, QuietStep

\* The time budget is spent: several workers start at once, none of them sending.
LEMMA DeferStep == ASSUME IInv, NEW s \in Starts, Defer(s) PROVE IInv'
<1>1. worker' = [w \in Workers |->
                    IF w = Recovery(s) THEN At("defer", None)
                    ELSE IF \E d \in Ids : w = Deferral(s, d) /\ pending[s][d] # None
                    THEN At("read", w[3])
                    ELSE worker[w]]
  BY DEF Defer
<1>2. /\ pending' = [pending EXCEPT ![s] = NothingPending]
      /\ UNCHANGED <<option, start, listed, accepted, aborted, cut, shared, old, sent, crashes,
                     sendFaults, json, marker, failed, acked, diskFaults>>
  BY DEF Defer, ScanOnly, FilesOnly, disk
<1>3. \A g \in Starts : g # s => pending'[g] = pending[g]
  BY <1>2 DEF IInv, TypeOK
<1>4. ASSUME NEW w \in Workers
      PROVE  \/ worker'[w] = At("defer", None) /\ w = Recovery(s)
             \/ worker'[w] = At("read", w[3]) /\ w[1] # "call" /\ w[3] \in Ids
             \/ worker'[w] = worker[w] /\ w # Recovery(s)
  BY <1>1, WorkersDistinct
<1>5. \A d \in Ids \cup {None}, g \in {"defer", "read"} :
          At(g, d) \in WorkerState /\ At(g, d).at = g /\ At(g, d).id = d
  BY PartsAssumption DEF At, WorkerState, Stages
<1>6. TypeOK'
  <2>1. \A w \in Workers : worker'[w] \in WorkerState
    BY <1>4, <1>5 DEF IInv, TypeOK
  <2>2. worker' \in [Workers -> WorkerState]
    BY <1>1, <2>1
  <2>3. pending' \in [Starts -> [Ids -> Entry \cup {None}]]
    BY <1>2 DEF NothingPending, IInv, TypeOK
  <2> QED
    BY <1>2, <2>2, <2>3 DEF IInv, TypeOK
<1>7. WorkersKnow'
  <2> SUFFICES ASSUME NEW w \in Workers PROVE WorkerKnows(w)'
    BY DEF WorkersKnow
  <2>1. BestEffort' = BestEffort /\ WorkerKnows(w)
    BY <1>2 DEF BestEffort, IInv, WorkersKnow
  <2>2. CASE worker'[w] = At("defer", None) /\ w = Recovery(s)
    BY <1>5, <2>2, WorkersDistinct DEF WorkerKnows, Handling
  <2>3. CASE worker'[w] = At("read", w[3]) /\ w[1] # "call" /\ w[3] \in Ids
    BY <1>5, <2>3 DEF WorkerKnows, Handling
  <2>4. CASE worker'[w] = worker[w] /\ w # Recovery(s)
    <3>1. w \in Recoveries => w[2] \in Starts /\ w[2] # s
      BY <2>4, WorkersDistinct
    <3>2. w \in Recoveries => pending'[w[2]] = pending[w[2]]
      BY <1>3, <3>1
    <3> QED
      BY <1>2, <2>1, <2>4, <3>2 DEF WorkerKnows
  <2> QED
    BY <1>4, <2>2, <2>3, <2>4
<1>8. AtLeastOnce'
  BY <1>2 DEF IInv, AtLeastOnce, BestEffort
<1> QED
  BY <1>6, <1>7, <1>8 DEF IInv

\* Only files survive a crash, and AtLeastOnce speaks of files only.
LEMMA CrashStep == ASSUME IInv, Crash PROVE IInv'
<1>1. worker' = [w \in Workers |->
                    IF w = Recovery(1) THEN At("list", None)
                    ELSE IF worker[w].at = "new" THEN worker[w] ELSE At("over", w[3])]
  BY DEF Crash
<1>2. /\ pending' = [s \in Starts |-> NothingPending] /\ listed' = [s \in Starts |-> {}]
      /\ old' = [s \in Starts |-> IF s = 1 THEN accepted ELSE {}]
      /\ crashes' = crashes + 1 /\ start' = 1
      /\ UNCHANGED <<option, accepted, aborted, cut, shared, sent,
                     sendFaults, json, marker, failed, acked, diskFaults>>
  BY DEF Crash, disk
<1>3. ASSUME NEW w \in Workers
      PROVE  \/ worker'[w] = At("list", None) /\ w[1] # "call"
             \/ worker'[w] = At("over", w[3]) /\ w[3] \in Ids \cup {None}
             \/ worker'[w] = worker[w] /\ worker[w].at = "new"
  BY <1>1, FirstStart, WorkersDistinct
<1>4. \A d \in Ids \cup {None}, g \in {"list", "over"} :
          At(g, d) \in WorkerState /\ At(g, d).at = g /\ At(g, d).id = d
  BY PartsAssumption DEF At, WorkerState, Stages
<1>5. TypeOK'
  <2>1. \A w \in Workers : worker'[w] \in WorkerState
    BY <1>3, <1>4 DEF IInv, TypeOK
  <2>2. worker' \in [Workers -> WorkerState]
    BY <1>1, <2>1
  <2>3. pending' \in [Starts -> [Ids -> Entry \cup {None}]]
    BY <1>2 DEF NothingPending
  <2>4. old' \in [Starts -> SUBSET Ids] /\ listed' \in [Starts -> SUBSET Ids]
    BY <1>2 DEF IInv, TypeOK
  <2> QED
    BY <1>2, <2>2, <2>3, <2>4, FirstStart DEF IInv, TypeOK
<1>6. WorkersKnow'
  <2> SUFFICES ASSUME NEW w \in Workers PROVE WorkerKnows(w)'
    BY DEF WorkersKnow
  <2>1. WorkerKnows(w)
    BY DEF IInv, WorkersKnow
  <2>2. CASE worker'[w] = At("list", None) /\ w[1] # "call"
    BY <1>4, <2>2 DEF WorkerKnows, Handling
  <2>3. CASE worker'[w] = At("over", w[3]) /\ w[3] \in Ids \cup {None}
    BY <1>4, <2>3 DEF WorkerKnows, Handling
  <2>4. CASE worker'[w] = worker[w] /\ worker[w].at = "new"
    BY <2>1, <2>4 DEF WorkerKnows, Handling
  <2> QED
    BY <1>3, <2>2, <2>3, <2>4
<1>7. AtLeastOnce'
  BY <1>2 DEF IInv, AtLeastOnce, BestEffort
<1> QED
  BY <1>5, <1>6, <1>7 DEF IInv

\* A restart inside the process sets off one more recovery and ends nothing.
LEMMA RestartStep == ASSUME IInv, Restart PROVE IInv'
<1>1. PICK s \in Starts :
        /\ worker' = [worker EXCEPT ![Recovery(s)] = At("list", None)]
        /\ old' = [old EXCEPT ![s] = accepted] /\ start' = s
  <2>1. start \in 1 .. MaxStarts /\ start < MaxStarts /\ MaxStarts \in Nat
    BY BoundsAssumption DEF Restart, IInv, TypeOK, Starts
  <2>2. start + 1 \in Starts
    BY <2>1 DEF Starts
  <2> QED
    BY <2>2 DEF Restart
<1>2. UNCHANGED <<option, json, marker, failed, listed, pending, accepted, acked, aborted, cut,
                  shared, sent, crashes, sendFaults, diskFaults>>
  BY DEF Restart, disk, counts
<1> DEFINE w == Recovery(s)
<1>3. w \in Workers /\ w[1] # "call"
  BY WorkersDistinct
<1>4. At("list", None) \in WorkerState /\ At("list", None).at = "list"
  BY PartsAssumption DEF At, WorkerState, Stages
<1>5. /\ worker' \in [Workers -> WorkerState] /\ worker'[w] = At("list", None)
      /\ \A v \in Workers \ {w} : worker'[v] = worker[v]
  BY <1>1, <1>3, <1>4, WorkerUpdated DEF IInv, TypeOK
<1>6. TypeOK'
  <2>1. old' \in [Starts -> SUBSET Ids]
    BY <1>1 DEF IInv, TypeOK
  <2> QED
    BY <1>1, <1>2, <1>5, <2>1 DEF IInv, TypeOK
<1>7. WorkerKnows(w)'
  BY <1>3, <1>4, <1>5 DEF WorkerKnows, Handling
<1> QED
  BY <1>2, <1>3, <1>5, <1>6, <1>7, QuietStep DEF ListsOfOthers

-----------------------------------------------------------------------------
(* The invariant *)

LEMMA InitIInv == ASSUME Init PROVE IInv
<1>1. \A d \in Ids \cup {None}, s \in {"list", "over", "new"} :
          /\ At(s, d) \in WorkerState
          /\ At(s, d).at = s /\ At(s, d).id = d /\ At(s, d).part = 1
  BY PartsAssumption DEF At, WorkerState, Stages
<1>2. worker = [w \in Workers |->
                   IF w = Recovery(1) THEN At("list", None)
                   ELSE IF w[1] = "call" /\ w[3] \notin Leftover THEN At("new", w[3])
                   ELSE At("over", w[3])]
  BY DEF Init
<1>3. ASSUME NEW w \in Workers
      PROVE  \/ worker[w] = At("list", None) /\ w[1] # "call"
             \/ worker[w] = At("new", w[3]) /\ w[3] \in Ids
             \/ worker[w] = At("over", w[3]) /\ w[3] \in Ids \cup {None}
  BY <1>2, FirstStart, WorkersDistinct
<1>4. TypeOK
  <2>1. \A w \in Workers : worker[w] \in WorkerState
    BY <1>1, <1>3
  <2>2. worker \in [Workers -> WorkerState]
    BY <1>2, <2>1
  <2>3. json \in [Ids -> Entry \cup {None}]
    BY DEF Init, Entry
  <2> QED
    BY <2>2, <2>3, IdsAssumption, FirstStart DEF Init, TypeOK, NothingPending
<1>5. WorkersKnow
  <2> SUFFICES ASSUME NEW w \in Workers PROVE WorkerKnows(w)
    BY DEF WorkersKnow
  <2>1. CASE worker[w] = At("list", None) /\ w[1] # "call"
    BY <1>1, <2>1 DEF WorkerKnows, Handling
  <2>2. CASE worker[w] = At("new", w[3]) /\ w[3] \in Ids
    BY <1>1, <2>2 DEF WorkerKnows, Handling
  <2>3. CASE worker[w] = At("over", w[3]) /\ w[3] \in Ids \cup {None}
    BY <1>1, <2>3 DEF WorkerKnows, Handling
  <2> QED
    BY <1>3, <2>1, <2>2, <2>3
<1>6. AtLeastOnce
  <2>1. \A d \in accepted : d \in Ids /\ json[d] = [retry |-> 1, stamped |-> FALSE]
    BY IdsAssumption DEF Init
  <2>2. [retry |-> 1, stamped |-> FALSE] \in Entry
    BY DEF Entry
  <2> QED
    BY <2>1, <2>2, NoneAssumption DEF AtLeastOnce
<1> QED
  BY <1>4, <1>5, <1>6 DEF IInv

LEMMA StutterStep == ASSUME IInv, UNCHANGED vars PROVE IInv'
<1>1. UNCHANGED <<option, json, marker, failed, worker, start, listed, pending, accepted, acked,
                  aborted, cut, shared, old, sent, crashes, sendFaults, diskFaults>>
  BY DEF vars, disk, history, counts
<1>2. TypeOK'
  BY <1>1 DEF IInv, TypeOK
<1>3. WorkersKnow'
  BY <1>1 DEF IInv, WorkersKnow, WorkerKnows, BestEffort
<1>4. AtLeastOnce'
  BY <1>1 DEF IInv, AtLeastOnce, BestEffort
<1> QED
  BY <1>2, <1>3, <1>4 DEF IInv

LEMMA NextStep == ASSUME IInv, [Next]_vars PROVE IInv'
<1>1. CASE UNCHANGED vars
  BY <1>1, StutterStep
<1>2. ASSUME NEW d \in Ids, Enqueue(d) \/ Abort(d) PROVE IInv'
  BY <1>2, EnqueueStep, AbortStep
<1>3. ASSUME NEW w \in Workers, SendStep(w) PROVE IInv'
  BY <1>3, SendOneStep, SendFailsStep, HandlerFailsStep, SendOverStep DEF SendStep
<1>4. ASSUME NEW w \in Workers, FileStep(w) PROVE IInv'
  BY <1>4, RenameStep, RenameFailsStep, UnlinkStep, ReadStep, WriteStep DEF FileStep
<1>5. ASSUME NEW s \in Starts, RecoveryStep(s) PROVE IInv'
  BY <1>5, ListStep, LoadedStep, MigrateStep, MoveStep, DeferStep, RecoveryEndsStep,
     LoadStep, ScanStep DEF RecoveryStep
<1>6. CASE Crash \/ Restart
  BY <1>6, CrashStep, RestartStep
<1>7. CASE Over
  BY <1>7, StutterStep DEF Over
<1> QED
  BY <1>1, <1>2, <1>3, <1>4, <1>5, <1>6, <1>7 DEF Next

\* The inductive invariant holds in every reachable state.
THEOREM Invariance == Spec => []IInv
<1>1. Init => IInv
  BY InitIInv
<1>2. IInv /\ [Next]_vars => IInv'
  BY NextStep
<1> QED
  BY <1>1, <1>2, PTL DEF Spec

\* Every variable keeps its type.
THEOREM TypeCorrect == Spec => []TypeOK
<1>1. IInv => TypeOK
  BY DEF IInv
<1> QED
  BY <1>1, Invariance, PTL

\* No accepted message is lost (deliver.ts, delivery-queue-storage.ts,
\* delivery-queue-recovery.ts): one that is neither on disk, nor in failed/, nor
\* withdrawn by an abort error, be it its caller's or a timed out send's, was sent in
\* full, whatever crashes, fails or overlaps.
THEOREM NothingIsLost == Spec => []AtLeastOnce
<1>1. IInv => AtLeastOnce
  BY DEF IInv
<1> QED
  BY <1>1, Invariance, PTL

-----------------------------------------------------------------------------
(* The promise *)

PromiseStep == [Promise!Next]_<<Status, sent, BestEffort>>

\* The disk and the sends as they were.
LEMMA PromiseStutters ==
    ASSUME UNCHANGED <<option, json, failed, accepted, aborted, cut, sent>>
    PROVE  PromiseStep
<1>1. Status' = Status
  BY DEF Status
<1>2. BestEffort' = BestEffort
  BY DEF BestEffort
<1> QED
  BY <1>1, <1>2 DEF PromiseStep

\* Nothing but the status of one delivery changes, and that in a way the promise
\* allows; whoever is "kept" was sent, since AtLeastOnce holds after the step.
LEMMA OneStatus ==
    ASSUME IInv', UNCHANGED <<option, sent>>, NEW d \in Ids,
           \A e \in Ids \ {d} : Status'[e] = Status[e],
           \/ Status'[d] \in {Status[d], "owed"}
           \/ Status[d] = "owed" /\ Status'[d] # "none"
           \/ Status[d] = "kept" /\ Status'[d] = "withdrawn"
    PROVE  PromiseStep
<1>1. BestEffort' = BestEffort
  BY DEF BestEffort
<1>2. Status' = [Status EXCEPT ![d] = Status'[d]]
  BY DEF Status
<1>3. /\ Status[d] \in {"none", "owed", "kept", "failed", "withdrawn"}
      /\ Status'[d] \in {"none", "owed", "kept", "failed", "withdrawn"}
  BY DEF Status
<1>4. Status'[d] = "kept" => sent[d] = 1 .. Parts \/ d \in BestEffort
  BY <1>1 DEF Status, IInv, AtLeastOnce
<1>5. CASE Status'[d] = Status[d]
  BY <1>1, <1>2, <1>5 DEF PromiseStep, Status
<1>6. CASE Status'[d] = "owed"
  <2>1. Promise!Accept(d) \/ Promise!Reopen(d)
    BY <1>1, <1>2, <1>6 DEF Promise!Accept, Promise!Reopen, Promise!Become
  <2> QED
    BY <2>1 DEF PromiseStep, Promise!Next
<1>7. CASE Status[d] = "owed" /\ Status'[d] \in {"kept", "failed", "withdrawn"}
  <2>1. Promise!Keep(d) \/ Promise!GiveUp(d) \/ Promise!Withdraw(d)
    BY <1>1, <1>2, <1>4, <1>7
       DEF Promise!Keep, Promise!GiveUp, Promise!Withdraw, Promise!Become
  <2> QED
    BY <2>1 DEF PromiseStep, Promise!Next
<1>8. CASE Status[d] = "kept" /\ Status'[d] = "withdrawn"
  <2>1. Promise!Withdraw(d)
    BY <1>1, <1>2, <1>8 DEF Promise!Withdraw, Promise!Become
  <2> QED
    BY <2>1 DEF PromiseStep, Promise!Next
<1> QED
  BY <1>3, <1>5, <1>6, <1>7, <1>8

LEMMA EnqueuePromise == ASSUME IInv, IInv', NEW d \in Ids, Enqueue(d) PROVE PromiseStep
<1>1. UNCHANGED <<option, sent, failed, aborted, cut>>
  BY DEF Enqueue
<1>2. CASE UNCHANGED <<json, accepted>>
  BY <1>1, <1>2, PromiseStutters
<1>3. CASE json' = [json EXCEPT ![d] = [retry |-> 0, stamped |-> FALSE]]
           /\ accepted' = accepted \cup {d}
  <2>1. [retry |-> 0, stamped |-> FALSE] \in Entry
    BY DEF Entry
  <2>2. json'[d] # None /\ \A e \in Ids \ {d} : json'[e] = json[e]
    BY <1>3, <2>1, NoneAssumption DEF IInv, TypeOK
  <2>3. Status'[d] = "owed"
    BY <1>3, <2>2 DEF Status
  <2>4. \A e \in Ids \ {d} : Status'[e] = Status[e]
    BY <1>1, <1>3, <2>2 DEF Status
  <2> QED
    BY <1>1, <2>3, <2>4, OneStatus
<1> QED
  BY <1>2, <1>3 DEF Enqueue

LEMMA AbortPromise == ASSUME IInv, IInv', NEW d \in Ids, Abort(d) PROVE PromiseStep
<1>1. UNCHANGED <<option, sent, json, failed, accepted, cut>> /\ aborted' = aborted \cup {d}
  BY DEF Abort, SendsOnly, disk
<1>2. \A e \in Ids \ {d} : Status'[e] = Status[e]
  BY <1>1 DEF Status
<1>3. Status'[d] = Status[d] \/ (Status[d] = "kept" /\ Status'[d] = "withdrawn")
  BY <1>1 DEF Status
<1> QED
  BY <1>1, <1>2, <1>3, OneStatus

\* Payloads that reach the channel are the promise's Send; a send taken for an abort
\* withdraws what it kept, which was all sent before.
LEMMA SendPromise ==
    ASSUME IInv, IInv', NEW w \in Workers, SendStep(w)
    PROVE  PromiseStep
<1> DEFINE d == worker[w].id
           p == worker[w].part
<1>1. UNCHANGED <<option, json, failed, accepted, aborted>>
  BY DEF SendStep, Send, SendFails, HandlerFails, SentAll, MirrorFails, SendsOnly, disk
<1>2. BestEffort' = BestEffort
  BY <1>1 DEF BestEffort
<1>3. worker[w].at = "send"
  BY DEF SendStep, Send, SendFails, HandlerFails, SentAll, MirrorFails
<1>4. d \in Ids /\ p \in 1 .. Parts + 1 /\ Parts \in Nat
  BY <1>3, Sender
<1>5. sent' = sent \/ (p <= Parts /\ sent' = [sent EXCEPT ![d] = @ \cup {p}])
  BY DEF SendStep, Send, SendFails, HandlerFails, SentAll, MirrorFails
<1>6. cut' = cut \/ (cut' = cut \cup {d} /\ d \notin BestEffort)
  BY DEF SendStep, Send, SendFails, HandlerFails, SentAll, MirrorFails
<1> HIDE DEF d, p
<1>7. CASE Status' = Status
  <2>1. CASE sent' = sent
    BY <1>2, <1>7, <2>1 DEF PromiseStep
  <2>2. CASE p <= Parts /\ sent' = [sent EXCEPT ![d] = @ \cup {p}]
    <3>1. p \in 1 .. Parts
      BY <1>4, <2>2
    <3>2. Promise!Send(d, p)
      BY <1>2, <1>7, <2>2 DEF Promise!Send
    <3> QED
      BY <1>4, <3>1, <3>2 DEF PromiseStep, Promise!Next
  <2> QED
    BY <1>5, <2>1, <2>2
<1>8. CASE Status' # Status
  <2>1. cut' = cut \cup {d} /\ d \notin BestEffort
    BY <1>1, <1>6, <1>8 DEF Status
  <2>2. \A e \in Ids \ {d} : Status'[e] = Status[e]
    BY <1>1, <2>1 DEF Status
  <2>3. Status[d] = "kept" /\ Status'[d] = "withdrawn"
    <3>1. Status'[d] = Status[d] => Status' = Status
      BY <2>2 DEF Status
    <3>2. Status'[d] = Status[d] \/ (Status[d] = "kept" /\ Status'[d] = "withdrawn")
      BY <1>1, <1>4, <2>1 DEF Status
    <3> QED
      BY <1>8, <3>1, <3>2
  <2>4. sent[d] = 1 .. Parts
    BY <1>4, <2>1, <2>3 DEF Status, IInv, AtLeastOnce
  <2>5. sent' = sent
    <3>1. p <= Parts => sent[d] \cup {p} = sent[d]
      BY <1>4, <2>4
    <3>2. sent \in [Ids -> SUBSET (1 .. Parts)]
      BY DEF IInv, TypeOK
    <3> QED
      BY <1>4, <1>5, <3>1, <3>2
  <2> QED
    BY <1>1, <1>4, <2>2, <2>3, <2>5, OneStatus
<1> QED
  BY <1>7, <1>8

LEMMA RenamePromise ==
    ASSUME IInv, IInv', NEW w \in Workers, Rename(w)
    PROVE  PromiseStep
<1> DEFINE d == worker[w].id
<1>1. UNCHANGED <<option, sent, failed, accepted, aborted, cut>> /\ json' = [json EXCEPT ![d] = None]
  BY DEF Rename, FilesOnly
<1>2. d \in Ids
  BY DEF IInv, WorkersKnow, WorkerKnows, Handling, Rename
<1>3. json'[d] = None /\ \A e \in Ids \ {d} : json'[e] = json[e]
  BY <1>1, <1>2 DEF IInv, TypeOK
<1>4. \A e \in Ids \ {d} : Status'[e] = Status[e]
  BY <1>1, <1>3 DEF Status
<1>5. Status'[d] = Status[d] \/ (Status[d] = "owed" /\ Status'[d] # "none")
  BY <1>1, <1>2, <1>3 DEF Status
<1> QED
  BY <1>1, <1>2, <1>4, <1>5, OneStatus

\* An entry that is written stays, or becomes again, owed.
LEMMA WrittenPromise ==
    ASSUME IInv, IInv', UNCHANGED <<option, sent, failed, accepted, aborted, cut>>,
           NEW d \in Ids, NEW entry \in Entry,
           json' = [json EXCEPT ![d] = entry] \/ json' = json
    PROVE  PromiseStep
<1>1. CASE json' = json
  BY <1>1, PromiseStutters
<1>2. CASE json' = [json EXCEPT ![d] = entry]
  <2>1. json'[d] # None /\ \A e \in Ids \ {d} : json'[e] = json[e]
    BY <1>2, NoneAssumption DEF IInv, TypeOK
  <2>2. \A e \in Ids \ {d} : Status'[e] = Status[e]
    BY <2>1 DEF Status
  <2>3. Status'[d] \in {Status[d], "owed"}
    BY <2>1 DEF Status
  <2> QED
    BY <2>2, <2>3, OneStatus
<1> QED
  BY <1>1, <1>2

LEMMA WritePromise ==
    ASSUME IInv, IInv', NEW w \in Workers, Write(w)
    PROVE  PromiseStep
<1> DEFINE entry == [retry |-> worker[w].got.retry + 1, stamped |-> TRUE]
<1>1. worker[w].id \in Ids /\ worker[w].got \in Entry
  BY DEF IInv, WorkersKnow, WorkerKnows, Handling, Write
<1>2. entry \in Entry
  BY <1>1 DEF Entry
<1>3. /\ UNCHANGED <<option, sent, failed, accepted, aborted, cut>>
      /\ json' = [json EXCEPT ![worker[w].id] = entry] \/ json' = json
  BY DEF Write, FilesOnly
<1> HIDE DEF entry
<1> QED
  BY <1>1, <1>2, <1>3, WrittenPromise

LEMMA MigratePromise == ASSUME IInv, IInv', NEW s \in Starts, Migrate(s) PROVE PromiseStep
<1> DEFINE d == worker[Recovery(s)].id
           entry == [pending[s][d] EXCEPT !.stamped = TRUE]
<1>1. d \in Ids /\ pending[s][d] \in Entry
  BY WorkersDistinct DEF IInv, WorkersKnow, WorkerKnows, Handling, Migrate
<1>2. entry \in Entry
  BY <1>1 DEF Entry
<1>3. /\ UNCHANGED <<option, sent, failed, accepted, aborted, cut>>
      /\ json' = [json EXCEPT ![d] = entry] \/ json' = json
  BY DEF Migrate, FilesOnly
<1> HIDE DEF entry
<1> QED
  BY <1>1, <1>2, <1>3, WrittenPromise

LEMMA MovePromise == ASSUME IInv, IInv', NEW s \in Starts, Move(s) PROVE PromiseStep
<1> DEFINE d == worker[Recovery(s)].id
<1>1. UNCHANGED <<option, sent, accepted, aborted, cut>>
  BY DEF Move, FilesOnly
<1>2. CASE UNCHANGED <<json, failed>>
  BY <1>1, <1>2, PromiseStutters
<1>3. CASE /\ json' = [json EXCEPT ![d] = None]
           /\ failed' = IF json[d] = None THEN failed ELSE failed \cup {d}
  <2>1. d \in Ids
    BY WorkersDistinct DEF IInv, WorkersKnow, WorkerKnows, Handling, Move
  <2>2. json'[d] = None /\ \A e \in Ids \ {d} : json'[e] = json[e]
    BY <1>3, <2>1 DEF IInv, TypeOK
  <2>3. \A e \in Ids \ {d} : Status'[e] = Status[e]
    BY <1>1, <1>3, <2>2 DEF Status
  <2>4. Status'[d] = Status[d] \/ (Status[d] = "owed" /\ Status'[d] # "none")
    BY <1>1, <1>3, <2>1, <2>2 DEF Status
  <2> QED
    BY <1>1, <2>1, <2>3, <2>4, OneStatus
<1> QED
  BY <1>2, <1>3 DEF Move

\* Every step of the queue is a step of the promise, or none.
LEMMA NextPromise == ASSUME IInv, IInv', [Next]_vars PROVE PromiseStep
<1>1. CASE UNCHANGED vars
  BY <1>1, PromiseStutters DEF vars, disk, history
<1>2. ASSUME NEW d \in Ids, Enqueue(d) \/ Abort(d) PROVE PromiseStep
  BY <1>2, EnqueuePromise, AbortPromise
<1>3. ASSUME NEW w \in Workers, SendStep(w) PROVE PromiseStep
  BY <1>3, SendPromise
<1>4. ASSUME NEW w \in Workers, FileStep(w) PROVE PromiseStep
  <2>1. CASE Rename(w)
    BY <2>1, RenamePromise
  <2>2. CASE Write(w)
    BY <2>2, WritePromise
  <2>3. CASE RenameFails(w) \/ Unlink(w) \/ Read(w)
    BY <2>3, PromiseStutters DEF RenameFails, Unlink, Read, FilesOnly, disk
  <2> QED
    BY <1>4, <2>1, <2>2, <2>3 DEF FileStep
<1>5. ASSUME NEW s \in Starts, RecoveryStep(s) PROVE PromiseStep
  <2>1. CASE Migrate(s)
    BY <2>1, MigratePromise
  <2>2. CASE Move(s)
    BY <2>2, MovePromise
  <2>3. CASE List(s) \/ Loaded(s) \/ Defer(s) \/ RecoveryEnds(s)
    BY <2>3, PromiseStutters
       DEF List, Loaded, Defer, RecoveryEnds, ScanOnly, FilesOnly, disk, history
  <2>4. CASE \E d \in Ids : Load(s, d) \/ Skip(s, d) \/ Replay(s, d) \/ Exhausted(s, d)
    BY <2>4, PromiseStutters DEF Load, Skip, Replay, Exhausted, ScanOnly, FilesOnly, disk
  <2> QED
    BY <1>5, <2>1, <2>2, <2>3, <2>4 DEF RecoveryStep
<1>6. CASE Crash \/ Restart
  BY <1>6, PromiseStutters DEF Crash, Restart, disk
<1>7. CASE Over
  BY <1>1, <1>7 DEF Over
<1> QED
  BY <1>1, <1>2, <1>3, <1>4, <1>5, <1>6, <1>7 DEF Next

LEMMA InitPromise == ASSUME Init PROVE Promise!Init
<1>1. [retry |-> 1, stamped |-> FALSE] \in Entry
  BY DEF Entry
<1>2. \A d \in Ids : Status[d] \in {"none", "owed"}
  BY <1>1, NoneAssumption DEF Init, Status
<1>3. Status \in [Ids -> {"none", "owed"}]
  BY <1>2 DEF Status
<1> QED
  BY <1>3 DEF Init, Promise!Init, BestEffort

\* The write-ahead queue implements OutboundPromise: an accepted message is owed
\* until it was sent in full, given up in failed/ or withdrawn by its sender
\* (deliverOutboundPayloads and recoverPendingDeliveries together).
THEOREM PromiseImplemented == Spec => PromiseKept
<1>1. Init => Promise!Init
  BY InitPromise
<1>2. IInv /\ IInv' /\ [Next]_vars => [Promise!Next]_<<Status, sent, BestEffort>>
  BY NextPromise DEF PromiseStep
<1> QED
  BY <1>1, <1>2, Invariance, PTL DEF Spec, PromiseKept, Promise!Spec

=============================================================================
