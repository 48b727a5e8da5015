------------------------ MODULE SessionWriteLockProofs ------------------------
(***************************************************************************)
(* Proofs about SessionWriteLock for any processes, calls and troubles:    *)
(* unless a removal by path hit another lock than it was meant for, the    *)
(* lock is exclusive, shared by re-entrant calls until the last of them,   *)
(* and never left behind.                                                  *)
(*                                                                         *)
(* The argument: whoever may still touch the file at lockPath agrees with  *)
(* everybody else on which lock that is (Agreed), and whoever is about to  *)
(* reclaim one has seen that its process is dead.  That the last release   *)
(* is really the last needs the count to be exact (Counted).               *)
(***************************************************************************)
EXTENDS SessionWriteLock, FiniteSetTheorems, TLAPS

\* Calls that hold the lock their process has entered.
Holders(p) == {c \in Callers : proc[c] = p /\ at[c] = "hold" /\ lease[c] = held[p].by}

Counted ==
    \A p \in Procs : held[p] # None =>
        IsFiniteSet(Holders(p)) /\ held[p].count = Cardinality(Holders(p))

\* Only processes that are alive do anything.
Living ==
    /\ \A c \in Callers : at[c] \notin {"start", "over"} => Alive(proc[c])
    /\ \A c \in Callers : at[c] # "start" => life[proc[c]] # "unborn"
    /\ \A p \in Procs : held[p] # None => Alive(p)
    /\ \A o \in releasing : Alive(proc[o])

\* How far the calls are that made the locks in question.
Made ==
    /\ file # None => at[file] # "start"
    /\ \A o \in written : at[o] # "start"
    /\ \A c \in Callers : seen[c] # None => at[seen[c]] # "start"
    /\ \A p \in Procs : held[p] # None =>
          proc[held[p].by] = p /\ at[held[p].by] \in {"hold", "over"}
    /\ \A o \in releasing : at[o] \in {"hold", "over"}
    /\ \A o \in releasing : held[proc[o]] # None => held[proc[o]].by # o
    /\ \A c \in Callers : at[c] \notin {"hold", "over"} => lease[c] = c
    /\ \A c \in Callers : at[c] = "hold" =>
          proc[lease[c]] = proc[c] /\ at[lease[c]] \in {"hold", "over"}
    /\ troubles = 0 => old = {}

\* The lock at lockPath is the one that its makers, holders and releasers mean.
Agreed ==
    /\ \A c \in Callers : at[c] \in {"write", "enter"} => file = c
    /\ \A c \in Callers : at[c] = "hold" =>
          held[proc[c]] # None /\ held[proc[c]].by = lease[c]
    /\ \A p \in Procs : held[p] # None => file = held[p].by
    /\ \A o \in releasing : file = o
    /\ \A c \in Callers : at[c] = "reclaim" /\ seen[c] # None => life[proc[seen[c]]] = "dead"
    /\ NothingLeaked

IInv == TypeOK /\ Counted /\ Living /\ Made /\ (Undisputed => Agreed)

-----------------------------------------------------------------------------
(* Lemmas *)

\* Counts stay exact when nobody begins or ends to hold and HELD_LOCKS is the same.
LEMMA CountedKept ==
    ASSUME Counted, held' = held, lease' = lease,
           \A c \in Callers : at'[c] = "hold" <=> at[c] = "hold"
    PROVE  Counted'
<1>1. \A p \in Procs : Holders(p)' = Holders(p)
  BY DEF Holders
<1> QED
  BY <1>1 DEF Counted

\* The same for one process, if the others' entries and calls stay as they are.
LEMMA CountedElsewhere ==
    ASSUME TypeOK, Counted, NEW p \in Procs,
           \A q \in Procs \ {p} : held'[q] = held[q],
           \A c \in Callers : proc[c] # p =>
               (at'[c] = "hold" <=> at[c] = "hold") /\ lease'[c] = lease[c],
           held'[p] # None =>
               IsFiniteSet(Holders(p)') /\ held'[p].count = Cardinality(Holders(p)')
    PROVE  Counted'
<1>1. \A q \in Procs \ {p} : Holders(q)' = Holders(q)
  BY DEF Holders
<1>2. \A q \in Procs : held'[q] # None =>
         IsFiniteSet(Holders(q)') /\ held'[q].count = Cardinality(Holders(q)')
  BY <1>1 DEF Counted
<1> QED
  BY <1>2 DEF Counted

\* Troubles and disputes are not undone.
LEMMA DisputesStay ==
    ASSUME IInv, [Next]_vars, Undisputed'
    PROVE  Undisputed
<1>1. troubles \in Nat /\ disputed \in BOOLEAN
  BY BoundsAssumption DEF IInv, TypeOK
<1>2. troubles' = troubles \/ troubles' = troubles + 1
  BY DEF Next, vars, Trouble, Start, Open, GiveUp, Write, WriteFails, Enter, Read, Judge,
     Stat, Reclaim, SweepList, SweepJudge, Release, Remove, Ages, Watchdog, SignalSurvived,
     Exits, Crashes, Ends, Begins
<1>3. disputed' = disputed \/ disputed' = (disputed \/ TRUE) \/ disputed' = TRUE
  BY <1>1 DEF Next, vars, Start, Open, GiveUp, Write, WriteFails, Enter, Read, Judge,
     Stat, Reclaim, SweepList, SweepJudge, Release, Remove, Ages, Watchdog, SignalSurvived,
     Exits, Crashes, Ends, Begins, RemoveFile, ReleaseAll
<1> QED
  BY <1>1, <1>2, <1>3 DEF Undisputed

\* The maker of an entry is one of the calls.
LEMMA HeldByCall ==
    ASSUME TypeOK
    PROVE  \A p \in Procs : held[p] # None => held[p] \in HeldLock /\ held[p].by \in Callers
BY DEF TypeOK, HeldLock

\* Calls go forward: what was made stays made, whatever else a call does, as long as
\* nobody begins to hold a lock.
LEMMA MadeKept ==
    ASSUME TypeOK, TypeOK', Made, lease' = lease,
           \A p \in Procs : held'[p] \in {held[p], None},
           \A c \in Callers : at[c] # "start" => at'[c] # "start",
           \A c \in Callers : at[c] \in {"hold", "over"} => at'[c] \in {"hold", "over"},
           \A c \in Callers : at'[c] = "hold" => at[c] = "hold",
           file' \in {file, None} \/ at'[file'] # "start",
           \A o \in written' : o \in written \/ at'[o] # "start",
           \A c \in Callers : seen'[c] \in {seen[c], None, file},
           \A o \in releasing' : o \in releasing \/
               (at'[o] \in {"hold", "over"} /\ (held'[proc[o]] # None => held'[proc[o]].by # o)),
           troubles' = 0 => troubles = 0 /\ old' = old
    PROVE  Made'
<1>1. \A p \in Procs : held[p] # None => held[p].by \in Callers
  BY HeldByCall
<1>2. /\ lease \in [Callers -> Callers] /\ proc \in [Callers -> Procs]
      /\ seen \in [Callers -> Callers \cup {None}]
      /\ written \subseteq Callers /\ releasing \subseteq Callers /\ file \in Callers \cup {None}
  BY CallersAssumption DEF TypeOK
<1>3. file' # None => at'[file'] # "start"
  BY <1>2 DEF Made
<1>4. \A o \in written' : at'[o] # "start"
  BY <1>2 DEF Made
<1>5. \A c \in Callers : seen'[c] # None => at'[seen'[c]] # "start"
  BY <1>2 DEF Made
<1>6. \A p \in Procs : held'[p] # None =>
         proc[held'[p].by] = p /\ at'[held'[p].by] \in {"hold", "over"}
  BY <1>1 DEF Made
<1>7. \A o \in releasing' : at'[o] \in {"hold", "over"}
  BY <1>2 DEF Made
<1>8. \A o \in releasing' : held'[proc[o]] # None => held'[proc[o]].by # o
  BY <1>2 DEF Made
<1>9. \A c \in Callers : at'[c] \notin {"hold", "over"} => lease'[c] = c
  BY DEF Made
<1>10. \A c \in Callers : at'[c] = "hold" =>
          proc[lease'[c]] = proc[c] /\ at'[lease'[c]] \in {"hold", "over"}
  BY <1>2 DEF Made
<1>11. troubles' = 0 => old' = {}
  BY DEF Made
<1> QED
  BY <1>3, <1>4, <1>5, <1>6, <1>7, <1>8, <1>9, <1>10, <1>11 DEF Made

\* While nothing is disputed, a free path means that nobody holds or releases a lock.
LEMMA FreeMeansUnheld ==
    ASSUME TypeOK, Agreed, file = None
    PROVE  /\ \A c \in Callers : at[c] \notin {"write", "enter", "hold"}
           /\ \A p \in Procs : held[p] = None
           /\ releasing = {}
<1>1. \A p \in Procs : held[p] = None
  BY HeldByCall, NoneAssumption DEF Agreed
<1>2. \A c \in Callers : at[c] \notin {"write", "enter", "hold"}
  BY <1>1, NoneAssumption, CallersAssumption DEF Agreed
<1>3. releasing = {}
  BY NoneAssumption DEF Agreed, TypeOK
<1> QED
  BY <1>1, <1>2, <1>3

-----------------------------------------------------------------------------
(* Each action keeps the invariant *)

USE DEF IInv, Alive, Goes

\* A trouble is counted, and what is left of the invariant does not depend on luck.
LEMMA TroubleCounts ==
    ASSUME IInv, Trouble
    PROVE  troubles' \in 0 .. MaxTroubles /\ troubles' # 0 /\ ~ Undisputed'
BY BoundsAssumption DEF TypeOK, Trouble, Undisputed

\* A re-entrant call joins the entry its process has, and is counted there.
LEMMA StartKeeps ==
    ASSUME IInv, Undisputed' => Undisputed, NEW c \in Callers, Start(c)
    PROVE  IInv'
<1> DEFINE p == proc[c]
<1>1. p \in Procs /\ c # None
  BY CallersAssumption, NoneAssumption
<1>2. CASE c \in Reentrant /\ held[p] # None
  <2>1. held[p] \in HeldLock
    BY <1>1, <1>2 DEF TypeOK
  <2>2. /\ held' = [held EXCEPT ![p] = [held[p] EXCEPT !.count = @ + 1]]
        /\ lease' = [lease EXCEPT ![c] = held[p].by]
        /\ at' = [at EXCEPT ![c] = "hold"]
        /\ at[c] = "start"
    BY <1>2 DEF Start
  <2>3. /\ held'[p] \in HeldLock
        /\ held'[p].by = held[p].by
        /\ held'[p].count = held[p].count + 1
    BY <2>1, <2>2, <1>1 DEF TypeOK, HeldLock
  <2>4. TypeOK'
    BY <2>1, <2>2, <2>3, <1>1 DEF TypeOK, Start, Stages, HeldLock
  <2>5. held'[p] # None
    BY <2>3, NoneAssumption
  <2>6. Counted'
    <3>1. Holders(p)' = Holders(p) \cup {c} /\ c \notin Holders(p)
      BY <2>2, <2>3, <1>1 DEF Holders, TypeOK
    <3>2. IsFiniteSet(Holders(p)) /\ held[p].count = Cardinality(Holders(p))
      BY <1>1, <1>2 DEF Counted
    <3>3. IsFiniteSet(Holders(p)') /\ Cardinality(Holders(p)') = Cardinality(Holders(p)) + 1
      BY <3>1, <3>2, FS_AddElement
    <3>4. \A q \in Procs \ {p} : held'[q] = held[q]
      BY <2>2 DEF TypeOK
    <3>5. \A d \in Callers : proc[d] # p =>
             (at'[d] = "hold" <=> at[d] = "hold") /\ lease'[d] = lease[d]
      BY <2>2 DEF TypeOK
    <3> QED
      BY <3>2, <3>3, <3>4, <3>5, <2>3, <1>1, CountedElsewhere
  <2>7. Living'
    BY <2>2, <2>4, <1>1 DEF Living, Start, TypeOK
  <2>8. Made'
    BY <2>2, <2>3, <2>5, <1>1, <1>2 DEF Made, Start, TypeOK
  <2>9. Undisputed' => Agreed'
    BY <2>2, <2>3, <2>5, <1>1, <1>2 DEF Agreed, NothingLeaked, Start, TypeOK
  <2> QED
    BY <2>4, <2>6, <2>7, <2>8, <2>9
<1>3. CASE ~ (c \in Reentrant /\ held[p] # None)
  <2>1. /\ at' = [at EXCEPT ![c] = "open"]
        /\ UNCHANGED <<life, file, written, old, held, seen, lease, releasing, disputed, troubles>>
        /\ at[c] = "start" /\ Alive(p)
    BY <1>3 DEF Start
  <2>2. TypeOK'
    BY <2>1 DEF TypeOK, Stages
  <2>3. Counted'
    BY <2>1, CountedKept DEF TypeOK
  <2>4. Living' /\ Made'
    BY <2>1 DEF Living, Made, TypeOK
  <2>5. Undisputed' => Agreed'
    BY <2>1 DEF Agreed, NothingLeaked, TypeOK
  <2> QED
    BY <2>2, <2>3, <2>4, <2>5
<1> QED
  BY <1>2, <1>3

\* open(lockPath, "wx") succeeds only while nobody holds or releases a lock.
LEMMA OpenKeeps ==
    ASSUME IInv, Undisputed' => Undisputed, NEW c \in Callers, Open(c)
    PROVE  IInv'
<1>1. c # None
  BY NoneAssumption
<1>2. TypeOK'
  BY DEF Open, TypeOK, Stages
<1>3. Counted'
  BY CountedKept DEF Open, TypeOK
<1>4. Living'
  BY DEF Open, Living, TypeOK
<1>5. Made'
  BY <1>1, <1>2, MadeKept DEF Open, TypeOK
<1>6. ASSUME Undisputed' PROVE Agreed'
  <2>1. Agreed
    BY <1>6
  <2>2. CASE file = None
    BY <2>1, <2>2, FreeMeansUnheld DEF Open, Agreed, NothingLeaked, TypeOK
  <2>3. CASE file # None
    BY <2>1, <2>3 DEF Open, Agreed, NothingLeaked, TypeOK
  <2> QED
    BY <2>2, <2>3
<1> QED
  BY <1>2, <1>3, <1>4, <1>5, <1>6

\* Giving up, writing the payload and listing a lock file touch no lock.
LEMMA CallsKeep ==
    ASSUME IInv, Undisputed' => Undisputed, NEW c \in Callers,
           GiveUp(c) \/ Write(c) \/ SweepList(c)
    PROVE  IInv'
<1>1. TypeOK'
  BY DEF GiveUp, Write, SweepList, TypeOK, Stages
<1>2. Counted'
  BY CountedKept DEF GiveUp, Write, SweepList, TypeOK
<1>3. Living'
  BY DEF GiveUp, Write, SweepList, Living, TypeOK
<1>4. Made'
  BY <1>1, MadeKept DEF GiveUp, Write, SweepList, TypeOK
<1>5. ASSUME Undisputed' PROVE Agreed'
  <2>1. CASE GiveUp(c)
    BY <1>5, <2>1 DEF GiveUp, Agreed, NothingLeaked, TypeOK
  <2>2. CASE Write(c)
    BY <1>5, <2>2 DEF Write, Agreed, NothingLeaked, TypeOK
  <2>3. CASE SweepList(c)
    BY <1>5, <2>3 DEF SweepList, Agreed, NothingLeaked, TypeOK
  <2> QED
    BY <2>1, <2>2, <2>3
<1> QED
  BY <1>1, <1>2, <1>3, <1>4, <1>5

\* A lock whose payload could not be written was never held.
LEMMA WriteFailsKeeps ==
    ASSUME IInv, NEW c \in Callers, WriteFails(c)
    PROVE  IInv'
<1>1. troubles' \in 0 .. MaxTroubles /\ troubles' # 0 /\ ~ Undisputed'
  BY TroubleCounts DEF WriteFails
<1>2. TypeOK'
  BY <1>1 DEF WriteFails, TypeOK, Stages
<1>3. Counted'
  BY CountedKept DEF WriteFails, TypeOK
<1>4. Living'
  BY CallersAssumption DEF WriteFails, Living, TypeOK
<1>5. Made'
  <2>1. held[proc[c]] # None => held[proc[c]].by # c
    BY CallersAssumption DEF Made, WriteFails
  <2> QED
    BY <1>1, <1>2, <2>1, MadeKept DEF WriteFails, TypeOK
<1> QED
  BY <1>1, <1>2, <1>3, <1>4, <1>5

\* What a call reads is a lock that was made.
LEMMA ReadKeeps ==
    ASSUME IInv, Undisputed' => Undisputed, NEW c \in Callers, Read(c)
    PROVE  IInv'
<1>1. /\ seen' \in [Callers -> Callers \cup {None}]
      /\ \A d \in Callers : seen'[d] \in {seen[d], None} \/ seen'[d] \in written
      /\ \A d \in Callers : d # c => seen'[d] = seen[d]
      /\ at[c] = "read" /\ at' = [at EXCEPT ![c] = "judge"]
      /\ UNCHANGED <<life, file, written, old, held, lease, releasing, disputed>>
  BY DEF Read, TypeOK
<1>2. troubles' = troubles \/ (troubles' \in 0 .. MaxTroubles /\ troubles' # 0)
  BY TroubleCounts DEF Read
<1>3. TypeOK'
  BY <1>1, <1>2 DEF TypeOK, Stages
<1>4. Counted'
  BY <1>1, CountedKept DEF TypeOK
<1>5. Living'
  BY <1>1 DEF Living, TypeOK
<1>6. Made'
  BY <1>1, <1>2 DEF Made, TypeOK
<1>7. Undisputed' => Agreed'
  BY <1>1 DEF Agreed, NothingLeaked, TypeOK
<1> QED
  BY <1>3, <1>4, <1>5, <1>6, <1>7

\* A lock that is judged stale before anything went wrong has lost its process.
LEMMA StaleIsDead ==
    ASSUME TypeOK, Living, Made, Undisputed, NEW c \in Callers, seen[c] # None, Stale(c)
    PROVE  life[proc[seen[c]]] = "dead"
<1>1. seen[c] \in Callers /\ proc[seen[c]] \in Procs
  BY CallersAssumption DEF TypeOK
<1>2. old = {} /\ StartTimes
  BY DEF Made, Undisputed
<1>3. ~ Alive(proc[seen[c]])
  BY <1>1, <1>2 DEF Stale
<1>4. life[proc[seen[c]]] # "unborn"
  BY <1>1 DEF Living, Made
<1> QED
  BY <1>1, <1>3, <1>4 DEF TypeOK

\* Judging a payload: the call comes to reclaim a lock only if its process is dead.
LEMMA JudgeKeeps ==
    ASSUME IInv, Undisputed' => Undisputed, NEW c \in Callers, Judge(c) \/ SweepJudge(c)
    PROVE  IInv'
<1>1. /\ \E s \in {"stat", "open", "over", "reclaim"} : at' = [at EXCEPT ![c] = s]
      /\ at[c] = "judge"
      /\ at'[c] = "reclaim" => seen[c] = None \/ Stale(c)
      /\ UNCHANGED <<life, file, written, old, held, seen, lease, releasing, disputed, troubles>>
  BY DEF Judge, SweepJudge, TypeOK
<1>2. TypeOK'
  BY <1>1 DEF TypeOK, Stages
<1>3. Counted'
  BY <1>1, CountedKept DEF TypeOK
<1>4. Living'
  BY <1>1 DEF Living, TypeOK
<1>5. Made'
  BY <1>1 DEF Made, TypeOK
<1>6. ASSUME Undisputed' PROVE Agreed'
  <2>1. at'[c] = "reclaim" /\ seen[c] # None => life[proc[seen[c]]] = "dead"
    BY <1>1, <1>6, StaleIsDead
  <2> QED
    BY <1>1, <1>6, <2>1 DEF Agreed, NothingLeaked, TypeOK
<1> QED
  BY <1>2, <1>3, <1>4, <1>5, <1>6

\* Without a payload nobody reclaims a lock that is young, unless looking fails.
LEMMA StatKeeps ==
    ASSUME IInv, Undisputed' => Undisputed, NEW c \in Callers, Stat(c)
    PROVE  IInv'
<1>1. /\ \E s \in {"open", "reclaim"} : at' = [at EXCEPT ![c] = s]
      /\ at[c] = "stat"
      /\ UNCHANGED <<life, file, written, old, held, seen, lease, releasing, disputed>>
  BY DEF Stat
<1>2. \/ troubles' = troubles /\ (at'[c] = "reclaim" => file \in old)
      \/ troubles' \in 0 .. MaxTroubles /\ troubles' # 0 /\ ~ Undisputed'
  BY TroubleCounts DEF Stat, TypeOK
<1>3. TypeOK'
  BY <1>1, <1>2 DEF TypeOK, Stages
<1>4. Counted'
  BY <1>1, CountedKept DEF TypeOK
<1>5. Living'
  BY <1>1 DEF Living, TypeOK
<1>6. Made'
  BY <1>1, <1>2 DEF Made, TypeOK
<1>7. ASSUME Undisputed' PROVE Agreed'
  <2>1. old = {}
    BY <1>7 DEF Made, Undisputed
  <2>2. at'[c] # "reclaim"
    BY <1>2, <1>7, <2>1
  <2> QED
    BY <1>1, <1>7, <2>2 DEF Agreed, NothingLeaked, TypeOK
<1> QED
  BY <1>3, <1>4, <1>5, <1>6, <1>7

\* A contender that removes the lock it judged takes it from nobody.
LEMMA ReclaimKeeps ==
    ASSUME IInv, Undisputed' => Undisputed, NEW c \in Callers, Reclaim(c)
    PROVE  IInv'
<1>1. /\ \E s \in {"open", "over"} : at' = [at EXCEPT ![c] = s]
      /\ at[c] = "reclaim"
      /\ UNCHANGED <<life, written, old, held, seen, lease, releasing>>
  BY DEF Reclaim
<1>2. \/ RemoveFile(seen[c]) /\ troubles' = troubles
      \/ /\ troubles' \in 0 .. MaxTroubles /\ troubles' # 0 /\ ~ Undisputed'
         /\ UNCHANGED <<file, disputed>>
  BY TroubleCounts DEF Reclaim
<1>3. file' \in {file, None} /\ disputed' \in BOOLEAN
  BY <1>2 DEF RemoveFile, TypeOK
<1>4. TypeOK'
  BY <1>1, <1>2, <1>3 DEF TypeOK, Stages
<1>5. Counted'
  BY <1>1, CountedKept DEF TypeOK
<1>6. Living'
  BY <1>1 DEF Living, TypeOK
<1>7. Made'
  BY <1>1, <1>2, <1>3, <1>4, MadeKept DEF TypeOK
<1>8. ASSUME Undisputed' PROVE Agreed'
  <2>1. /\ Agreed /\ file' = None
        /\ file \in {seen[c], None}
    BY <1>2, <1>8 DEF RemoveFile, Undisputed
  <2>2. /\ \A d \in Callers : at[d] \notin {"write", "enter", "hold"}
        /\ \A p \in Procs : held[p] = None
        /\ releasing = {}
    <3>1. CASE file = None
      BY <2>1, <3>1, FreeMeansUnheld
    <3>2. CASE file # None
      <4>1. file = seen[c] /\ file \in Callers /\ life[proc[file]] = "dead"
        BY <1>1, <2>1, <3>2 DEF Agreed, TypeOK
      <4>2. \A p \in Procs : held[p] = None
        BY <2>1, <4>1 DEF Agreed, Living, Made
      <4>3. \A d \in Callers : at[d] \notin {"write", "enter", "hold"}
        BY <2>1, <4>1, <4>2, CallersAssumption DEF Agreed, Living
      <4>4. releasing = {}
        BY <2>1, <4>1 DEF Agreed, Living
      <4> QED
        BY <4>2, <4>3, <4>4
    <3> QED
      BY <3>1, <3>2
  <2> QED
    BY <1>1, <2>1, <2>2 DEF Agreed, NothingLeaked, TypeOK
<1> QED
  BY <1>4, <1>5, <1>6, <1>7, <1>8

\* The HeldLock a call enters is new, and it is its only holder.
LEMMA EnterKeeps ==
    ASSUME IInv, Undisputed' => Undisputed, NEW c \in Callers, Enter(c)
    PROVE  IInv'
<1> DEFINE p == proc[c]
<1>1. p \in Procs /\ c # None
  BY CallersAssumption, NoneAssumption
<1>2. /\ held' = [held EXCEPT ![p] = [by |-> c, count |-> 1]]
      /\ at' = [at EXCEPT ![c] = "hold"] /\ at[c] = "enter"
      /\ UNCHANGED <<life, file, written, old, seen, lease, releasing, disputed, troubles>>
  BY DEF Enter
<1>3. [by |-> c, count |-> 1] \in HeldLock
  BY DEF HeldLock
<1>4. /\ held'[p] = [by |-> c, count |-> 1] /\ held'[p].by = c /\ held'[p].count = 1
      /\ held'[p] # None
      /\ \A q \in Procs \ {p} : held'[q] = held[q]
  BY <1>1, <1>2, <1>3, NoneAssumption DEF TypeOK
<1>5. TypeOK'
  BY <1>2, <1>3, <1>1 DEF TypeOK, Stages
<1>6. \A d \in Callers : at[d] = "hold" => lease[d] # c
  BY <1>2 DEF Made
<1>7. lease[c] = c
  BY <1>2 DEF Made
<1>8. Counted'
  <2>1. Holders(p)' = {c}
    BY <1>2, <1>4, <1>6, <1>7 DEF Holders, TypeOK
  <2>2. IsFiniteSet(Holders(p)') /\ Cardinality(Holders(p)') = 1
    BY <2>1, FS_Singleton
  <2>3. \A d \in Callers : proc[d] # p =>
           (at'[d] = "hold" <=> at[d] = "hold") /\ lease'[d] = lease[d]
    BY <1>2 DEF TypeOK
  <2> QED
    BY <2>2, <2>3, <1>1, <1>4, CountedElsewhere
<1>9. Living'
  BY <1>1, <1>2, <1>4, <1>5 DEF Living, TypeOK
<1>10. Made'
  <2>1. \A q \in Procs : held[q] # None => held[q].by \in Callers
    BY HeldByCall
  <2> QED
    BY <2>1, <1>1, <1>2, <1>4, <1>7, CallersAssumption DEF Made, TypeOK
<1>11. ASSUME Undisputed' PROVE Agreed'
  <2>1. Agreed /\ file = c
    BY <1>2, <1>11 DEF Agreed
  <2>2. \A q \in Procs : held[q] = None
    BY <1>2, <2>1 DEF Agreed, Made
  <2>3. \A d \in Callers : at[d] # "hold"
    BY <2>1, <2>2, CallersAssumption DEF Agreed
  <2> QED
    BY <1>1, <1>2, <1>4, <1>7, <2>1, <2>2, <2>3 DEF Agreed, NothingLeaked, TypeOK
<1> QED
  BY <1>5, <1>8, <1>9, <1>10, <1>11

\* The process that removes the file of a lock it released takes it from nobody.
LEMMA RemoveKeeps ==
    ASSUME IInv, Undisputed' => Undisputed, NEW o \in Callers, Remove(o)
    PROVE  IInv'
<1>1. /\ o \in releasing /\ releasing' = releasing \ {o}
      /\ UNCHANGED <<life, written, old, held, at, seen, lease>>
  BY DEF Remove
<1>2. \/ RemoveFile(o) /\ troubles' = troubles
      \/ /\ troubles' \in 0 .. MaxTroubles /\ troubles' # 0 /\ ~ Undisputed'
         /\ UNCHANGED <<file, disputed>>
  BY TroubleCounts DEF Remove
<1>3. file' \in {file, None} /\ disputed' \in BOOLEAN
  BY <1>2 DEF RemoveFile, TypeOK
<1>4. TypeOK'
  BY <1>1, <1>2, <1>3 DEF TypeOK
<1>5. Counted'
  BY <1>1, CountedKept DEF TypeOK
<1>6. Living'
  BY <1>1 DEF Living
<1>7. Made'
  BY <1>1, <1>2, <1>3, <1>4, MadeKept
<1>8. ASSUME Undisputed' PROVE Agreed'
  <2>1. Agreed /\ file = o /\ file' = None
    BY <1>1, <1>2, <1>8 DEF Agreed, RemoveFile
  <2>2. at[o] \in {"hold", "over"} /\ (held[proc[o]] # None => held[proc[o]].by # o)
    BY <1>1 DEF Made
  <2>3. \A q \in Procs : held[q] = None
    BY <2>1, <2>2 DEF Agreed, Made
  <2>4. \A d \in Callers : at[d] \notin {"write", "enter", "hold"}
    BY <2>1, <2>2, <2>3, CallersAssumption DEF Agreed
  <2>5. releasing' = {}
    BY <1>1, <2>1 DEF Agreed
  <2> QED
    BY <1>1, <2>1, <2>3, <2>4, <2>5 DEF Agreed, NothingLeaked
<1> QED
  BY <1>4, <1>5, <1>6, <1>7, <1>8

\* A lock that is taken out of HELD_LOCKS by force counts as a trouble.
LEMMA ForcedKeeps ==
    ASSUME IInv, NEW p \in Procs, Watchdog(p) \/ SignalSurvived(p)
    PROVE  IInv'
<1>1. troubles' \in 0 .. MaxTroubles /\ troubles' # 0 /\ ~ Undisputed'
  BY TroubleCounts DEF Watchdog, SignalSurvived
<1>2. /\ held[p] # None /\ held' = [held EXCEPT ![p] = None]
      /\ releasing' \in {releasing, releasing \cup {held[p].by}}
      /\ file' \in {file, None} /\ disputed' \in BOOLEAN
      /\ UNCHANGED <<life, written, old, at, seen, lease>>
  BY DEF Watchdog, SignalSurvived, ReleaseAll, RemoveFile, TypeOK
<1>3. held[p].by \in Callers /\ proc[held[p].by] = p /\ at[held[p].by] \in {"hold", "over"}
  BY <1>2, HeldByCall DEF Made
<1>4. held'[p] = None /\ \A q \in Procs \ {p} : held'[q] = held[q]
  BY <1>2 DEF TypeOK
<1>5. TypeOK'
  BY <1>1, <1>2, <1>3 DEF TypeOK
<1>6. Counted'
  BY <1>2, <1>4, CountedElsewhere
<1>7. Living'
  BY <1>2, <1>3, <1>4 DEF Living
<1>8. Made'
  BY <1>1, <1>2, <1>3, <1>4, <1>5, MadeKept
<1> QED
  BY <1>1, <1>5, <1>6, <1>7, <1>8

\* A release that is not the last one takes one holder away; the last one leaves none.
LEMMA ReleaseKeeps ==
    ASSUME IInv, Undisputed' => Undisputed, NEW c \in Callers, Release(c)
    PROVE  IInv'
<1> DEFINE p == proc[c]
<1>1. p \in Procs /\ c # None
  BY CallersAssumption, NoneAssumption
<1>2. /\ at[c] = "hold" /\ at' = [at EXCEPT ![c] = "over"]
      /\ UNCHANGED <<life, file, written, old, seen, lease, disputed, troubles>>
  BY DEF Release
<1>3. ASSUME held[p] # None, held[p].by = lease[c] PROVE IInv'
  <2>1. /\ held[p] \in HeldLock /\ held[p].by \in Callers /\ held[p].count \in Nat \ {0}
        /\ proc[held[p].by] = p /\ at[held[p].by] \in {"hold", "over"}
    BY <1>1, <1>3 DEF TypeOK, HeldLock, Made
  <2>2. /\ IsFiniteSet(Holders(p)) /\ held[p].count = Cardinality(Holders(p))
        /\ c \in Holders(p)
    BY <1>1, <1>2, <1>3 DEF Counted, Holders
  <2>3. CASE held[p].count > 1
    <3>1. /\ held' = [held EXCEPT ![p] = [held[p] EXCEPT !.count = @ - 1]]
          /\ releasing' = releasing
      BY <1>3, <2>3 DEF Release
    <3>2. /\ held'[p] \in HeldLock /\ held'[p].by = held[p].by
          /\ held'[p].count = held[p].count - 1
          /\ held'[p] # None
          /\ \A q \in Procs \ {p} : held'[q] = held[q]
      BY <1>1, <2>1, <2>3, <3>1, NoneAssumption DEF TypeOK, HeldLock
    <3>3. TypeOK'
      BY <1>2, <2>1, <3>1, <3>2 DEF TypeOK, Stages
    <3>4. Counted'
      <4>1. Holders(p)' = Holders(p) \ {c}
        BY <1>2, <3>2 DEF Holders, TypeOK
      <4>2. /\ IsFiniteSet(Holders(p)')
            /\ Cardinality(Holders(p)') = Cardinality(Holders(p)) - 1
        BY <2>2, <4>1, FS_RemoveElement
      <4>3. \A d \in Callers : proc[d] # p =>
               (at'[d] = "hold" <=> at[d] = "hold") /\ lease'[d] = lease[d]
        BY <1>2 DEF TypeOK
      <4> QED
        BY <2>2, <3>2, <4>2, <4>3, <1>1, CountedElsewhere
    <3>5. Living'
      BY <1>1, <1>2, <1>3, <3>1, <3>2 DEF Living, TypeOK
    <3>6. Made'
      <4>1. \A q \in Procs : held[q] # None => held[q].by \in Callers
        BY HeldByCall
      <4> QED
        BY <4>1, <1>1, <1>2, <1>3, <2>1, <3>1, <3>2, CallersAssumption DEF Made, TypeOK
    <3>7. Undisputed' => Agreed'
      BY <1>1, <1>2, <1>3, <3>1, <3>2 DEF Agreed, NothingLeaked, TypeOK
    <3> QED
      BY <3>3, <3>4, <3>5, <3>6, <3>7
  <2>4. CASE ~ (held[p].count > 1)
    <3>1. /\ held' = [held EXCEPT ![p] = None]
          /\ releasing' = releasing \cup {held[p].by}
      BY <1>3, <2>4 DEF Release
    <3>2. held'[p] = None /\ \A q \in Procs \ {p} : held'[q] = held[q]
      BY <1>1, <3>1 DEF TypeOK
    <3>3. TypeOK'
      BY <1>2, <2>1, <3>1 DEF TypeOK, Stages
    <3>4. \A d \in Callers : proc[d] # p =>
             (at'[d] = "hold" <=> at[d] = "hold") /\ lease'[d] = lease[d]
      BY <1>2 DEF TypeOK
    <3>5. Counted'
      BY <3>2, <3>4, <1>1, CountedElsewhere
    <3>6. Living'
      BY <1>1, <1>2, <1>3, <2>1, <3>1, <3>2 DEF Living, TypeOK
    <3>7. Made'
      BY <1>1, <1>2, <2>1, <3>1, <3>2, <3>3, MadeKept DEF TypeOK
    <3>8. ASSUME Undisputed' PROVE Agreed'
      <4>1. Agreed /\ file = held[p].by
        BY <1>1, <1>3, <3>8 DEF Agreed
      <4>2. Cardinality(Holders(p)) = 1
        BY <2>1, <2>2, <2>4
      <4>3. Cardinality(Holders(p) \ {c}) = 0 /\ IsFiniteSet(Holders(p) \ {c})
        BY <2>2, <4>2, FS_RemoveElement
      <4>4. Holders(p) \ {c} = {}
        BY <4>3, FS_EmptySet
      <4>5. \A d \in Callers : proc[d] = p /\ at[d] = "hold" => d = c
        BY <4>1, <4>4 DEF Agreed, Holders
      <4> QED
        BY <1>1, <1>2, <2>1, <3>1, <3>2, <4>1, <4>5 DEF Agreed, NothingLeaked, TypeOK
    <3> QED
      BY <3>3, <3>5, <3>6, <3>7, <3>8
  <2> QED
    BY <2>3, <2>4
<1>4. ASSUME ~ (held[p] # None /\ held[p].by = lease[c]) PROVE IInv'
  <2>1. UNCHANGED <<held, releasing>>
    BY <1>4 DEF Release
  <2>2. TypeOK'
    BY <1>2, <2>1 DEF TypeOK, Stages
  <2>3. Counted'
    <3>1. held[p] # None => Holders(p)' = Holders(p)
      BY <1>2, <1>4, <2>1 DEF Holders, TypeOK
    <3>2. \A d \in Callers : proc[d] # p =>
             (at'[d] = "hold" <=> at[d] = "hold") /\ lease'[d] = lease[d]
      BY <1>2 DEF TypeOK
    <3>3. held'[p] # None =>
             IsFiniteSet(Holders(p)') /\ held'[p].count = Cardinality(Holders(p)')
      BY <1>1, <2>1, <3>1 DEF Counted
    <3> QED
      BY <1>1, <2>1, <3>2, <3>3, CountedElsewhere
  <2>4. Living'
    BY <1>2, <2>1 DEF Living, TypeOK
  <2>5. Made'
    BY <1>2, <2>1, <2>2, MadeKept DEF TypeOK
  <2>6. Undisputed' => Agreed'
    BY <1>2, <2>1 DEF Agreed, NothingLeaked, TypeOK
  <2> QED
    BY <2>2, <2>3, <2>4, <2>5, <2>6
<1> QED
  BY <1>3, <1>4

\* A process that ends takes its own calls and locks with it, and no others.
LEMMA EndKeeps ==
    ASSUME IInv, Undisputed' => Undisputed, NEW p \in Procs, Exits(p) \/ Crashes(p)
    PROVE  IInv'
<1>1. /\ Alive(p) /\ life' = [life EXCEPT ![p] = "dead"]
      /\ at' = [c \in Callers |-> IF proc[c] = p THEN "over" ELSE at[c]]
      /\ releasing' = {o \in releasing : proc[o] # p}
      /\ held' = [held EXCEPT ![p] = None]
      /\ UNCHANGED <<written, old, seen, lease, troubles>>
  BY DEF Exits, Crashes, Ends, ReleaseAll
<1>2. \/ UNCHANGED <<file, disputed>>
      \/ held[p] # None /\ RemoveFile(held[p].by)
  BY DEF Exits, Crashes, ReleaseAll
<1>3. file' \in {file, None} /\ disputed' \in BOOLEAN
  BY <1>2 DEF RemoveFile, TypeOK
<1>4. held'[p] = None /\ \A q \in Procs \ {p} : held'[q] = held[q]
  BY <1>1 DEF TypeOK
<1>5. /\ life'[p] = "dead" /\ \A q \in Procs \ {p} : life'[q] = life[q]
      /\ \A c \in Callers : at'[c] = IF proc[c] = p THEN "over" ELSE at[c]
  BY <1>1 DEF TypeOK
<1>6. TypeOK'
  BY <1>1, <1>3 DEF TypeOK, Stages
<1>7. Counted'
  BY <1>1, <1>4, <1>5, CountedElsewhere
<1>8. Living'
  BY <1>1, <1>4, <1>5, CallersAssumption DEF Living, TypeOK
<1>9. Made'
  BY <1>1, <1>3, <1>4, <1>5, <1>6, MadeKept
<1>10. ASSUME Undisputed' PROVE Agreed'
  <2>1. Agreed
    BY <1>10
  <2>2. CASE UNCHANGED <<file, disputed>>
    BY <1>1, <1>4, <1>5, <2>1, <2>2, CallersAssumption DEF Agreed, NothingLeaked, TypeOK
  <2>3. CASE held[p] # None /\ RemoveFile(held[p].by)
    <3>1. /\ file' = None /\ file = held[p].by /\ proc[held[p].by] = p
          /\ at[held[p].by] \in {"hold", "over"}
      BY <2>1, <2>3 DEF Agreed, Made, RemoveFile
    <3>2. \A q \in Procs : held'[q] = None
      BY <1>4, <2>1, <3>1 DEF Agreed, Made
    <3>3. \A c \in Callers : at'[c] \notin {"write", "enter", "hold"}
      BY <1>4, <1>5, <2>1, <3>1, <3>2, CallersAssumption DEF Agreed
    <3>4. releasing' = {}
      BY <1>1, <2>1, <3>1 DEF Agreed
    <3>5. \A c \in Callers : at'[c] = "reclaim" /\ seen'[c] # None => life'[proc[seen'[c]]] = "dead"
      BY <1>1, <1>5, <2>1, CallersAssumption DEF Agreed, TypeOK
    <3> QED
      BY <3>1, <3>2, <3>3, <3>4, <3>5 DEF Agreed, NothingLeaked
  <2> QED
    BY <1>2, <2>2, <2>3
<1> QED
  BY <1>6, <1>7, <1>8, <1>9, <1>10

\* A process that begins has made no lock yet, so it revives none.
LEMMA BeginsKeeps ==
    ASSUME IInv, Undisputed' => Undisputed, NEW p \in Procs, Begins(p)
    PROVE  IInv'
<1>1. /\ life[p] = "unborn" /\ life' = [life EXCEPT ![p] = "alive"]
      /\ UNCHANGED <<file, written, old, held, at, seen, lease, releasing, disputed, troubles>>
  BY DEF Begins
<1>2. TypeOK'
  BY <1>1 DEF TypeOK
<1>3. Counted'
  BY <1>1, CountedKept
<1>4. Living'
  BY <1>1, CallersAssumption DEF Living, TypeOK
<1>5. Made'
  BY <1>1 DEF Made
<1>6. ASSUME Undisputed' PROVE Agreed'
  <2>1. Agreed
    BY <1>6
  <2>2. file # None => life[proc[file]] # "unborn" /\ proc[file] \in Procs
    BY CallersAssumption DEF Made, Living, TypeOK
  <2> QED
    BY <1>1, <2>1, <2>2, CallersAssumption DEF Agreed, NothingLeaked, TypeOK
<1> QED
  BY <1>2, <1>3, <1>4, <1>5, <1>6

\* An old lock counts as a trouble.
LEMMA AgesKeeps ==
    ASSUME IInv, NEW o \in Callers, Ages(o)
    PROVE  IInv'
<1>1. troubles' \in 0 .. MaxTroubles /\ troubles' # 0 /\ ~ Undisputed'
  BY TroubleCounts DEF Ages
<1>2. old' = old \cup {o} /\ UNCHANGED <<life, file, written, held, at, seen, lease, releasing, disputed>>
  BY DEF Ages
<1>3. TypeOK'
  BY <1>1, <1>2 DEF TypeOK
<1>4. Counted'
  BY <1>2, CountedKept
<1>5. Living' /\ Made'
  BY <1>1, <1>2 DEF Living, Made
<1> QED
  BY <1>1, <1>3, <1>4, <1>5

-----------------------------------------------------------------------------
(* The invariant and what follows from it *)

\* No call has made, held or released a lock when the processes start.
LEMMA InitIInv == ASSUME Init PROVE IInv
<1>1. TypeOK
  <2>1. troubles = 0 /\ disputed = FALSE
    BY DEF Init
  <2>2. troubles \in 0 .. MaxTroubles /\ disputed \in BOOLEAN
    <3>1. MaxTroubles \in Nat
      BY BoundsAssumption
    <3>2. troubles \in 0 .. MaxTroubles
      BY <2>1, <3>1
    <3> QED
      BY <2>1, <3>2
  <2>3. life \in [Procs -> {"unborn", "alive", "dead"}] /\ at \in [Callers -> Stages]
    BY DEF Init, Stages
  <2>4. held \in [Procs -> HeldLock \cup {None}]
    BY DEF Init
  <2>5. seen \in [Callers -> Callers \cup {None}] /\ lease \in [Callers -> Callers]
    BY DEF Init
  <2>6. file \in Callers \cup {None} /\ written = {} /\ old = {} /\ releasing = {}
    BY DEF Init
  <2> QED
    BY <2>2, <2>3, <2>4, <2>5, <2>6 DEF TypeOK
<1>2. Counted /\ Living /\ Made
  BY DEF Init, Counted, Living, Made
<1>3. Agreed
  BY DEF Init, Agreed, NothingLeaked
<1> QED
  BY <1>1, <1>2, <1>3

\* A stuttering step keeps everything.
LEMMA StutterKeeps == ASSUME IInv, UNCHANGED vars PROVE IInv'
<1>1. TypeOK' /\ Living' /\ Made'
  BY DEF vars, TypeOK, Living, Made
<1>2. Counted'
  BY CountedKept DEF vars
<1>3. Undisputed' => Agreed'
  BY DEF vars, Undisputed, Agreed, NothingLeaked
<1> QED
  BY <1>1, <1>2, <1>3

\* Every step keeps the invariant, action by action.
LEMMA NextIInv == ASSUME IInv, [Next]_vars PROVE IInv'
<1>1. Undisputed' => Undisputed
  BY DisputesStay
<1> HIDE DEF IInv, Alive, Goes
<1>2. ASSUME NEW c \in Callers,
             Start(c) \/ Open(c) \/ GiveUp(c) \/ Write(c) \/ WriteFails(c) \/ Enter(c)
      PROVE  IInv'
  BY <1>1, <1>2, StartKeeps, OpenKeeps, CallsKeep, WriteFailsKeeps, EnterKeeps
<1>3. ASSUME NEW c \in Callers,
             Read(c) \/ Judge(c) \/ Stat(c) \/ Reclaim(c) \/ SweepList(c) \/ SweepJudge(c)
      PROVE  IInv'
  BY <1>1, <1>3, ReadKeeps, JudgeKeeps, StatKeeps, ReclaimKeeps, CallsKeep
<1>4. ASSUME NEW c \in Callers, Release(c) \/ Remove(c) \/ Ages(c)
      PROVE  IInv'
  BY <1>1, <1>4, ReleaseKeeps, RemoveKeeps, AgesKeeps
<1>5. ASSUME NEW p \in Procs,
             Watchdog(p) \/ SignalSurvived(p) \/ Exits(p) \/ Crashes(p) \/ Begins(p)
      PROVE  IInv'
  BY <1>1, <1>5, ForcedKeeps, EndKeeps, BeginsKeeps
<1>6. CASE UNCHANGED vars
  BY <1>6, StutterKeeps
<1> QED
  BY <1>2, <1>3, <1>4, <1>5, <1>6 DEF Next

\* In every state that is reached, counts are exact, only living processes hold or
\* release, and unless something was disputed or forced, everybody agrees on which
\* lock is at lockPath (acquireSessionWriteLock, releaseHeldLock, cleanStaleLockFiles).
THEOREM Invariance == Spec => []IInv
<1>1. Init => IInv
  BY InitIInv
<1>2. IInv /\ [Next]_vars => IInv'
  BY NextIInv
<1> QED
  BY <1>1, <1>2, PTL DEF Spec

\* Processes, calls and locks keep their types (the state of
\* acquireSessionWriteLock, HELD_LOCKS and the lock file).
THEOREM TypeCorrect == Spec => []TypeOK
<1>1. IInv => TypeOK
  OBVIOUS
<1> QED
  BY <1>1, Invariance, PTL

\* Two calls never hold different locks of one session file, whichever processes
\* die, start again with an old pid or take locks over, unless a removal by path hit
\* a lock it was not meant for or a limit was outlived.
THEOREM Exclusive == Spec => []ExclusiveIfUndisputed
<1>1. IInv => ExclusiveIfUndisputed
  <2> SUFFICES ASSUME IInv, Undisputed, NEW c \in Callers, NEW d \in Callers,
                      at[c] = "hold", at[d] = "hold"
               PROVE  lease[c] = lease[d]
    BY DEF ExclusiveIfUndisputed, Conflict
  <2> QED
    BY CallersAssumption DEF Agreed
<1> QED
  BY <1>1, Invariance, PTL

\* The count of a HeldLock is the number of calls that share it, and until the last
\* of them has released it, it stays their process's (releaseHeldLock), unless it was
\* disputed or forced.
THEOREM Shared == Spec => []SharedUntilLast
<1>1. IInv => SharedUntilLast
  BY DEF Counted, Holders, Agreed, SharedUntilLast
<1> QED
  BY <1>1, Invariance, PTL

\* A lock file that is found was made by a process that is dead, or one that is still
\* to enter it, holds it or is about to remove it.
THEOREM NoLeak == Spec => []NothingLeaked
<1>1. IInv => NothingLeaked
  BY DEF Agreed, NothingLeaked
<1> QED
  BY <1>1, Invariance, PTL

=============================================================================
