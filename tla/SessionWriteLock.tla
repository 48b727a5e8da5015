--------------------------- MODULE SessionWriteLock ---------------------------
(***************************************************************************)
(* The write lock of one session file: acquireSessionWriteLock and         *)
(* cleanStaleLockFiles (src/src/agents/session-write-lock.ts).  A lock is  *)
(* a file made with O_EXCL that names its process; within a process it is  *)
(* an entry of HELD_LOCKS that re-entrant calls share.  Whoever finds the  *)
(* file taken reads it, looks whether its process is alive, and removes it *)
(* by its path if not.                                                     *)
(*                                                                         *)
(* A call acquires once and names the lock it makes; a step is what        *)
(* happens between two awaits.  Time is left out: a wait is over, a lock   *)
(* older than staleMs and a hold longer than maxHoldMs at any moment, as   *)
(* often as the bounds allow.                                              *)
(***************************************************************************)
EXTENDS Naturals, FiniteSets

CONSTANTS
    Procs,          \* processes, each alive once
    Late,           \* processes that start later
    Callers,        \* calls of acquireSessionWriteLock or cleanStaleLockFiles
    proc,           \* the process of each call
    pid,            \* the pid of each process: one that is over may be used again
    Reentrant,      \* calls with allowReentrant
    Sweepers,       \* calls of cleanStaleLockFiles
    StartTimes,     \* whether getProcessStartTime knows start times (Linux)
    MaxTroubles,    \* bound: locks that grow older than staleMs, releases by the
                    \* watchdog or a survived signal, and file operations that fail
    None

\* An entry of HELD_LOCKS is held by somebody.
HeldLock == [by : Callers, count : Nat \ {0}]

ASSUME CallersAssumption ==
    /\ Late \subseteq Procs /\ Reentrant \subseteq Callers /\ Sweepers \subseteq Callers
    /\ proc \in [Callers -> Procs]
    /\ \A p, q \in Procs \ Late : pid[p] = pid[q] => p = q
ASSUME NoneAssumption == None \notin Callers /\ None \notin HeldLock
ASSUME BoundsAssumption ==
    /\ StartTimes \in BOOLEAN
    /\ MaxTroubles \in Nat

VARIABLES
    life,       \* of each process
    file,       \* the lock at lockPath, named by the call that made it, or None
    written,    \* locks whose payload is on disk
    old,        \* locks older than staleMs
    held,       \* HELD_LOCKS of each process: its HeldLock, or None
    at,         \* what each call is about to do
    seen,       \* the lock whose payload a call has read, or None
    lease,      \* the lock a call holds
    releasing,  \* locks whose file is about to be removed by their own process
    disputed,   \* whether a lock was removed by one who meant another or guessed
    troubles

vars == <<life, file, written, old, held, at, seen, lease, releasing, disputed, troubles>>

Stages == {"start", "open", "write", "enter", "read", "judge", "stat", "reclaim", "hold", "over"}

TypeOK ==
    /\ life \in [Procs -> {"unborn", "alive", "dead"}]
    /\ file \in Callers \cup {None}
    /\ written \subseteq Callers
    /\ old \subseteq Callers
    /\ held \in [Procs -> HeldLock \cup {None}]
    /\ at \in [Callers -> Stages]
    /\ seen \in [Callers -> Callers \cup {None}]
    /\ lease \in [Callers -> Callers]
    /\ releasing \subseteq Callers
    /\ disputed \in BOOLEAN
    /\ troubles \in 0 .. MaxTroubles

Alive(p) == life[p] = "alive"

Init ==
    /\ life = [p \in Procs |-> IF p \in Late THEN "unborn" ELSE "alive"]
    /\ file = None /\ written = {} /\ old = {}
    /\ held = [p \in Procs |-> None]
    /\ at = [c \in Callers |-> "start"]
    /\ seen = [c \in Callers |-> None]
    /\ lease = [c \in Callers |-> c]
    /\ releasing = {}
    /\ disputed = FALSE
    /\ troubles = 0

Goes(c, stage) == at' = [at EXCEPT ![c] = stage]
Trouble == troubles < MaxTroubles /\ troubles' = troubles + 1

\* rm(lockPath), meant for lock o: whatever is there goes.
RemoveFile(o) ==
    /\ file' = None
    /\ disputed' = (disputed \/ file \notin {o, None})

-----------------------------------------------------------------------------
(* Acquiring *)

\* A re-entrant call joins the lock its process holds.
Start(c) ==
    LET h == held[proc[c]] IN
    /\ at[c] = "start" /\ c \notin Sweepers
    /\ Alive(proc[c])
    /\ IF c \in Reentrant /\ h # None
       THEN /\ held' = [held EXCEPT ![proc[c]] = [h EXCEPT !.count = @ + 1]]
            /\ lease' = [lease EXCEPT ![c] = h.by]
            /\ Goes(c, "hold")
       ELSE Goes(c, "open") /\ UNCHANGED <<held, lease>>
    /\ UNCHANGED <<life, file, written, old, seen, releasing, disputed, troubles>>

\* open(lockPath, "wx").
Open(c) ==
    /\ at[c] = "open"
    /\ IF file = None
       THEN file' = c /\ Goes(c, "write")
       ELSE Goes(c, "read") /\ UNCHANGED file
    /\ UNCHANGED <<life, written, old, held, seen, lease, releasing, disputed, troubles>>

\* timeoutMs is over.
GiveUp(c) ==
    /\ at[c] = "open"
    /\ Goes(c, "over")
    /\ UNCHANGED <<life, file, written, old, held, seen, lease, releasing, disputed, troubles>>

\* The payload goes to the handle, wherever the file is by now.
Write(c) ==
    /\ at[c] = "write"
    /\ written' = written \cup {c}
    /\ Goes(c, "enter")
    /\ UNCHANGED <<life, file, old, held, seen, lease, releasing, disputed, troubles>>

\* Writing fails: the call removes the file and throws.
WriteFails(c) ==
    /\ at[c] = "write"
    /\ Trouble
    /\ releasing' = releasing \cup {c}
    /\ Goes(c, "over")
    /\ UNCHANGED <<life, file, written, old, held, seen, lease, disputed>>

\* The HeldLock replaces whatever the process had.
Enter(c) ==
    /\ at[c] = "enter"
    /\ held' = [held EXCEPT ![proc[c]] = [by |-> c, count |-> 1]]
    /\ Goes(c, "hold")
    /\ UNCHANGED <<life, file, written, old, seen, lease, releasing, disputed, troubles>>

\* readLockPayload: null without a file, a payload or luck.
Read(c) ==
    /\ at[c] = "read"
    /\ Goes(c, "judge")
    /\ \/ /\ seen' = [seen EXCEPT ![c] = IF file \in written THEN file ELSE None]
          /\ UNCHANGED troubles
       \/ Trouble /\ seen' = [seen EXCEPT ![c] = None]
    /\ UNCHANGED <<life, file, written, old, held, lease, releasing, disputed>>

\* Mutant: a lock of one's own process is an orphan, whether it is held or not.
StaleIfOwn(c) ==
    \/ {p \in Procs : Alive(p) /\ pid[p] = pid[proc[seen[c]]]} \subseteq {proc[c]}
    \/ seen[c] \in old

\* inspectLockPayload and shouldTreatAsOrphanSelfLock: the process is dead, its pid
\* is another's, it is c's own and holds nothing, or the lock is too old.
Stale(c) ==
    LET owner == proc[seen[c]]
        alive == {p \in Procs : Alive(p) /\ pid[p] = pid[owner]}
    IN
    \/ alive = {}
    \/ StartTimes /\ owner \notin alive
    \/ ~ StartTimes /\ pid[owner] = pid[proc[c]] /\ held[proc[c]] = None
    \/ seen[c] \in old

\* The contender judges what it read.  Without a payload the age of the file decides.
Judge(c) ==
    /\ at[c] = "judge" /\ c \notin Sweepers
    /\ Goes(c, IF seen[c] = None THEN "stat" ELSE IF Stale(c) THEN "reclaim" ELSE "open")
    /\ UNCHANGED <<life, file, written, old, held, seen, lease, releasing, disputed, troubles>>

\* shouldReclaimContendedLockFile: a file that cannot be looked at is taken for stale.
Stat(c) ==
    /\ at[c] = "stat"
    /\ \/ Goes(c, IF file \in old THEN "reclaim" ELSE "open") /\ UNCHANGED troubles
       \/ Trouble /\ Goes(c, "reclaim")
    /\ UNCHANGED <<life, file, written, old, held, seen, lease, releasing, disputed>>

\* A contender tries again after it removed the lock it took for stale.
Reclaim(c) ==
    /\ at[c] = "reclaim"
    /\ \/ /\ RemoveFile(seen[c])
          /\ Goes(c, IF c \in Sweepers THEN "over" ELSE "open")
          /\ UNCHANGED troubles
       \/ Trouble /\ Goes(c, "over") /\ UNCHANGED <<file, disputed>>
    /\ UNCHANGED <<life, written, old, held, seen, lease, releasing>>

\* cleanStaleLockFiles: a lock file is listed ...
SweepList(c) ==
    /\ at[c] = "start" /\ c \in Sweepers
    /\ Alive(proc[c])
    /\ Goes(c, IF file = None THEN "over" ELSE "read")
    /\ UNCHANGED <<life, file, written, old, held, seen, lease, releasing, disputed, troubles>>

\* ... and, once read, removed; without a payload it is stale, whatever its age.
SweepJudge(c) ==
    /\ at[c] = "judge" /\ c \in Sweepers
    /\ Goes(c, IF seen[c] = None THEN "reclaim" ELSE IF Stale(c) THEN "reclaim" ELSE "over")
    /\ UNCHANGED <<life, file, written, old, held, seen, lease, releasing, disputed, troubles>>

-----------------------------------------------------------------------------
(* Releasing *)

\* Mutant: every release ends the lock.
ReleaseAtOnce(c) ==
    LET h == held[proc[c]] IN
    /\ at[c] = "hold"
    /\ IF h # None /\ h.by = lease[c]
       THEN held' = [held EXCEPT ![proc[c]] = None] /\ releasing' = releasing \cup {h.by}
       ELSE UNCHANGED <<held, releasing>>
    /\ Goes(c, "over")
    /\ UNCHANGED <<life, file, written, old, seen, lease, disputed, troubles>>

\* Mutant: the last release leaves an entry without holders.
ReleaseKeepsEntry(c) ==
    LET h == held[proc[c]] IN
    /\ at[c] = "hold"
    /\ IF h # None /\ h.by = lease[c]
       THEN held' = [held EXCEPT ![proc[c]] = [h EXCEPT !.count = @ - 1]]
       ELSE UNCHANGED held
    /\ Goes(c, "over")
    /\ UNCHANGED <<life, file, written, old, seen, lease, releasing, disputed, troubles>>

\* Mutant: the last release forgets the file.
ReleaseInMemory(c) ==
    LET h == held[proc[c]] IN
    /\ at[c] = "hold"
    /\ IF h # None /\ h.by = lease[c]
       THEN held' = [held EXCEPT ![proc[c]] =
                        IF h.count > 1 THEN [h EXCEPT !.count = @ - 1] ELSE None]
       ELSE UNCHANGED held
    /\ Goes(c, "over")
    /\ UNCHANGED <<life, file, written, old, seen, lease, releasing, disputed, troubles>>

\* releaseHeldLock: the last release takes the lock out of HELD_LOCKS and removes the
\* file after that; one of a lock that was forced or replaced does nothing.
Release(c) ==
    LET h == held[proc[c]] IN
    /\ at[c] = "hold"
    /\ IF h # None /\ h.by = lease[c]
       THEN IF h.count > 1
            THEN held' = [held EXCEPT ![proc[c]] = [h EXCEPT !.count = @ - 1]] /\ UNCHANGED releasing
            ELSE held' = [held EXCEPT ![proc[c]] = None] /\ releasing' = releasing \cup {h.by}
       ELSE UNCHANGED <<held, releasing>>
    /\ Goes(c, "over")
    /\ UNCHANGED <<life, file, written, old, seen, lease, disputed, troubles>>

\* The process removes the file of a lock it has released.
Remove(o) ==
    /\ o \in releasing
    /\ releasing' = releasing \ {o}
    /\ \/ RemoveFile(o) /\ UNCHANGED troubles
       \/ Trouble /\ UNCHANGED <<file, disputed>>
    /\ UNCHANGED <<life, written, old, held, at, seen, lease>>

\* runLockWatchdogCheck: a lock held longer than maxHoldMs is released.
Watchdog(p) ==
    /\ held[p] # None
    /\ Trouble
    /\ held' = [held EXCEPT ![p] = None]
    /\ releasing' = releasing \cup {held[p].by}
    /\ UNCHANGED <<life, file, written, old, at, seen, lease, disputed>>

\* releaseAllLocksSync.
ReleaseAll(p) ==
    /\ IF held[p] # None THEN RemoveFile(held[p].by) ELSE UNCHANGED <<file, disputed>>
    /\ held' = [held EXCEPT ![p] = None]

\* A signal that other listeners handle too: the locks go, the process goes on.
SignalSurvived(p) ==
    /\ Alive(p) /\ held[p] # None
    /\ Trouble
    /\ ReleaseAll(p)
    /\ UNCHANGED <<life, written, old, at, seen, lease, releasing>>

-----------------------------------------------------------------------------
(* Processes *)

Ends(p) ==
    /\ Alive(p)
    /\ life' = [life EXCEPT ![p] = "dead"]
    /\ at' = [c \in Callers |-> IF proc[c] = p THEN "over" ELSE at[c]]
    /\ releasing' = {o \in releasing : proc[o] # p}
    /\ UNCHANGED <<written, old, seen, lease, troubles>>

Exits(p) == Ends(p) /\ ReleaseAll(p)
Crashes(p) == Ends(p) /\ held' = [held EXCEPT ![p] = None] /\ UNCHANGED <<file, disputed>>

\* A new process may be given a pid that is free again.
Begins(p) ==
    /\ life[p] = "unborn"
    /\ \A q \in Procs : Alive(q) => pid[q] # pid[p]
    /\ life' = [life EXCEPT ![p] = "alive"]
    /\ UNCHANGED <<file, written, old, held, at, seen, lease, releasing, disputed, troubles>>

\* staleMs have passed since lock o was made.
Ages(o) ==
    /\ o \notin old /\ (o = file \/ \E c \in Callers : seen[c] = o)
    /\ Trouble
    /\ old' = old \cup {o}
    /\ UNCHANGED <<life, file, written, held, at, seen, lease, releasing, disputed>>

Next ==
    \/ \E c \in Callers :
          \/ Start(c) \/ Open(c) \/ GiveUp(c)
          \/ Write(c) \/ WriteFails(c) \/ Enter(c)
          \/ Read(c) \/ Judge(c) \/ Stat(c) \/ Reclaim(c)
          \/ SweepList(c) \/ SweepJudge(c)
          \/ Release(c) \/ Remove(c) \/ Ages(c)
    \/ \E p \in Procs :
          Watchdog(p) \/ SignalSurvived(p) \/ Exits(p) \/ Crashes(p) \/ Begins(p)

Spec == Init /\ [][Next]_vars

-----------------------------------------------------------------------------
(* Properties *)

\* Two calls that write to the session under different locks.
Conflict == \E c, d \in Callers : at[c] = "hold" /\ at[d] = "hold" /\ lease[c] # lease[d]

\* No limit was outlived, and no removal by path hit a lock it was not meant for.
Undisputed == StartTimes /\ troubles = 0 /\ ~ disputed

\* Two calls never write at once under different locks, though processes die with
\* their locks, pids are used again and contenders take locks over, unless somebody
\* removed another lock than the one it judged: there is no other way to lose it.
ExclusiveIfUndisputed == Undisputed => ~ Conflict

\* Re-entrant calls share one lock: its count is theirs, and unless it was disputed
\* or forced it stays their process's until the last of them has released it.
SharedUntilLast ==
    /\ \A p \in Procs : held[p] # None =>
          held[p].count = Cardinality({c \in Callers :
              proc[c] = p /\ at[c] = "hold" /\ lease[c] = held[p].by})
    /\ Undisputed =>
          \A c \in Callers : at[c] = "hold" =>
              held[proc[c]] # None /\ held[proc[c]].by = lease[c]

\* A process that is alive leaves no lock file behind: the call that made it is on
\* its way to hold it, the process holds it, or is about to remove it.
NothingLeaked ==
    Undisputed /\ file # None /\ Alive(proc[file]) =>
        \/ at[file] \in {"write", "enter"}
        \/ file \in releasing
        \/ held[proc[file]] # None /\ held[proc[file]].by = file

=============================================================================
