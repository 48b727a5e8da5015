------------------------- MODULE CronServiceProofs -------------------------
(***************************************************************************)
(* Theorems about CronService, for every set of jobs, services and manual  *)
(* runs and every schedule.                                                *)
(*                                                                         *)
(* IInv is the inductive invariant of the types: the records of jobs.json  *)
(* and of every copy of it are sound (a next run is missing only when all  *)
(* is done, and is otherwise still to be served), so that maintenance      *)
(* never computes a next run that is another one.  On it rest Solo (an     *)
(* accounted execution is the only one of its job), Watchful (a service    *)
(* with a next run in memory will wake up) and Accompanied (the copy in    *)
(* memory is one of the file, and every marker is that of an execution);   *)
(* what a step does to the file is Traced.                                 *)
(***************************************************************************)
EXTENDS CronService, FiniteSetTheorems, TLAPS

-----------------------------------------------------------------------------
(* Slots *)

LEMMA TimesAreNaturals ==
    /\ Time \subseteq Nat /\ 0 \in Time
    /\ Every \in Nat /\ Every > 0 /\ Backoff \in Nat /\ Backoff > 0
    /\ Stagger \in Nat /\ Stagger > 0 /\ StuckRun \in Nat
BY TimesAssumption DEF Time

LEMMA Division ==
    ASSUME NEW a \in Nat, NEW b \in Nat, b > 0
    PROVE  /\ a \div b \in Nat
           /\ (a \div b) * b \in Nat
           /\ (a \div b) * b <= a
           /\ a < (a \div b) * b + b
<1>1. a \div b \in Nat
  OBVIOUS
<1>2. a = b * (a \div b) + (a % b) /\ a % b \in 0 .. (b - 1)
  OBVIOUS
<1> QED BY <1>1, <1>2

LEMMA CronSlotIsLater ==
    ASSUME NEW t \in Nat
    PROVE  CronSlot(t) \in Nat /\ CronSlot(t) > t
<1>1. PICK q \in Nat : q = t \div Every
  BY Division, TimesAreNaturals
<1>2. q * Every \in Nat /\ t < q * Every + Every
  BY <1>1, Division, TimesAreNaturals
<1>3. (q + 1) * Every = q * Every + Every
  BY TimesAreNaturals
<1> QED BY <1>1, <1>2, <1>3, TimesAreNaturals DEF CronSlot

LEMMA EverySlotIsNotPast ==
    ASSUME NEW j \in Jobs, NEW t \in Nat
    PROVE  EverySlot(j, t) \in Nat /\ EverySlot(j, t) >= t
<1>1. at[j] \in Nat
  BY TimesAssumption
<1>2. CASE t < at[j]
  BY <1>1, <1>2 DEF EverySlot
<1>3. CASE ~ t < at[j]
  <2>1. t - at[j] + Every - 1 \in Nat
    BY <1>1, <1>3, TimesAreNaturals
  <2>2. PICK q \in Nat : q = (t - at[j] + Every - 1) \div Every
    BY <2>1, Division, TimesAreNaturals
  <2>3. q * Every \in Nat /\ t - at[j] + Every - 1 < q * Every + Every
    BY <2>1, <2>2, Division, TimesAreNaturals
  <2>4. CASE q < 1
    <3>1. EverySlot(j, t) = at[j] + Every
      BY <1>1, <1>3, <2>2, <2>4, TimesAreNaturals DEF EverySlot
    <3>2. q = 0 /\ q * Every = 0
      BY <2>4, TimesAreNaturals
    <3> QED BY <1>1, <2>3, <3>1, <3>2, TimesAreNaturals
  <2>5. CASE ~ q < 1
    <3>1. EverySlot(j, t) = at[j] + q * Every
      BY <1>1, <1>3, <2>2, <2>5 DEF EverySlot
    <3> QED BY <1>1, <2>3, <3>1, TimesAreNaturals
  <2> QED BY <2>4, <2>5
<1> QED BY <1>2, <1>3

-----------------------------------------------------------------------------
(* Records *)

\* The record of a one-shot that has succeeded: nothing is next.
Finished(j, r) ==
    kind[j] = "at" /\ r.status = "ok" /\ r.lastRun # None /\ at[j] <= r.lastRun

\* The slot of a record is still to be served: it is after the last run, or it is that
\* of a one-shot that has not succeeded.
Unserved(j, r) ==
    r.lastRun # None /\ r.next # None =>
        r.lastRun < r.next \/ (kind[j] = "at" /\ r.next = at[j] /\ r.status # "ok")

\* What every record in jobs.json and in memory satisfies at time t.
Sound(j, r, t) ==
    /\ r.enabled /\ r.next = None => Finished(j, r)
    /\ r.lastRun # None => r.lastRun <= t
    /\ r.running # None => r.running <= t
    /\ r.enabled => Unserved(j, r)

Valid(st, t) == st \in Store /\ \A j \in Jobs : st[j] # None => Sound(j, st[j], t)

\* q is r after maintenance at time t, but for the next run: its marker is gone only
\* when the job is disabled or the marker is too old.
Tended(r, q, t) ==
    /\ q.enabled = r.enabled /\ q.lastRun = r.lastRun
    /\ q.status = r.status /\ q.errors = r.errors
    /\ q.running = r.running
         \/ (q.running = None /\ r.running # None /\ (~ r.enabled \/ r.running + StuckRun < t))

LEMMA JobFields ==
    ASSUME NEW r \in Job
    PROVE  /\ r.enabled \in BOOLEAN /\ r.next \in Nat \cup {None}
           /\ r.running \in Time \cup {None} /\ r.lastRun \in Time \cup {None}
           /\ r.status \in {"ok", "skipped", "error", None}
           /\ r.errors \in 0 .. MaxAttempts + 1
           /\ r # None
BY NoneAssumption DEF Job

LEMMA StoreOf ==
    ASSUME NEW st \in Store, NEW j \in Jobs
    PROVE  st[j] \in Job \cup {None} /\ st # None
BY NoneAssumption DEF Store

\* The next run that is computed is to be served, and missing only when all is done.
LEMMA NextIsUnserved ==
    ASSUME NEW j \in Jobs, NEW r \in Job, NEW t \in Nat
    PROVE  /\ ComputeNext(j, r, t) \in Nat \cup {None}
           /\ ComputeNext(j, r, t) = None => ~ r.enabled \/ Finished(j, r)
           /\ ~ r.enabled \/ Finished(j, r) => ComputeNext(j, r, t) = None
           /\ (r.lastRun # None => r.lastRun <= t) /\ ComputeNext(j, r, t) # None =>
                 Unserved(j, [r EXCEPT !.next = ComputeNext(j, r, t)])
<1>1. at[j] \in Nat /\ kind[j] \in {"at", "every", "cron"} /\ None \notin Nat
  BY TimesAssumption, NoneAssumption
<1>2. r.enabled \in BOOLEAN /\ (r.lastRun # None => r.lastRun \in Nat)
  BY JobFields, TimesAreNaturals
<1>3. CASE ~ r.enabled
  BY <1>3 DEF ComputeNext
<1>4. ASSUME r.enabled, kind[j] = "every"
      PROVE  /\ ComputeNext(j, r, t) \in Nat
             /\ r.lastRun # None => r.lastRun < ComputeNext(j, r, t)
  <2>1. ComputeNext(j, r, t) = IF r.lastRun # None /\ r.lastRun + Every > t
                               THEN r.lastRun + Every ELSE EverySlot(j, t)
    BY <1>4 DEF ComputeNext
  <2>2. EverySlot(j, t) \in Nat /\ EverySlot(j, t) >= t
    BY EverySlotIsNotPast
  <2> QED BY <1>1, <1>2, <2>1, <2>2, TimesAreNaturals
<1>5. ASSUME r.enabled, kind[j] = "cron"
      PROVE  ComputeNext(j, r, t) \in Nat /\ ComputeNext(j, r, t) > t
  <2>1. ComputeNext(j, r, t) = CronSlot(t)
    BY <1>5 DEF ComputeNext
  <2> QED BY <2>1, CronSlotIsLater
<1>6. ASSUME r.enabled, kind[j] = "at"
      PROVE  ComputeNext(j, r, t) = IF r.status = "ok" /\ r.lastRun # None /\ at[j] <= r.lastRun
                                    THEN None ELSE at[j]
  BY <1>6 DEF ComputeNext
<1>7. ~ r.enabled \/ kind[j] = "every" \/ kind[j] = "cron" \/ kind[j] = "at"
  BY <1>1
<1>8. ComputeNext(j, r, t) \in Nat \cup {None}
  BY <1>1, <1>3, <1>4, <1>5, <1>6, <1>7 DEF ComputeNext
<1>9. ComputeNext(j, r, t) = None <=> ~ r.enabled \/ Finished(j, r)
  BY <1>1, <1>3, <1>4, <1>5, <1>6, <1>7 DEF Finished, ComputeNext
<1>10. ASSUME r.lastRun # None => r.lastRun <= t, ComputeNext(j, r, t) # None
       PROVE  Unserved(j, [r EXCEPT !.next = ComputeNext(j, r, t)])
  <2>1. PICK n \in Nat : n = ComputeNext(j, r, t)
    BY <1>8, <1>10
  <2>2. r.enabled
    BY <1>9, <1>10
  <2>3. [r EXCEPT !.next = n].lastRun = r.lastRun /\ [r EXCEPT !.next = n].next = n
          /\ [r EXCEPT !.next = n].status = r.status
    BY DEF Job
  <2>4. r.lastRun # None => r.lastRun < n \/ (kind[j] = "at" /\ n = at[j] /\ r.status # "ok")
    BY <1>1, <1>2, <1>4, <1>5, <1>6, <1>7, <1>10, <2>1, <2>2, TimesAreNaturals
  <2> QED BY <2>1, <2>3, <2>4 DEF Unserved
<1> QED BY <1>8, <1>9, <1>10

\* normalizeJobTickState keeps a sound record sound.
LEMMA NormalizedIsSound ==
    ASSUME now \in Time, NEW j \in Jobs, NEW r \in Job, Sound(j, r, now)
    PROVE  /\ Normalized(r) \in Job /\ Sound(j, Normalized(r), now)
           /\ Tended(r, Normalized(r), now)
           /\ r.enabled => Normalized(r).next = r.next
<1>1. r.enabled \in BOOLEAN /\ r.running \in Time \cup {None} /\ now \in Nat /\ StuckRun \in Nat
        /\ Time \subseteq Nat
  BY JobFields, TimesAreNaturals
<1>2. CASE ~ r.enabled
  <2>1. Normalized(r) = [r EXCEPT !.next = None, !.running = None]
    BY <1>2 DEF Normalized
  <2>2. PICK q \in Job : q = Normalized(r)
    BY <2>1 DEF Job
  <2>3. ~ q.enabled /\ q.running = None /\ q.next = None /\ q.lastRun = r.lastRun
          /\ q.status = r.status /\ q.errors = r.errors /\ q.enabled = r.enabled
    BY <1>2, <2>1, <2>2 DEF Job
  <2>4. Sound(j, q, now)
    BY <2>3 DEF Sound
  <2>5. Tended(r, q, now)
    BY <1>2, <2>3 DEF Tended
  <2> QED BY <1>2, <2>2, <2>4, <2>5
<1>3. CASE r.enabled
  <2>1. PICK n \in {r.running, None} :
          /\ Normalized(r) = [r EXCEPT !.running = n]
          /\ n # r.running => r.running # None /\ r.running + StuckRun < now
    <3>1. CASE r.running # None /\ now - r.running > StuckRun
      <4>1. r.running \in Nat
        BY <1>1, <3>1
      <4>2. r.running + StuckRun < now
        BY <1>1, <3>1, <4>1
      <4> QED BY <1>3, <3>1, <4>2 DEF Normalized
    <3>2. CASE ~ (r.running # None /\ now - r.running > StuckRun)
      <4>1. Normalized(r) = [r EXCEPT !.running = r.running]
        BY <1>3, <3>2 DEF Normalized
      <4> QED BY <4>1
    <3> QED BY <3>1, <3>2
  <2>2. PICK q \in Job : q = Normalized(r)
    BY <1>1, <2>1 DEF Job
  <2>3. q.running = n /\ q.next = r.next /\ q.lastRun = r.lastRun
          /\ q.status = r.status /\ q.errors = r.errors /\ q.enabled = r.enabled
    BY <2>1, <2>2 DEF Job
  <2>4. Sound(j, q, now)
    BY <2>1, <2>3 DEF Sound, Finished, Unserved
  <2>5. Tended(r, q, now)
    BY <2>1, <2>3 DEF Tended
  <2> QED BY <2>2, <2>3, <2>4, <2>5
<1> QED BY <1>1, <1>2, <1>3

\* So does another next run, when it is one that is computed.
LEMMA ComputedIsSound ==
    ASSUME now \in Time, NEW j \in Jobs, NEW r \in Job, r.enabled,
           r.lastRun # None => r.lastRun <= now, r.running # None => r.running <= now
    PROVE  /\ [r EXCEPT !.next = ComputeNext(j, r, now)] \in Job
           /\ Sound(j, [r EXCEPT !.next = ComputeNext(j, r, now)], now)
<1>1. now \in Nat
  BY TimesAreNaturals
<1>2. PICK n \in Nat \cup {None} : n = ComputeNext(j, r, now)
  BY <1>1, NextIsUnserved
<1>3. PICK q \in Job : q = [r EXCEPT !.next = n]
  BY DEF Job
<1>4. q.next = n /\ q.running = r.running /\ q.lastRun = r.lastRun /\ q.status = r.status
        /\ q.enabled = r.enabled
  BY <1>3 DEF Job
<1>5. n = None => Finished(j, q)
  <2>1. n = None => Finished(j, r)
    BY <1>1, <1>2, NextIsUnserved
  <2> QED BY <1>4, <2>1 DEF Finished
<1>6. Unserved(j, q)
  <2>1. CASE n = None
    BY <1>4, <2>1 DEF Unserved
  <2>2. CASE n # None
    BY <1>1, <1>2, <1>3, <2>2, NextIsUnserved
  <2> QED BY <2>1, <2>2
<1>7. Sound(j, q, now)
  BY <1>4, <1>5, <1>6 DEF Sound
<1> QED BY <1>2, <1>3, <1>7

\* Computing the next run of a finished one-shot, or one that is served and enabled but
\* sound, comes to the same.
LEMMA ComputedAgain ==
    ASSUME now \in Time, NEW j \in Jobs, NEW r \in Job, Sound(j, r, now), r.enabled,
           r.next = None \/ Served(r)
    PROVE  ComputeNext(j, r, now) = r.next
<1>1. now \in Nat /\ at[j] \in Nat /\ None \notin Nat
  BY TimesAreNaturals, TimesAssumption, NoneAssumption
<1>2. CASE r.next = None
  <2>1. Finished(j, r)
    BY <1>2 DEF Sound
  <2> QED BY <1>1, <1>2, <2>1, NextIsUnserved
<1>3. CASE r.next # None /\ Served(r)
  <2>1. r.lastRun # None /\ r.lastRun >= r.next /\ r.lastRun \in Nat /\ r.next \in Nat
    BY <1>3, JobFields, TimesAreNaturals DEF Served
  <2>2. Unserved(j, r)
    BY DEF Sound
  <2>3. kind[j] = "at" /\ r.next = at[j] /\ r.status # "ok"
    BY <1>3, <2>1, <2>2 DEF Unserved
  <2> QED BY <2>3 DEF ComputeNext
<1> QED BY <1>2, <1>3

\* recomputeNextRunsForMaintenance, of a sound record: nothing but what is missing is
\* computed, and what is computed is never another next run.
LEMMA MaintainedRecord ==
    ASSUME now \in Time, NEW st \in Store, NEW x \in BOOLEAN, NEW j \in Jobs,
           st[j] # None => Sound(j, st[j], now)
    PROVE  /\ st[j] = None => Maintained(st, x)[j] = None
           /\ st[j] # None =>
                 /\ Maintained(st, x)[j] \in Job
                 /\ Sound(j, Maintained(st, x)[j], now)
                 /\ Tended(st[j], Maintained(st, x)[j], now)
                 /\ st[j].enabled => Maintained(st, x)[j].next = st[j].next
<1>1. CASE st[j] = None
  BY <1>1 DEF Maintained
<1>2. CASE st[j] # None
  <2>1. PICK r \in Job : r = st[j]
    BY <1>2, StoreOf
  <2>2. Sound(j, r, now)
    BY <1>2, <2>1
  <2>3. PICK q \in Job : q = Normalized(r)
    BY <2>2, NormalizedIsSound
  <2>4. Sound(j, q, now) /\ Tended(r, q, now) /\ (r.enabled => q.next = r.next)
    BY <2>2, <2>3, NormalizedIsSound
  <2>5. Maintained(st, x)[j] =
            IF q.enabled /\ (q.next = None \/ (x /\ Served(q)))
            THEN [q EXCEPT !.next = ComputeNext(j, q, now)] ELSE q
    BY <1>2, <2>1, <2>3 DEF Maintained
  <2>6. CASE q.enabled /\ (q.next = None \/ (x /\ Served(q)))
    <3>1. ComputeNext(j, q, now) = q.next
      BY <2>4, <2>6, ComputedAgain
    <3>2. [q EXCEPT !.next = q.next] = q
      BY DEF Job
    <3>3. Maintained(st, x)[j] = q
      BY <2>5, <2>6, <3>1, <3>2
    <3> QED BY <1>2, <2>1, <2>4, <3>3
  <2>7. CASE ~ (q.enabled /\ (q.next = None \/ (x /\ Served(q))))
    <3>1. Maintained(st, x)[j] = q
      BY <2>5, <2>7
    <3> QED BY <1>2, <2>1, <2>4, <3>1
  <2> QED BY <2>6, <2>7
<1> QED BY <1>1, <1>2

\* recomputeNextRuns
LEMMA RecomputedRecord ==
    ASSUME now \in Time, NEW st, Valid(st, now), NEW j \in Jobs
    PROVE  /\ st[j] = None => Recomputed(st)[j] = None
           /\ st[j] # None =>
                 /\ Recomputed(st)[j] \in Job
                 /\ Sound(j, Recomputed(st)[j], now)
                 /\ Tended(st[j], Recomputed(st)[j], now)
<1>1. CASE st[j] = None
  BY <1>1 DEF Recomputed
<1>2. CASE st[j] # None
  <2>1. PICK r \in Job : r = st[j]
    BY <1>2, StoreOf DEF Valid
  <2>2. Sound(j, r, now)
    BY <1>2, <2>1 DEF Valid
  <2>3. PICK q \in Job : q = Normalized(r)
    BY <2>2, NormalizedIsSound
  <2>4. Sound(j, q, now) /\ Tended(r, q, now)
    BY <2>2, <2>3, NormalizedIsSound
  <2>5. Recomputed(st)[j] =
            IF q.enabled /\ (q.next = None \/ now >= q.next)
            THEN [q EXCEPT !.next = ComputeNext(j, q, now)] ELSE q
    BY <1>2, <2>1, <2>3 DEF Recomputed
  <2>6. CASE q.enabled /\ (q.next = None \/ now >= q.next)
    <3>1. (q.lastRun # None => q.lastRun <= now) /\ (q.running # None => q.running <= now)
      BY <2>4 DEF Sound
    <3>2. PICK p \in Job : p = [q EXCEPT !.next = ComputeNext(j, q, now)]
      BY <2>6, <3>1, ComputedIsSound
    <3>3. Sound(j, p, now)
      BY <2>6, <3>1, <3>2, ComputedIsSound
    <3>4. p.enabled = q.enabled /\ p.lastRun = q.lastRun /\ p.status = q.status
            /\ p.errors = q.errors /\ p.running = q.running
      BY <3>2 DEF Job
    <3>5. Tended(r, p, now)
      BY <2>4, <3>4 DEF Tended
    <3> QED BY <1>2, <2>1, <2>5, <2>6, <3>2, <3>3, <3>5
  <2>7. CASE ~ (q.enabled /\ (q.next = None \/ now >= q.next))
    <3>1. Recomputed(st)[j] = q
      BY <2>5, <2>7
    <3> QED BY <1>2, <2>1, <2>4, <3>1
  <2> QED BY <2>6, <2>7
<1> QED BY <1>1, <1>2

\* What the result of a forced run may leave: a next run that coincides with the run.
NearlySound(j, r, t) ==
    /\ r.enabled /\ r.next = None => Finished(j, r)
    /\ r.lastRun # None => r.lastRun <= t
    /\ r.running = None
    /\ r.enabled /\ r.lastRun # None /\ r.next # None => r.lastRun <= r.next

LEMMA ExecutionFields ==
    ASSUME NEW e \in Execution
    PROVE  /\ e.at \in {"none", "waiting", "running", "ended"}
           /\ e.started \in Time /\ e.ended \in Time
           /\ e.started \in Nat /\ e.ended \in Nat
           /\ e.status \in {"ok", "skipped", "error", "permanent", None}
<1>1. e.status \in (UNION {Outcomes[j] : j \in Jobs}) \cup {None}
  BY DEF Execution
<1>2. \A j \in Jobs : Outcomes[j] \subseteq {"ok", "skipped", "error", "permanent"}
  BY LimitsAssumption
<1>3. e.status \in {"ok", "skipped", "error", "permanent", None}
  BY <1>1, <1>2
<1>4. e.started \in Time /\ e.ended \in Time /\ e.at \in {"none", "waiting", "running", "ended"}
  BY DEF Execution
<1> QED BY <1>3, <1>4, TimesAreNaturals

LEMMA MaxOfIsBetween ==
    ASSUME NEW a \in Nat \cup {None}, NEW b \in Nat
    PROVE  MaxOf(a, b) \in Nat /\ MaxOf(a, b) >= b
BY NoneAssumption DEF MaxOf

\* applyJobResult takes the marker away and leaves a record whose next run is to be served.
LEMMA AfterRunIsSound ==
    ASSUME now \in Time, NEW j \in Jobs, NEW r \in Job, Sound(j, r, now),
           NEW e \in Execution, e.started <= e.ended, e.ended <= now, NEW keeps \in BOOLEAN
    PROVE  /\ AfterRun(j, r, e, keeps) \in Job \cup {None}
           /\ AfterRun(j, r, e, keeps) # None =>
                 /\ AfterRun(j, r, e, keeps).running = None
                 /\ NearlySound(j, AfterRun(j, r, e, keeps), now)
                 /\ ~ keeps => Sound(j, AfterRun(j, r, e, keeps), now)
                 /\ AfterRun(j, r, e, keeps).enabled => r.enabled
<1>1. /\ e.started \in Time /\ e.ended \in Time /\ e.started \in Nat /\ e.ended \in Nat
      /\ e.status \in {"ok", "skipped", "error", "permanent", None}
  BY ExecutionFields
<1>2. /\ r.enabled \in BOOLEAN /\ r.lastRun \in Time \cup {None} /\ r.next \in Nat \cup {None}
      /\ r.errors \in 0 .. MaxAttempts + 1 /\ now \in Nat /\ None \notin Nat /\ Time \subseteq Nat
      /\ MaxAttempts \in Nat /\ kind[j] \in {"at", "every", "cron"} /\ Backoff \in Nat /\ Backoff > 0
  BY JobFields, TimesAreNaturals, NoneAssumption, LimitsAssumption, TimesAssumption
<1>3. PICK failed \in BOOLEAN : failed <=> e.status \in {"error", "permanent"}
  OBVIOUS
<1>4. PICK errors \in 0 .. MaxAttempts + 1 :
         errors = IF ~ failed THEN 0 ELSE IF r.errors > MaxAttempts THEN r.errors ELSE r.errors + 1
  BY <1>2
<1>5. PICK status \in {"ok", "skipped", "error", None} :
         status = IF failed THEN "error" ELSE e.status
  BY <1>1, <1>3
<1>6. PICK ran \in Job :
         ran = [r EXCEPT !.running = None, !.lastRun = e.started, !.errors = errors,
                         !.status = status]
  BY <1>1 DEF Job
<1>7. ran.running = None /\ ran.lastRun = e.started /\ ran.status = status
        /\ ran.enabled = r.enabled /\ ran.next = r.next
  BY <1>6 DEF Job
<1>8. PICK base \in Job : base = IF keeps THEN [ran EXCEPT !.lastRun = r.lastRun] ELSE ran
  BY <1>2 DEF Job
<1>9. base.enabled = r.enabled /\ base.lastRun = (IF keeps THEN r.lastRun ELSE e.started)
        /\ base.status = status
  BY <1>7, <1>8 DEF Job
<1>10. PICK natural \in Nat \cup {None} : natural = ComputeNext(j, base, e.ended)
  BY <1>1, NextIsUnserved
<1>11. PICK retry \in Nat : retry = e.ended + Backoff
  BY <1>1, <1>2
<1>12. PICK later \in Nat : later = MaxOf(natural, retry) /\ later >= retry
  BY MaxOfIsBetween
<1>13. PICK next \in Nat \cup {None} :
         next = IF kind[j] = "at"
                THEN IF e.status = "error" /\ errors <= MaxAttempts
                     THEN retry ELSE None
                ELSE IF ~ r.enabled THEN None ELSE IF failed THEN later ELSE natural
  OBVIOUS
<1>14. PICK enabled \in BOOLEAN : enabled <=> ran.enabled /\ (kind[j] = "at" => next # None)
  OBVIOUS
<1>15. PICK after \in Job : after = [ran EXCEPT !.next = next, !.enabled = enabled]
  BY DEF Job
<1>16. after.enabled = enabled /\ after.next = next /\ after.running = None
         /\ after.lastRun = e.started /\ after.status = status
  BY <1>7, <1>15 DEF Job
<1>17. AfterRun(j, r, e, keeps) =
          IF kind[j] = "at" /\ j \in DeleteAfterRun /\ e.status = "ok" THEN None ELSE after
  BY <1>3, <1>4, <1>5, <1>6, <1>8, <1>10, <1>13, <1>14, <1>15, <1>11, <1>12
     DEF AfterRun
<1>18. after # None
  BY JobFields
<1>19. enabled => r.enabled
  BY <1>7, <1>14
<1>20. enabled => next # None /\ e.started <= next /\ (~ keeps => e.started < next)
  <2> SUFFICES ASSUME enabled PROVE next # None /\ e.started <= next /\ (~ keeps => e.started < next)
    OBVIOUS
  <2>1. CASE kind[j] = "at"
    <3>1. next = retry
      BY <1>13, <1>14, <2>1
    <3> QED BY <1>1, <1>2, <1>11, <3>1
  <2>2. CASE kind[j] # "at" /\ failed
    <3>1. next = later
      BY <1>13, <1>19, <2>2
    <3> QED BY <1>1, <1>2, <1>11, <1>12, <3>1
  <2>3. CASE kind[j] # "at" /\ ~ failed
    <3>1. next = natural
      BY <1>13, <1>19, <2>3
    <3>2. natural = IF kind[j] = "every"
                    THEN IF base.lastRun # None /\ base.lastRun + Every > e.ended
                         THEN base.lastRun + Every ELSE EverySlot(j, e.ended)
                    ELSE CronSlot(e.ended)
      BY <1>2, <1>9, <1>10, <1>19, <2>3 DEF ComputeNext
    <3>3. CASE kind[j] # "every"
      BY <1>1, <1>2, <3>1, <3>2, <3>3, CronSlotIsLater
    <3>4. CASE kind[j] = "every"
      <4>1. EverySlot(j, e.ended) \in Nat /\ EverySlot(j, e.ended) >= e.ended
        BY <1>1, EverySlotIsNotPast
      <4>2. base.lastRun # None => base.lastRun \in Nat
        BY <1>1, <1>2, <1>9
      <4>3. ~ keeps => base.lastRun = e.started /\ base.lastRun # None
        BY <1>1, <1>2, <1>9
      <4>4. natural \in Nat /\ natural >= e.ended
        BY <1>1, <1>2, <3>2, <3>4, <4>1, <4>2, TimesAreNaturals
      <4>5. ~ keeps => natural > e.started
        BY <1>1, <1>2, <3>2, <3>4, <4>1, <4>2, <4>3, TimesAreNaturals
      <4> QED BY <1>1, <1>2, <3>1, <4>4, <4>5
    <3> QED BY <3>3, <3>4
  <2> QED BY <2>1, <2>2, <2>3
<1>21. NearlySound(j, after, now)
  BY <1>1, <1>2, <1>16, <1>20 DEF NearlySound
<1>22. ~ keeps => Sound(j, after, now)
  BY <1>1, <1>2, <1>16, <1>20 DEF Sound, Unserved
<1> QED BY <1>16, <1>17, <1>18, <1>19, <1>21, <1>22

\* ... which the maintenance that follows puts right.
LEMMA MaintenanceRestores ==
    ASSUME now \in Time, NEW st \in Store, NEW j \in Jobs, st[j] # None, NearlySound(j, st[j], now)
    PROVE  /\ Maintained(st, TRUE)[j] \in Job
           /\ Sound(j, Maintained(st, TRUE)[j], now)
           /\ Maintained(st, TRUE)[j].running = None
           /\ Maintained(st, TRUE)[j].enabled = st[j].enabled
<1>1. PICK r \in Job : r = st[j]
  BY StoreOf
<1>2. NearlySound(j, r, now) /\ r.running = None
  BY <1>1 DEF NearlySound
<1>3. /\ r.enabled \in BOOLEAN /\ r.next \in Nat \cup {None} /\ now \in Nat
      /\ r.lastRun # None => r.lastRun \in Nat
  BY JobFields, TimesAreNaturals
<1>4. PICK q \in Job : q = Normalized(r) /\ q.enabled = r.enabled /\ q.running = None
                         /\ q.lastRun = r.lastRun /\ q.status = r.status
                         /\ (r.enabled => q.next = r.next)
  <2>1. CASE r.enabled
    <3>1. Normalized(r) = [r EXCEPT !.running = None]
      BY <1>2, <2>1 DEF Normalized
    <3> QED BY <2>1, <1>2, <3>1 DEF Job
  <2>2. CASE ~ r.enabled
    <3>1. Normalized(r) = [r EXCEPT !.next = None, !.running = None]
      BY <2>2 DEF Normalized
    <3> QED BY <2>2, <3>1 DEF Job
  <2> QED BY <2>1, <2>2
<1>5. Maintained(st, TRUE)[j] =
          IF q.enabled /\ (q.next = None \/ Served(q))
          THEN [q EXCEPT !.next = ComputeNext(j, q, now)] ELSE q
  BY <1>1, <1>4 DEF Maintained
<1>6. CASE q.enabled /\ (q.next = None \/ Served(q))
  <2>1. (q.lastRun # None => q.lastRun <= now) /\ (q.running # None => q.running <= now)
    BY <1>2, <1>4 DEF NearlySound
  <2>2. PICK p \in Job : p = [q EXCEPT !.next = ComputeNext(j, q, now)]
    BY <1>6, <2>1, ComputedIsSound
  <2>3. Sound(j, p, now)
    BY <1>6, <2>1, <2>2, ComputedIsSound
  <2>4. p.running = None /\ p.enabled = r.enabled
    BY <1>4, <2>2 DEF Job
  <2> QED BY <1>1, <1>5, <1>6, <2>2, <2>3, <2>4
<1>7. CASE ~ (q.enabled /\ (q.next = None \/ Served(q)))
  <2>1. q.enabled /\ q.next # None /\ q.lastRun # None => q.lastRun < q.next
    <3> SUFFICES ASSUME q.enabled, q.next # None, q.lastRun # None PROVE q.lastRun < q.next
      OBVIOUS
    <3>1. q.lastRun \in Nat /\ q.next \in Nat /\ q.lastRun <= now
      BY <1>2, <1>3, <1>4 DEF NearlySound
    <3>2. ~ Served(q)
      BY <1>7
    <3>3. now < q.next \/ q.lastRun < q.next
      BY <1>3, <1>4, <3>1, <3>2 DEF Served
    <3> QED BY <1>3, <3>1, <3>3
  <2>2. Sound(j, q, now)
    BY <1>2, <1>4, <1>7, <2>1 DEF Sound, NearlySound, Finished, Unserved
  <2> QED BY <1>1, <1>4, <1>5, <1>7, <2>2
<1> QED BY <1>6, <1>7

-----------------------------------------------------------------------------
(* Stores *)

LEMMA MaintainedIsValid ==
    ASSUME now \in Time, NEW st, Valid(st, now), NEW x \in BOOLEAN
    PROVE  Valid(Maintained(st, x), now)
<1>1. \A j \in Jobs : Maintained(st, x)[j] \in Job \cup {None}
                        /\ (Maintained(st, x)[j] # None => Sound(j, Maintained(st, x)[j], now))
  BY MaintainedRecord DEF Valid
<1>2. Maintained(st, x) = [j \in Jobs |-> Maintained(st, x)[j]]
  BY DEF Maintained
<1> QED BY <1>1, <1>2 DEF Valid, Store

LEMMA RecomputedIsValid ==
    ASSUME now \in Time, NEW st, Valid(st, now)
    PROVE  Valid(Recomputed(st), now)
<1>1. \A j \in Jobs : Recomputed(st)[j] \in Job \cup {None}
                        /\ (Recomputed(st)[j] # None => Sound(j, Recomputed(st)[j], now))
  BY RecomputedRecord
<1>2. Recomputed(st) = [j \in Jobs |-> Recomputed(st)[j]]
  BY DEF Recomputed
<1> QED BY <1>1, <1>2 DEF Valid, Store

\* Setting or clearing a marker leaves the rest of a record as it is.
LEMMA MarkerIsSound ==
    ASSUME now \in Time, NEW j \in Jobs, NEW r \in Job, Sound(j, r, now),
           NEW t \in Time \cup {None}, t # None => t <= now,
           NEW q, q = [r EXCEPT !.running = t]
    PROVE  /\ q \in Job /\ Sound(j, q, now)
           /\ q.running = t /\ q.enabled = r.enabled /\ q.next = r.next
<1>1. q \in Job
  BY DEF Job
<1>2. q.running = t /\ q.enabled = r.enabled /\ q.next = r.next /\ q.lastRun = r.lastRun
        /\ q.status = r.status
  BY DEF Job
<1>3. Sound(j, q, now)
  BY <1>2 DEF Sound, Finished, Unserved
<1> QED BY <1>1, <1>2, <1>3

\* A start clears every marker and nothing else.
LEMMA UnmarkedIsValid ==
    ASSUME now \in Time, NEW st, Valid(st, now)
    PROVE  /\ Valid(Unmarked(st), now)
           /\ \A j \in Jobs : /\ Unmarked(st)[j] = None <=> st[j] = None
                              /\ ~ Marked(Unmarked(st)[j])
                              /\ st[j] # None => Unmarked(st)[j].enabled = st[j].enabled
                                                   /\ Unmarked(st)[j].next = st[j].next
<1>1. ASSUME NEW j \in Jobs
      PROVE  /\ Unmarked(st)[j] \in Job \cup {None}
             /\ Unmarked(st)[j] = None <=> st[j] = None
             /\ ~ Marked(Unmarked(st)[j])
             /\ st[j] # None => /\ Sound(j, Unmarked(st)[j], now)
                                /\ Unmarked(st)[j].enabled = st[j].enabled
                                /\ Unmarked(st)[j].next = st[j].next
  <2>1. CASE Marked(st[j])
    <3>1. PICK r \in Job : r = st[j]
      BY <2>1, StoreOf DEF Marked, Valid
    <3>2. Sound(j, r, now)
      BY <2>1, <3>1 DEF Marked, Valid
    <3>3. Unmarked(st)[j] = [r EXCEPT !.running = None]
      BY <2>1, <3>1 DEF Unmarked
    <3>4. PICK q : q = Unmarked(st)[j]
      OBVIOUS
    <3>5. q \in Job /\ Sound(j, q, now) /\ q.running = None /\ q.enabled = r.enabled
            /\ q.next = r.next
      BY <3>2, <3>3, <3>4, MarkerIsSound
    <3>6. r # None /\ q # None
      BY <3>5, NoneAssumption
    <3>7. ~ Marked(q)
      BY <3>5 DEF Marked
    <3> QED BY <3>1, <3>5, <3>6, <3>7, <3>4
  <2>2. CASE ~ Marked(st[j])
    <3>1. Unmarked(st)[j] = st[j]
      BY <2>2 DEF Unmarked
    <3> QED BY <2>2, <3>1, StoreOf DEF Valid
  <2> QED BY <2>1, <2>2
<1>2. Unmarked(st) = [j \in Jobs |-> Unmarked(st)[j]]
  BY DEF Unmarked
<1>3. Unmarked(st) \in Store
  BY <1>1, <1>2 DEF Store
<1>4. \A j \in Jobs : Unmarked(st)[j] # None => Sound(j, Unmarked(st)[j], now)
  BY <1>1
<1>5. Valid(Unmarked(st), now)
  BY <1>3, <1>4 DEF Valid
<1> QED BY <1>1, <1>5

LEMMA MarkingIsValid ==
    ASSUME now \in Time, NEW st, Valid(st, now), NEW js \in SUBSET Jobs,
           \A j \in js : st[j] # None
    PROVE  /\ Valid(Marking(st, js), now)
           /\ \A j \in Jobs : /\ Marking(st, js)[j] = None <=> st[j] = None
                              /\ j \notin js => Marking(st, js)[j] = st[j]
                              /\ j \in js => /\ Marking(st, js)[j].running = now
                                             /\ Marking(st, js)[j].enabled = st[j].enabled
                                             /\ Marking(st, js)[j].next = st[j].next
<1>1. ASSUME NEW j \in Jobs
      PROVE  /\ Marking(st, js)[j] \in Job \cup {None}
             /\ Marking(st, js)[j] = None <=> st[j] = None
             /\ st[j] # None => Sound(j, Marking(st, js)[j], now)
             /\ j \notin js => Marking(st, js)[j] = st[j]
             /\ j \in js => /\ Marking(st, js)[j].running = now
                            /\ Marking(st, js)[j].enabled = st[j].enabled
                            /\ Marking(st, js)[j].next = st[j].next
  <2>1. CASE j \in js
    <3>1. PICK r \in Job : r = st[j]
      BY <2>1, StoreOf DEF Valid
    <3>2. Sound(j, r, now) /\ now <= now
      BY <2>1, <3>1, TimesAreNaturals DEF Valid
    <3>3. Marking(st, js)[j] = [r EXCEPT !.running = now]
      BY <2>1, <3>1 DEF Marking
    <3>4. PICK q : q = Marking(st, js)[j]
      OBVIOUS
    <3>5. q \in Job /\ Sound(j, q, now) /\ q.running = now /\ q.enabled = r.enabled
            /\ q.next = r.next
      BY <3>2, <3>3, <3>4, MarkerIsSound
    <3>6. r # None /\ q # None
      BY <3>5, NoneAssumption
    <3> QED BY <2>1, <3>1, <3>5, <3>6, <3>4
  <2>2. CASE j \notin js
    <3>1. Marking(st, js)[j] = st[j]
      BY <2>2 DEF Marking
    <3> QED BY <2>2, <3>1, StoreOf DEF Valid
  <2> QED BY <2>1, <2>2
<1>2. Marking(st, js) = [j \in Jobs |-> Marking(st, js)[j]]
  BY DEF Marking
<1>3. Marking(st, js) \in Store
  BY <1>1, <1>2 DEF Store
<1>4. \A j \in Jobs : Marking(st, js)[j] # None => Sound(j, Marking(st, js)[j], now)
  BY <1>1
<1>5. Valid(Marking(st, js), now)
  BY <1>3, <1>4 DEF Valid
<1> QED BY <1>1, <1>5

\* An execution's times are in order at time t.
Prompt(e, t) == e.started <= t /\ e.ended <= t /\ (e.at = "ended" => e.started <= e.ended)

\* applyOutcomeToStoredJob, of every result of an owner.
LEMMA WithIsValid ==
    ASSUME now \in Time, NEW st, Valid(st, now), NEW o,
           \A j \in Jobs : work[o][j] \in Execution /\ Prompt(work[o][j], now)
    PROVE  /\ Valid(With(st, o), now)
           /\ \A j \in Jobs :
                 /\ st[j] = None => With(st, o)[j] = None
                 /\ work[o][j].at # "ended" => With(st, o)[j] = st[j]
                 /\ work[o][j].at = "ended" => ~ Marked(With(st, o)[j])
<1>1. ASSUME NEW j \in Jobs
      PROVE  /\ With(st, o)[j] \in Job \cup {None}
             /\ With(st, o)[j] # None => Sound(j, With(st, o)[j], now)
             /\ st[j] = None => With(st, o)[j] = None
             /\ work[o][j].at # "ended" => With(st, o)[j] = st[j]
             /\ work[o][j].at = "ended" => ~ Marked(With(st, o)[j])
  <2>1. CASE work[o][j].at = "ended" /\ st[j] # None
    <3>1. PICK r \in Job : r = st[j]
      BY <2>1, StoreOf DEF Valid
    <3>2. Sound(j, r, now)
      BY <2>1, <3>1 DEF Valid
    <3>3. PICK e \in Execution : e = work[o][j]
      OBVIOUS
    <3>4. e.started <= e.ended /\ e.ended <= now
      BY <2>1, <3>3 DEF Prompt
    <3>5. With(st, o)[j] = AfterRun(j, r, e, FALSE)
      BY <2>1, <3>1, <3>3 DEF With
    <3>6. PICK q \in Job \cup {None} : /\ q = AfterRun(j, r, e, FALSE)
                                       /\ q # None => q.running = None /\ Sound(j, q, now)
      BY <3>2, <3>4, AfterRunIsSound
    <3> QED BY <2>1, <3>5, <3>6 DEF Marked
  <2>2. CASE ~ (work[o][j].at = "ended" /\ st[j] # None)
    <3>1. With(st, o)[j] = st[j]
      BY <2>2 DEF With
    <3> QED BY <2>2, <3>1, StoreOf DEF Valid, Marked
  <2> QED BY <2>1, <2>2
<1>2. With(st, o) = [j \in Jobs |-> With(st, o)[j]]
  BY DEF With
<1>3. With(st, o) \in Store
  BY <1>1, <1>2 DEF Store
<1>4. Valid(With(st, o), now)
  BY <1>1, <1>3 DEF Valid
<1> QED BY <1>1, <1>4

-----------------------------------------------------------------------------
(* The invariant *)

Owned(st, ids) == \A j \in Jobs : st[j] # None => j \in ids

\* jobs.json and every copy of it hold sound records, of jobs whose ids were given out.
Records ==
    /\ now \in Time /\ known \in SUBSET Jobs
    /\ Valid(disk, now) /\ Owned(disk, known)
    /\ mem \in [Services -> Store \cup {None}]
    /\ \A s \in Services : mem[s] # None => Valid(mem[s], now) /\ Owned(mem[s], known)

\* Executions, by their owners.
Executions ==
    /\ work \in [Owners -> [Jobs -> Execution]]
    /\ \A o \in Owners, j \in Jobs : Prompt(work[o][j], now)
    /\ \A o \in Owners, j \in Jobs : work[o][j].at = "none" => work[o][j] = NoExecution

\* What a service is doing, and what it has in memory for it.
Phase(s) ==
    /\ svc[s].timer => svc[s].enabled
    /\ svc[s].enabled => mem[s] # None
    /\ svc[s].startup = "off" => svc[s] = Off
    /\ svc[s] = Off => mem[s] = None
    /\ svc[s].startup \in {"plan", "run", "arm"} \/ svc[s].running \/ svc[s].bound => svc[s].enabled
    /\ svc[s].running <=> work[Tick(s)] # NoWork
    /\ work[Catchup(s)] # NoWork => svc[s].startup = "run"

Phases == svc \in [Services -> Service] /\ \A s \in Services : Phase(s)

\* A manual run has its service, its job and a copy of the store in memory.
Request(c) ==
    /\ call[c].now <= now
    /\ call[c].at \in {"reserving", "running"} =>
          /\ call[c].svc \in Services /\ call[c].job \in Jobs
          /\ mem[call[c].svc] # None /\ svc[call[c].svc] # Off
    /\ call[c].at = "running" \/ work[Manual(c)] = NoWork
    /\ \A j \in Jobs : work[Manual(c)][j].at # "none" => call[c].job = j

Requests == call \in [Calls -> Call] /\ \A c \in Calls : Request(c)

\* With the process down, nothing is in memory.
Presence ==
    /\ current \in Services \cup {None}
    /\ current # None => svc[current] # Off
    /\ current = None =>
          /\ \A s \in Services : svc[s] = Off /\ mem[s] = None
          /\ \A o \in Owners : work[o] = NoWork
          /\ \A c \in Calls : call[c].at \in {"idle", "over"}

Counted ==
    /\ edits \in 0 .. MaxEdits /\ faults \in 0 .. MaxFaults /\ starts \in 0 .. MaxStarts
    /\ disowned \in SUBSET Jobs

IInv == Records /\ Executions /\ Phases /\ Requests /\ Presence /\ Counted

LEMMA InvariantTypes == IInv => TypeOK
<1> SUFFICES ASSUME IInv PROVE TypeOK
  OBVIOUS
<1>1. now \in Time /\ disk \in Store /\ mem \in [Services -> Store \cup {None}] /\ known \in SUBSET Jobs
  BY DEF IInv, Records, Valid
<1>2. svc \in [Services -> Service] /\ \A s \in Services : Phase(s)
  BY DEF IInv, Phases
<1>3. \A s \in Services : svc[s].timer => svc[s].enabled /\ mem[s] # None
  BY <1>2 DEF Phase
<1>4. \A s \in Services : svc[s].running <=> work[Tick(s)] # NoWork
  BY <1>2 DEF Phase
<1>5. current \in Services \cup {None} /\ call \in [Calls -> Call]
        /\ work \in [Owners -> [Jobs -> Execution]]
  BY DEF IInv, Presence, Requests, Executions
<1>6. Counted
  BY DEF IInv
<1> QED BY <1>1, <1>2, <1>3, <1>4, <1>5, <1>6 DEF TypeOK, Counted

LEMMA OwnersAreApart ==
    /\ \A s \in Services : Tick(s) \in Owners /\ Catchup(s) \in Owners
    /\ \A c \in Calls : Manual(c) \in Owners
    /\ \A s, t \in Services : /\ Tick(s) = Tick(t) <=> s = t
                              /\ Catchup(s) = Catchup(t) <=> s = t
                              /\ Tick(s) # Catchup(t)
    /\ \A s \in Services, c \in Calls : Tick(s) # Manual(c) /\ Catchup(s) # Manual(c)
    /\ \A c, d \in Calls : Manual(c) = Manual(d) <=> c = d
BY DEF Owners, Tick, Catchup, Manual

LEMMA ConstantRecords ==
    /\ NoExecution \in Execution /\ NoExecution.at = "none"
    /\ NoExecution.started = 0 /\ NoExecution.ended = 0
    /\ Waiting \in Execution /\ Waiting.at = "waiting"
    /\ Waiting.started = 0 /\ Waiting.ended = 0
    /\ NoWork \in [Jobs -> Execution] /\ \A j \in Jobs : NoWork[j] = NoExecution
    /\ Idle \in Call /\ Idle.at = "idle" /\ Idle.now = 0
    /\ Over \in Call /\ Over.at = "over" /\ Over.now = 0 /\ Over # Idle
    /\ Off \in Service /\ Off.startup = "off" /\ ~ Off.enabled /\ ~ Off.timer
    /\ ~ Off.running /\ ~ Off.bound
<1>1. 0 \in Time
  BY TimesAreNaturals
<1>2. NoExecution \in Execution /\ NoExecution.at = "none" /\ NoExecution.started = 0
        /\ NoExecution.ended = 0
  BY <1>1 DEF NoExecution, Execution
<1>3. \A e \in Execution : /\ [e EXCEPT !.at = "waiting"] \in Execution
                           /\ [e EXCEPT !.at = "waiting"].at = "waiting"
                           /\ [e EXCEPT !.at = "waiting"].started = e.started
                           /\ [e EXCEPT !.at = "waiting"].ended = e.ended
  BY DEF Execution
<1>4. Waiting \in Execution /\ Waiting.at = "waiting" /\ Waiting.started = 0 /\ Waiting.ended = 0
  BY <1>2, <1>3 DEF Waiting
<1>5. Idle \in Call /\ Idle.at = "idle" /\ Idle.now = 0
  BY <1>1 DEF Idle, Call
<1>6. \A d \in Call : /\ [d EXCEPT !.at = "over"] \in Call
                      /\ [d EXCEPT !.at = "over"].at = "over"
                      /\ [d EXCEPT !.at = "over"].now = d.now
  BY DEF Call
<1>7. Over \in Call /\ Over.at = "over" /\ Over.now = 0
  BY <1>5, <1>6 DEF Over
<1>8. Over # Idle
  BY <1>5, <1>7
<1>9. NoWork \in [Jobs -> Execution] /\ \A j \in Jobs : NoWork[j] = NoExecution
  BY <1>2 DEF NoWork
<1>10. Off \in Service /\ Off.startup = "off" /\ ~ Off.enabled /\ ~ Off.timer
         /\ ~ Off.running /\ ~ Off.bound
  BY DEF Off, Service
<1> QED BY <1>2, <1>4, <1>5, <1>7, <1>8, <1>9, <1>10

LEMMA NewJobIsSound ==
    ASSUME now \in Time, NEW j \in Jobs
    PROVE  NewJob(j) \in Job /\ Sound(j, NewJob(j), now) /\ ~ Marked(NewJob(j))
<1>1. PICK r \in Job : r = [enabled |-> TRUE, next |-> None, running |-> None, lastRun |-> None,
                            status |-> None, errors |-> 0]
  <2>1. 0 \in 0 .. MaxAttempts + 1
    BY LimitsAssumption
  <2> QED BY <2>1 DEF Job
<1>2. r.enabled /\ r.lastRun = None /\ r.running = None
  BY <1>1
<1>3. NewJob(j) = [r EXCEPT !.next = ComputeNext(j, r, now)]
  BY <1>1 DEF NewJob
<1>4. NewJob(j) \in Job /\ Sound(j, NewJob(j), now)
  BY <1>2, <1>3, ComputedIsSound
<1>5. [r EXCEPT !.next = ComputeNext(j, r, now)].running = None
  BY <1>2 DEF Job
<1> QED BY <1>3, <1>4, <1>5 DEF Marked

LEMMA Initially0 == Init => IInv
<1> SUFFICES ASSUME Init PROVE IInv
  OBVIOUS
<1>1. now \in Time /\ now = 0 /\ known \in SUBSET Jobs
  BY TimesAreNaturals, LimitsAssumption DEF Init
<1>2. \A j \in Jobs : NewJob(j) \in Job /\ Sound(j, NewJob(j), now)
  BY <1>1, NewJobIsSound
<1>3. \A j \in Jobs : /\ disk[j] \in Job \cup {None}
                      /\ disk[j] # None => Sound(j, disk[j], now) /\ j \in known
  BY <1>2 DEF Init
<1>4. disk \in Store
  BY <1>2 DEF Init, Store
<1>5. Records
  BY <1>1, <1>3, <1>4 DEF Records, Valid, Owned, Init
<1>6. \A o \in Owners : work[o] = NoWork
  BY DEF Init
<1>7. Executions
  <2>1. \A o \in Owners, j \in Jobs : work[o][j] = NoExecution
    BY <1>6, ConstantRecords
  <2>2. Prompt(NoExecution, now)
    BY <1>1, ConstantRecords DEF Prompt
  <2>3. work \in [Owners -> [Jobs -> Execution]]
    BY ConstantRecords DEF Init
  <2> QED BY <2>1, <2>2, <2>3 DEF Executions
<1>8. \A s \in Services : svc[s] = Off /\ mem[s] = None
  BY DEF Init
<1>9. svc \in [Services -> Service]
  BY ConstantRecords DEF Init
<1>10. Phases
  <2> SUFFICES ASSUME NEW s \in Services PROVE Phase(s)
    BY <1>9 DEF Phases
  <2>1. work[Tick(s)] = NoWork /\ work[Catchup(s)] = NoWork
    BY <1>6, OwnersAreApart
  <2> QED BY <1>8, <2>1, ConstantRecords DEF Phase
<1>11. Requests
  <2>1. \A c \in Calls : call[c] = Idle /\ work[Manual(c)] = NoWork
    BY <1>6, OwnersAreApart DEF Init
  <2>2. call \in [Calls -> Call]
    BY ConstantRecords DEF Init
  <2>3. \A c \in Calls : Request(c)
    BY <1>1, <2>1, ConstantRecords DEF Request
  <2> QED BY <2>2, <2>3 DEF Requests
<1>12. Presence
  <2>1. \A c \in Calls : call[c].at = "idle"
    BY ConstantRecords DEF Init
  <2> QED BY <1>6, <1>8, <2>1 DEF Presence, Init
<1>13. Counted
  BY LimitsAssumption DEF Counted, Init
<1> QED BY <1>5, <1>7, <1>10, <1>11, <1>12, <1>13 DEF IInv

-----------------------------------------------------------------------------
(* What every section does to the stores *)

LEMMA SaveWrites ==
    ASSUME NEW st, NEW old, NEW saved \in BOOLEAN
    PROVE  /\ Save(st, saved) =>
                 /\ disk' = IF saved THEN st ELSE disk
                 /\ faults' = IF saved THEN faults ELSE faults + 1
                 /\ ~ saved => faults < MaxFaults
           /\ SaveChanged(old, st, saved) =>
                 /\ disk' = IF saved /\ st # old THEN st ELSE disk
                 /\ faults' = IF saved THEN faults ELSE faults + 1
                 /\ ~ saved => faults < MaxFaults
BY DEF Save, SaveChanged

\* A section that leaves st in the memory of s, and st or nothing new on disk.
LEMMA RecordsAreKept ==
    ASSUME Records, NEW s \in Services, NEW st, Valid(st, now), Owned(st, known'),
           Keep(s, st), disk' \in {disk, st}, now' = now,
           known' \in SUBSET Jobs, known \subseteq known'
    PROVE  Records' /\ mem'[s] = st /\ \A t \in Services \ {s} : mem'[t] = mem[t]
<1>1. mem' = [mem EXCEPT ![s] = st] /\ mem \in [Services -> Store \cup {None}] /\ st \in Store
  BY DEF Keep, Records, Valid
<1>2. mem' \in [Services -> Store \cup {None}]
  BY <1>1
<1>3. mem'[s] = st /\ \A t \in Services \ {s} : mem'[t] = mem[t]
  BY <1>1
<1>4. \A t \in Services : mem'[t] # None => Valid(mem'[t], now) /\ Owned(mem'[t], known')
  BY <1>3 DEF Records, Owned
<1>5. Valid(disk', now) /\ Owned(disk', known')
  BY DEF Records, Owned
<1> QED BY <1>2, <1>3, <1>4, <1>5 DEF Records

LEMMA RecordsAreLeft ==
    ASSUME Records, UNCHANGED <<now, disk, mem, known>>
    PROVE  Records'
BY DEF Records, Valid, Owned

LEMMA InMemoryIsValid ==
    ASSUME Records, NEW s \in Services
    PROVE  Valid(InMemory(s), now) /\ Owned(InMemory(s), known)
BY DEF Records, InMemory

LEMMA MaintainedIsOwned ==
    ASSUME Records, NEW st, Valid(st, now), Owned(st, known), NEW x \in BOOLEAN
    PROVE  Valid(Maintained(st, x), now) /\ Owned(Maintained(st, x), known)
<1>1. Valid(Maintained(st, x), now)
  BY MaintainedIsValid DEF Records
<1>2. \A j \in Jobs : st[j] = None => Maintained(st, x)[j] = None
  BY DEF Maintained
<1> QED BY <1>1, <1>2 DEF Owned

LEMMA RecomputedIsOwned ==
    ASSUME Records, NEW st, Valid(st, now), NEW ids, Owned(st, ids)
    PROVE  Valid(Recomputed(st), now) /\ Owned(Recomputed(st), ids)
<1>1. Valid(Recomputed(st), now)
  BY RecomputedIsValid DEF Records
<1>2. \A j \in Jobs : st[j] = None => Recomputed(st)[j] = None
  BY DEF Recomputed
<1> QED BY <1>1, <1>2 DEF Owned

-----------------------------------------------------------------------------
(* What a step leaves alone *)

\* No service stops, and none loses its copy of the store.
Lives ==
    \A t \in Services : /\ svc[t] # Off => svc'[t] # Off
                        /\ mem[t] # None => mem'[t] # None

LEMMA PhaseFrame ==
    ASSUME NEW t \in Services, Phase(t), svc'[t] = svc[t], mem'[t] = mem[t],
           work'[Tick(t)] = work[Tick(t)], work'[Catchup(t)] = work[Catchup(t)]
    PROVE  Phase(t)'
BY DEF Phase, Tick, Catchup

LEMMA RequestFrame ==
    ASSUME NEW c \in Calls, Request(c), Lives, call'[c] = call[c],
           work'[Manual(c)] = work[Manual(c)], call[c].now <= now'
    PROVE  Request(c)'
BY DEF Request, Lives, Manual

LEMMA PresenceFrame ==
    ASSUME Presence, Lives, current' = current, current # None
    PROVE  Presence'
BY DEF Presence, Lives

\* A service at work is one of a running process.
LEMMA SomeService ==
    ASSUME Presence, NEW s \in Services, svc[s] # Off
    PROVE  current # None /\ current \in Services
BY DEF Presence

LEMMA NotOff ==
    ASSUME NEW v, v.startup # "off"
    PROVE  v # Off
BY ConstantRecords

LEMMA ServiceFields ==
    ASSUME Phases, NEW s \in Services
    PROVE  /\ svc[s] \in Service /\ Phase(s)
           /\ svc[s].startup # "off" <=> svc[s] # Off
           /\ svc[s].timer \/ svc[s].enabled \/ svc[s].running \/ svc[s].bound
                \/ svc[s].startup \in {"plan", "run", "arm"} => svc[s] # Off /\ mem[s] # None
<1>1. svc[s] \in Service /\ Phase(s)
  BY DEF Phases
<1>2. svc[s].startup # "off" <=> svc[s] # Off
  BY <1>1, ConstantRecords DEF Phase
<1>3. svc[s].timer \/ svc[s].enabled \/ svc[s].running \/ svc[s].bound
                \/ svc[s].startup \in {"plan", "run", "arm"} => svc[s].enabled
  BY <1>1 DEF Phase
<1>4. svc[s].enabled => svc[s] # Off /\ mem[s] # None
  BY <1>1, ConstantRecords DEF Phase
<1> QED BY <1>1, <1>2, <1>3, <1>4

\* The clock moves on.
LEMMA SoundLater ==
    ASSUME NEW j, NEW r \in Job, NEW t \in Nat, NEW u \in Nat, t <= u, Sound(j, r, t)
    PROVE  Sound(j, r, u)
<1>1. (r.lastRun # None => r.lastRun \in Nat) /\ (r.running # None => r.running \in Nat)
  BY JobFields, TimesAreNaturals
<1> QED BY <1>1 DEF Sound

LEMMA ValidLater ==
    ASSUME NEW st, NEW t \in Nat, NEW u \in Nat, t <= u, Valid(st, t)
    PROVE  Valid(st, u)
BY SoundLater, StoreOf DEF Valid

LEMMA ClockKeeps == IInv /\ ClockTicks /\ disowned' \in SUBSET Jobs => IInv'
<1> SUFFICES ASSUME IInv, ClockTicks, disowned' \in SUBSET Jobs PROVE IInv'
  OBVIOUS
<1>1. /\ now \in Nat /\ now' \in Nat /\ now' \in Time /\ now <= now'
      /\ UNCHANGED <<disk, mem, svc, current, call, work, known, edits, faults, starts>>
  BY TimesAssumption DEF ClockTicks, IInv, Records, Time
<1>2. Records'
  <2>1. Valid(disk, now')
    BY <1>1, ValidLater DEF IInv, Records
  <2>2. \A s \in Services : mem[s] # None => Valid(mem[s], now')
    BY <1>1, ValidLater DEF IInv, Records
  <2> QED BY <1>1, <2>1, <2>2 DEF IInv, Records, Owned
<1>3. Executions'
  <2>1. ASSUME NEW e \in Execution, Prompt(e, now) PROVE Prompt(e, now')
    BY <1>1, <2>1, ExecutionFields DEF Prompt
  <2>2. \A o \in Owners, j \in Jobs : work[o][j] \in Execution
    BY DEF IInv, Executions
  <2> QED BY <1>1, <2>1, <2>2 DEF IInv, Executions
<1>4. Phases'
  <2>1. \A s \in Services : Phase(s)'
    BY <1>1, PhaseFrame DEF IInv, Phases
  <2> QED BY <1>1, <2>1 DEF IInv, Phases
<1>5. Requests'
  <2>1. ASSUME NEW c \in Calls PROVE Request(c)'
    <3>1. call[c].now <= now'
      <4>1. call[c].now \in Time /\ call[c].now <= now
        BY DEF IInv, Requests, Request, Call
      <4>2. PICK n \in Nat : n = call[c].now
        BY <4>1, TimesAreNaturals
      <4> QED BY <1>1, <4>1, <4>2
    <3>2. Lives
      BY <1>1 DEF Lives
    <3>3. Request(c) /\ call'[c] = call[c] /\ work'[Manual(c)] = work[Manual(c)]
      BY <1>1 DEF IInv, Requests
    <3> QED BY <3>1, <3>2, <3>3, RequestFrame
  <2> QED BY <1>1, <2>1 DEF IInv, Requests
<1>6. Presence'
  BY <1>1 DEF IInv, Presence
<1>7. Counted'
  BY <1>1 DEF IInv, Counted
<1> QED BY <1>2, <1>3, <1>4, <1>5, <1>6, <1>7 DEF IInv

\* The end of the process.
LEMMA CrashKeeps == IInv /\ Crash /\ disowned' \in SUBSET Jobs => IInv'
<1> SUFFICES ASSUME IInv, Crash, disowned' \in SUBSET Jobs PROVE IInv'
  OBVIOUS
<1>1. /\ current' = None
      /\ mem' = [s \in Services |-> None] /\ svc' = [s \in Services |-> Off]
      /\ call' = [c \in Calls |-> IF call[c] = Idle THEN Idle ELSE Over]
      /\ work' = [o \in Owners |-> NoWork]
      /\ UNCHANGED <<now, disk, known, edits, faults, starts>>
  BY DEF Crash
<1>2. now \in Nat
  BY TimesAreNaturals DEF IInv, Records
<1>3. Records'
  BY <1>1 DEF IInv, Records, Owned
<1>4. Executions'
  <2>1. \A o \in Owners : work'[o] = NoWork
    BY <1>1
  <2>2. \A o \in Owners, j \in Jobs : work'[o][j] = NoExecution
    BY <2>1, ConstantRecords
  <2>3. Prompt(NoExecution, now)
    BY <1>2, ConstantRecords DEF Prompt
  <2>4. work' \in [Owners -> [Jobs -> Execution]]
    BY <1>1, ConstantRecords
  <2> QED BY <1>1, <2>2, <2>3, <2>4 DEF Executions
<1>5. Phases'
  <2>1. svc' \in [Services -> Service]
    BY <1>1, ConstantRecords
  <2>2. ASSUME NEW s \in Services PROVE Phase(s)'
    <3>1. svc'[s] = Off /\ mem'[s] = None /\ work'[Tick(s)] = NoWork /\ work'[Catchup(s)] = NoWork
      BY <1>1, OwnersAreApart
    <3> QED BY <3>1, ConstantRecords DEF Phase, Tick, Catchup
  <2> QED BY <2>1, <2>2 DEF Phases
<1>6. \A c \in Calls : call'[c] \in Call /\ call'[c].at \in {"idle", "over"} /\ call'[c].now = 0
  BY <1>1, ConstantRecords
<1>7. Requests'
  <2>1. call' \in [Calls -> Call]
    BY <1>1, <1>6
  <2>2. ASSUME NEW c \in Calls PROVE Request(c)'
    <3>1. work'[Manual(c)] = NoWork
      BY <1>1, OwnersAreApart
    <3> QED BY <1>1, <1>2, <1>6, <3>1, ConstantRecords DEF Request, Manual
  <2> QED BY <2>1, <2>2 DEF Requests
<1>8. Presence'
  BY <1>1, <1>6 DEF Presence
<1>9. Counted'
  BY <1>1 DEF IInv, Counted
<1> QED BY <1>3, <1>4, <1>5, <1>7, <1>8, <1>9 DEF IInv

\* The state in which a start leaves the services beside it: their timers may be stopped.
Stopping(before) ==
    /\ before \in [Services -> Service]
    /\ \A t \in Services : before[t] = svc[t]
          \/ (svc[t] # Off /\ before[t] = [svc[t] EXCEPT !.timer = FALSE])

LEMMA StartKeeps ==
    ASSUME IInv, NEW s \in Services, NEW on \in BOOLEAN, NEW before, NEW saved \in BOOLEAN,
           svc[s] = Off, Stopping(before), Start(s, on, before, saved), disowned' \in SUBSET Jobs
    PROVE  IInv'
<1>1. /\ current' = s /\ starts < MaxStarts /\ starts' = starts + 1
      /\ UNCHANGED <<now, call, work, known, edits>>
  BY DEF Start
<1>2. IF on THEN Keep(s, Unmarked(disk)) /\ SaveChanged(disk, Unmarked(disk), saved)
            ELSE saved /\ UNCHANGED <<mem, disk, faults>>
  BY DEF Start
<1>3. PICK v \in Service : /\ svc' = [before EXCEPT ![s] = v]
                           /\ v.startup \in {"plan", "failed", "done"} /\ v.enabled = on
                           /\ v.startup = "plan" => on
                           /\ ~ v.timer /\ ~ v.running /\ ~ v.bound
  <2>1. PICK phase \in {"plan", "failed", "done"} :
           phase = (IF ~ on THEN "done" ELSE IF saved THEN "plan" ELSE "failed")
    OBVIOUS
  <2>2. PICK marked \in SUBSET Jobs : marked = {j \in Jobs : Marked(disk[j])}
    OBVIOUS
  <2>3. PICK aside \in SUBSET Jobs : aside = IF on THEN marked ELSE {}
    OBVIOUS
  <2>4. \A d \in Service : [d EXCEPT !.startup = phase, !.enabled = on, !.aside = aside]
           \in Service
    BY DEF Service
  <2>5. PICK v \in Service : v = [Off EXCEPT !.startup = phase, !.enabled = on, !.aside = aside]
    BY <2>4, ConstantRecords
  <2>6. v.startup = phase /\ v.enabled = on /\ v.timer = FALSE /\ v.running = FALSE
          /\ v.bound = FALSE
    BY <2>5 DEF Off
  <2>7. svc' = [before EXCEPT ![s] = v]
    BY <2>1, <2>2, <2>3, <2>5 DEF Start
  <2> QED BY <2>1, <2>6, <2>7
<1>4. svc' \in [Services -> Service] /\ svc'[s] = v /\ \A t \in Services \ {s} : svc'[t] = before[t]
  BY <1>3 DEF Stopping
<1>5. Valid(Unmarked(disk), now) /\ Owned(Unmarked(disk), known)
  <2>1. Valid(disk, now) /\ now \in Time /\ Owned(disk, known)
    BY DEF IInv, Records
  <2>2. \A j \in Jobs : Unmarked(disk)[j] = None <=> disk[j] = None
    BY <2>1, UnmarkedIsValid
  <2> QED BY <2>1, <2>2, UnmarkedIsValid DEF Owned
<1>6. Records' /\ (on => mem'[s] # None) /\ \A t \in Services : mem[t] # None => mem'[t] # None
  <2>1. CASE on
    <3>1. disk' \in {disk, Unmarked(disk)} /\ Keep(s, Unmarked(disk))
      BY <1>2, <2>1, SaveWrites
    <3>2. known' \in SUBSET Jobs /\ known \subseteq known' /\ Owned(Unmarked(disk), known')
            /\ now' = now
      BY <1>1, <1>5 DEF IInv, Records
    <3>3. Records' /\ mem'[s] = Unmarked(disk) /\ \A t \in Services \ {s} : mem'[t] = mem[t]
      BY <1>5, <3>1, <3>2, RecordsAreKept DEF IInv
    <3>4. Unmarked(disk) # None
      BY <1>5, NoneAssumption DEF Valid
    <3> QED BY <3>3, <3>4
  <2>2. CASE ~ on
    BY <1>1, <1>2, <2>2, RecordsAreLeft DEF IInv
  <2> QED BY <2>1, <2>2
<1>7. ASSUME NEW t \in Services, t # s
      PROVE  /\ svc[t] # Off => svc'[t] # Off
             /\ Phase(t)'
  <2>1. Phase(t) /\ svc[t] \in Service /\ svc'[t] = before[t]
    BY <1>4, <1>7 DEF IInv, Phases
  <2>2. mem'[t] = mem[t]
    BY <1>2, <1>7 DEF Keep, IInv, Records
  <2>3. work'[Tick(t)] = work[Tick(t)] /\ work'[Catchup(t)] = work[Catchup(t)]
    BY <1>1
  <2>4. CASE svc'[t] = svc[t]
    BY <2>1, <2>2, <2>3, <2>4, PhaseFrame
  <2>5. CASE svc[t] # Off /\ svc'[t] = [svc[t] EXCEPT !.timer = FALSE]
    <3>1. PICK w \in Service : w = svc'[t] /\ ~ w.timer /\ w.startup = svc[t].startup
             /\ w.enabled = svc[t].enabled /\ w.running = svc[t].running /\ w.bound = svc[t].bound
      BY <2>1, <2>5 DEF Service
    <3>2. w.startup # "off" /\ w # Off
      BY <2>1, <2>5, <3>1, NotOff DEF Phase
    <3> QED BY <2>1, <2>2, <2>3, <3>1, <3>2 DEF Phase, Tick, Catchup
  <2> QED BY <2>1, <2>4, <2>5 DEF Stopping
<1>8. Phase(s)'
  <2>1. work[Tick(s)] = NoWork /\ work[Catchup(s)] = NoWork
    BY ConstantRecords DEF IInv, Phases, Phase
  <2>2. v # Off /\ v.startup # "off"
    BY <1>3, NotOff
  <2>3. work'[Tick(s)] = NoWork /\ work'[Catchup(s)] = NoWork
    BY <1>1, <2>1
  <2> QED BY <1>3, <1>4, <1>6, <2>2, <2>3 DEF Phase, Tick, Catchup
<1>9. Phases'
  BY <1>4, <1>7, <1>8 DEF Phases
<1>10. svc'[s] # Off
  BY <1>3, <1>4, NotOff
<1>11. Lives
  BY <1>6, <1>7, <1>10 DEF Lives
<1>12. Executions'
  BY <1>1 DEF IInv, Executions
<1>13. Requests'
  <2>1. ASSUME NEW c \in Calls PROVE Request(c)'
    <3>1. Request(c) /\ call'[c] = call[c] /\ work'[Manual(c)] = work[Manual(c)]
            /\ call[c].now <= now'
      BY <1>1 DEF IInv, Requests, Request
    <3> QED BY <1>11, <3>1, RequestFrame
  <2> QED BY <1>1, <2>1 DEF IInv, Requests
<1>14. Presence'
  BY <1>1, <1>10, NoneAssumption DEF IInv, Presence
<1>15. Counted'
  <2>1. faults' \in 0 .. MaxFaults
    <3>1. CASE on
      BY <1>2, <3>1, SaveWrites, LimitsAssumption DEF IInv, Counted
    <3>2. CASE ~ on
      BY <1>2, <3>2 DEF IInv, Counted
    <3> QED BY <3>1, <3>2
  <2>2. starts' \in 0 .. MaxStarts
    BY <1>1, LimitsAssumption DEF IInv, Counted
  <2> QED BY <1>1, <2>1, <2>2 DEF IInv, Counted
<1> QED BY <1>6, <1>9, <1>12, <1>13, <1>14, <1>15 DEF IInv

-----------------------------------------------------------------------------
(* Executions that are queued and dropped *)

LEMMA OneOwnerChanges ==
    ASSUME Executions, now' = now, now \in Time, NEW o \in Owners, NEW f \in [Jobs -> Execution],
           \A j \in Jobs : Prompt(f[j], now) /\ (f[j].at = "none" => f[j] = NoExecution),
           work' = [work EXCEPT ![o] = f]
    PROVE  Executions' /\ work'[o] = f /\ \A p \in Owners \ {o} : work'[p] = work[p]
<1>1. work' \in [Owners -> [Jobs -> Execution]]
  BY DEF Executions
<1>2. work'[o] = f /\ \A p \in Owners \ {o} : work'[p] = work[p]
  BY DEF Executions
<1>3. \A p \in Owners, j \in Jobs : Prompt(work'[p][j], now)
  BY <1>2 DEF Executions
<1>4. \A p \in Owners, j \in Jobs : work'[p][j].at = "none" => work'[p][j] = NoExecution
  BY <1>2 DEF Executions
<1> QED BY <1>1, <1>2, <1>3, <1>4 DEF Executions

LEMMA FreshIsPrompt ==
    ASSUME now \in Time
    PROVE  Prompt(NoExecution, now) /\ Prompt(Waiting, now)
BY TimesAreNaturals, ConstantRecords DEF Prompt

LEMMA QueuedWork ==
    ASSUME Executions, now' = now, now \in Time, NEW o \in Owners, NEW js \in SUBSET Jobs,
           Queued(o, js)
    PROVE  /\ Executions'
           /\ \A j \in Jobs : work'[o][j] = IF j \in js THEN Waiting ELSE NoExecution
           /\ js # {} => work'[o] # NoWork
           /\ \A p \in Owners \ {o} : work'[p] = work[p]
<1>1. PICK f : f = [j \in Jobs |-> IF j \in js THEN Waiting ELSE NoExecution]
  OBVIOUS
<1>2. f \in [Jobs -> Execution] /\ \A j \in Jobs : f[j] = IF j \in js THEN Waiting ELSE NoExecution
  BY <1>1, ConstantRecords
<1>3. \A j \in Jobs : Prompt(f[j], now) /\ (f[j].at = "none" => f[j] = NoExecution)
  BY <1>2, FreshIsPrompt, ConstantRecords
<1>4. work' = [work EXCEPT ![o] = f]
  BY <1>1 DEF Queued
<1>5. Executions' /\ work'[o] = f /\ \A p \in Owners \ {o} : work'[p] = work[p]
  BY <1>2, <1>3, <1>4, OneOwnerChanges
<1>6. js # {} => f # NoWork
  <2>1. ASSUME NEW j \in js PROVE f # NoWork
    BY <1>2, ConstantRecords
  <2> QED BY <2>1
<1> QED BY <1>2, <1>5, <1>6

LEMMA DroppedWork ==
    ASSUME Executions, now' = now, now \in Time, NEW o \in Owners, Dropped(o)
    PROVE  /\ Executions' /\ work'[o] = NoWork
           /\ \A p \in Owners \ {o} : work'[p] = work[p]
<1>1. PICK f : f = NoWork
  OBVIOUS
<1>2. \A j \in Jobs : Prompt(f[j], now) /\ (f[j].at = "none" => f[j] = NoExecution)
  BY <1>1, FreshIsPrompt, ConstantRecords
<1>3. work' = [work EXCEPT ![o] = f] /\ f \in [Jobs -> Execution]
  BY <1>1, ConstantRecords DEF Dropped
<1> QED BY <1>1, <1>2, <1>3, OneOwnerChanges

\* A section of service s: what remains to be shown of it.
LEMMA SectionKeeps ==
    ASSUME IInv, NEW s \in Services, NEW v \in Service, svc[s] # Off,
           svc' = [svc EXCEPT ![s] = v], v.startup # "off",
           Records', \A t \in Services \ {s} : mem'[t] = mem[t], mem[s] # None => mem'[s] # None,
           Executions', \A o \in Owners \ {Tick(s), Catchup(s)} : work'[o] = work[o],
           Phase(s)', Counted', UNCHANGED <<now, current, call>>
    PROVE  IInv'
<1>1. svc' \in [Services -> Service] /\ svc'[s] = v /\ \A t \in Services \ {s} : svc'[t] = svc[t]
  BY DEF IInv, Phases
<1>2. svc'[s] # Off
  BY <1>1, NotOff
<1>3. Lives
  BY <1>1, <1>2 DEF Lives
<1>4. Phases'
  <2>1. ASSUME NEW t \in Services, t # s PROVE Phase(t)'
    <3>1. work'[Tick(t)] = work[Tick(t)] /\ work'[Catchup(t)] = work[Catchup(t)]
      BY <2>1, OwnersAreApart
    <3>2. Phase(t) /\ svc'[t] = svc[t] /\ mem'[t] = mem[t]
      BY <1>1, <2>1 DEF IInv, Phases
    <3> QED BY <3>1, <3>2, PhaseFrame
  <2> QED BY <1>1, <2>1 DEF Phases
<1>5. Requests'
  <2>1. ASSUME NEW c \in Calls PROVE Request(c)'
    <3>1. work'[Manual(c)] = work[Manual(c)]
      BY OwnersAreApart
    <3>2. Request(c) /\ call'[c] = call[c] /\ call[c].now <= now'
      BY DEF IInv, Requests, Request
    <3> QED BY <1>3, <3>1, <3>2, RequestFrame
  <2> QED BY <2>1 DEF IInv, Requests
<1>6. Presence'
  <2>1. current # None
    BY SomeService DEF IInv
  <2> QED BY <1>3, <2>1, PresenceFrame DEF IInv
<1> QED BY <1>4, <1>5, <1>6 DEF IInv

\* Counters, of a section that may fail to save.
LEMMA FaultsCounted ==
    ASSUME Counted, NEW st, NEW old, NEW saved \in BOOLEAN,
           Save(st, saved) \/ SaveChanged(old, st, saved)
    PROVE  faults' \in 0 .. MaxFaults
<1>1. faults' = (IF saved THEN faults ELSE faults + 1) /\ (~ saved => faults < MaxFaults)
  BY SaveWrites
<1>2. faults \in 0 .. MaxFaults /\ MaxFaults \in Nat
  BY LimitsAssumption DEF Counted
<1> QED BY <1>1, <1>2

-----------------------------------------------------------------------------
(* The sections of a start *)

\* The jobs that a catch-up takes are missed ones: unmarked, and in memory.
LEMMA PlanKeeps ==
    ASSUME IInv, NEW s \in Services, NEW saved \in BOOLEAN, PlanCatchup(s, saved),
           disowned' \in SUBSET Jobs
    PROVE  IInv'
<1>1. /\ svc[s].startup = "plan" /\ UNCHANGED <<now, current, call, known, edits, starts>>
      /\ now \in Time /\ Executions /\ Records
  BY DEF PlanCatchup, IInv, Records
<1>2. svc[s] \in Service /\ Phase(s) /\ svc[s] # Off /\ mem[s] # None
  BY <1>1, ServiceFields DEF IInv
<1>3. svc[s].enabled /\ work[Catchup(s)] = NoWork
  BY <1>1, <1>2 DEF Phase
<1>4. Tick(s) \in Owners /\ Catchup(s) \in Owners /\ Tick(s) # Catchup(s)
  BY OwnersAreApart
<1>5. PICK missed \in SUBSET Jobs : missed = {j \in Jobs \ svc[s].aside : Missed(j, mem[s][j])}
  OBVIOUS
<1>6. CASE missed = {}
  <2>1. /\ svc' = [svc EXCEPT ![s].startup = "arm", ![s].aside = {}]
        /\ UNCHANGED <<disk, faults, mem, work>>
    BY <1>5, <1>6 DEF PlanCatchup
  <2>2. PICK v \in Service : v = [svc[s] EXCEPT !.startup = "arm", !.aside = {}]
    BY <1>2 DEF Service
  <2>3. v.startup = "arm" /\ v.enabled = svc[s].enabled /\ v.timer = svc[s].timer
          /\ v.running = svc[s].running /\ v.bound = svc[s].bound
    BY <1>2, <2>2 DEF Service
  <2>4. svc' = [svc EXCEPT ![s] = v] /\ svc'[s] = v
    BY <2>1, <2>2 DEF IInv, Phases
  <2>5. Records'
    BY <1>1, <2>1, RecordsAreLeft
  <2>6. Executions'
    BY <1>1, <2>1 DEF Executions
  <2>7. Phase(s)'
    BY <1>2, <1>3, <2>1, <2>3, <2>4, NotOff DEF Phase, Tick, Catchup
  <2>8. Counted'
    BY <1>1, <2>1 DEF IInv, Counted
  <2> QED BY <1>1, <1>2, <2>1, <2>3, <2>4, <2>5, <2>6, <2>7, <2>8, SectionKeeps
<1>7. CASE missed # {}
  <2>1. PICK js \in SUBSET missed :
            /\ Keep(s, Marking(mem[s], js))
            /\ Save(Marking(mem[s], js), saved)
            /\ svc' = [svc EXCEPT ![s].startup = IF saved THEN "run" ELSE "failed",
                                  ![s].aside = IF saved THEN missed \ js ELSE {}]
            /\ IF saved THEN Queued(Catchup(s), js) ELSE UNCHANGED work
    BY <1>5, <1>7 DEF PlanCatchup
  <2>2. js \in SUBSET Jobs /\ \A j \in js : mem[s][j] # None
    BY <1>5 DEF Missed
  <2>3. PICK phase \in {"run", "failed"} : phase = IF saved THEN "run" ELSE "failed"
    OBVIOUS
  <2>4. PICK aside \in SUBSET Jobs : aside = IF saved THEN missed \ js ELSE {}
    OBVIOUS
  <2>5. PICK v \in Service : v = [svc[s] EXCEPT !.startup = phase, !.aside = aside]
    BY <1>2 DEF Service
  <2>6. v.startup = phase /\ v.enabled = svc[s].enabled /\ v.timer = svc[s].timer
          /\ v.running = svc[s].running /\ v.bound = svc[s].bound
    BY <1>2, <2>5 DEF Service
  <2>7. svc' = [svc EXCEPT ![s] = v] /\ svc'[s] = v
    BY <2>1, <2>3, <2>4, <2>5 DEF IInv, Phases
  <2>8. Valid(mem[s], now) /\ Owned(mem[s], known)
    BY <1>1, <1>2 DEF Records
  <2>9. Valid(Marking(mem[s], js), now) /\ Owned(Marking(mem[s], js), known)
    <3>1. /\ Valid(Marking(mem[s], js), now)
          /\ \A j \in Jobs : Marking(mem[s], js)[j] = None <=> mem[s][j] = None
      BY <1>1, <2>2, <2>8, MarkingIsValid
    <3> QED BY <2>8, <3>1 DEF Owned
  <2>10. disk' \in {disk, Marking(mem[s], js)}
    BY <2>1, SaveWrites
  <2>11. known' \in SUBSET Jobs /\ known \subseteq known' /\ known' = known /\ now' = now
    BY <1>1 DEF Records
  <2>12. Records' /\ mem'[s] = Marking(mem[s], js) /\ \A t \in Services \ {s} : mem'[t] = mem[t]
    BY <1>1, <2>1, <2>9, <2>10, <2>11, RecordsAreKept
  <2>13. mem'[s] # None
    BY <2>9, <2>12, NoneAssumption DEF Valid
  <2>14. Executions' /\ (\A o \in Owners \ {Catchup(s)} : work'[o] = work[o])
           /\ (~ saved => work'[Catchup(s)] = work[Catchup(s)])
    <3>1. CASE saved
      BY <1>1, <1>4, <2>1, <2>2, <3>1, QueuedWork
    <3>2. CASE ~ saved
      BY <1>1, <2>1, <3>2 DEF Executions
    <3> QED BY <3>1, <3>2
  <2>15. work'[Tick(s)] = work[Tick(s)]
    BY <1>4, <2>14
  <2>16. Phase(s)'
    BY <1>2, <1>3, <2>3, <2>6, <2>7, <2>13, <2>14, <2>15, NotOff DEF Phase, Tick, Catchup
  <2>17. Counted'
    <3>1. faults' \in 0 .. MaxFaults
      BY <2>1, FaultsCounted DEF IInv
    <3> QED BY <1>1, <3>1 DEF IInv, Counted
  <2>18. \A o \in Owners \ {Tick(s), Catchup(s)} : work'[o] = work[o]
    BY <2>14
  <2> QED BY <1>1, <1>2, <2>3, <2>6, <2>7, <2>12, <2>13, <2>14, <2>16, <2>17, <2>18, SectionKeeps
<1> QED BY <1>6, <1>7

\* Putting enabled jobs off into the future.
PutOff(st, late, turn) ==
    [j \in Jobs |-> IF j \in late THEN [st[j] EXCEPT !.next = now + Stagger * turn[j]]
                    ELSE st[j]]

MayPutOff(st, late, turn) ==
    \A j \in late : j \in Jobs /\ st[j] # None /\ st[j].enabled /\ turn[j] \in Nat \ {0}

LEMMA PutOffIsValid ==
    ASSUME now \in Time, NEW st, Valid(st, now), NEW late, NEW turn, MayPutOff(st, late, turn),
           NEW put, put = PutOff(st, late, turn)
    PROVE  /\ Valid(put, now)
           /\ \A j \in Jobs : /\ put[j] = None <=> st[j] = None
                              /\ st[j] # None => put[j].running = st[j].running
                                                   /\ put[j].enabled = st[j].enabled
<1>1. ASSUME NEW j \in Jobs
      PROVE  /\ put[j] \in Job \cup {None}
             /\ put[j] = None <=> st[j] = None
             /\ put[j] # None => Sound(j, put[j], now)
             /\ st[j] # None => put[j].running = st[j].running /\ put[j].enabled = st[j].enabled
  <2>1. CASE j \in late
    <3>1. PICK r \in Job : r = st[j]
      BY <2>1, StoreOf DEF Valid, MayPutOff
    <3>2. Sound(j, r, now) /\ r.enabled
      BY <2>1, <3>1 DEF Valid, MayPutOff
    <3>3. PICK n \in Nat : n = now + Stagger * turn[j] /\ n > now
      <4>1. PICK k \in Nat \ {0} : k = turn[j]
        BY <2>1 DEF MayPutOff
      <4>2. Stagger * k \in Nat /\ Stagger * k > 0
        BY TimesAreNaturals
      <4> QED BY <4>1, <4>2, TimesAreNaturals
    <3>4. PICK q \in Job : q = [r EXCEPT !.next = n]
      BY DEF Job
    <3>5. q.next = n /\ q.running = r.running /\ q.enabled = r.enabled /\ q.lastRun = r.lastRun
      BY <3>4 DEF Job
    <3>6. q.lastRun # None => q.lastRun \in Nat /\ q.lastRun <= now
      BY <3>2, <3>5, JobFields, TimesAreNaturals DEF Sound
    <3>7. Sound(j, q, now)
      <4>1. n # None /\ now \in Nat
        BY NoneAssumption, TimesAreNaturals
      <4>2. q.lastRun # None => q.lastRun < q.next
        BY <3>3, <3>5, <3>6, <4>1
      <4> QED BY <3>2, <3>5, <3>6, <4>1, <4>2 DEF Sound, Unserved
    <3>8. put[j] = q
      BY <2>1, <3>1, <3>3, <3>4 DEF PutOff
    <3>9. r # None /\ q # None
      BY NoneAssumption
    <3> QED BY <3>1, <3>5, <3>7, <3>8, <3>9
  <2>2. CASE j \notin late
    <3>1. put[j] = st[j]
      BY <2>2 DEF PutOff
    <3> QED BY <3>1, StoreOf DEF Valid
  <2> QED BY <2>1, <2>2
<1>2. put \in Store
  BY <1>1 DEF Store, PutOff
<1>3. \A j \in Jobs : put[j] # None => Sound(j, put[j], now)
  BY <1>1
<1>4. Valid(put, now)
  BY <1>2, <1>3 DEF Valid
<1> QED BY <1>1, <1>4

\* q is r, but for when it runs next.
SameMarker(r, q) ==
    /\ q = None <=> r = None
    /\ r # None => q.running = r.running /\ q.enabled = r.enabled

\* The store that a catch-up leaves: results applied, the jobs set aside put off.
LEMMA CatchupStore ==
    ASSUME IInv, NEW s \in Services, NEW saved \in BOOLEAN, ApplyCatchup(s, saved)
    PROVE  \E put \in Store :
              /\ Valid(put, now) /\ Owned(put, known)
              /\ Keep(s, Maintained(put, FALSE)) /\ Save(Maintained(put, FALSE), saved)
              /\ \A j \in Jobs : SameMarker(With(mem[s], Catchup(s))[j], put[j])
<1>1. now \in Time /\ Records /\ Executions /\ svc[s].startup = "run"
  BY DEF ApplyCatchup, IInv, Records
<1>2. svc[s] \in Service /\ mem[s] # None /\ Catchup(s) \in Owners
  BY <1>1, ServiceFields, OwnersAreApart DEF IInv
<1>3. Valid(mem[s], now) /\ Owned(mem[s], known)
  BY <1>1, <1>2 DEF Records
<1>4. \A j \in Jobs : work[Catchup(s)][j] \in Execution /\ Prompt(work[Catchup(s)][j], now)
  BY <1>1, <1>2 DEF Executions
<1>5. PICK ran : ran = With(mem[s], Catchup(s))
  OBVIOUS
<1>6. Valid(ran, now) /\ \A j \in Jobs : mem[s][j] = None => ran[j] = None
  BY <1>1, <1>3, <1>4, <1>5, WithIsValid
<1>7. PICK late \in SUBSET Jobs : late = {j \in svc[s].aside : ran[j] # None /\ ran[j].enabled}
  BY <1>2 DEF Service
<1>8. PICK turn \in Bijection(late, 1 .. Cardinality(late)) :
          LET st == Maintained([j \in Jobs |-> IF j \in late
                                    THEN [ran[j] EXCEPT !.next = now + Stagger * turn[j]]
                                    ELSE ran[j]], FALSE)
          IN  Keep(s, st) /\ Save(st, saved)
  BY <1>5, <1>7 DEF ApplyCatchup
<1>9. \A j \in late : turn[j] \in Nat \ {0}
  <2>1. IsFiniteSet(late)
    BY LimitsAssumption, FS_Subset
  <2>2. Cardinality(late) \in Nat
    BY <2>1, FS_CardinalityType
  <2>3. turn \in [late -> 1 .. Cardinality(late)]
    BY DEF Bijection, Injection
  <2> QED BY <2>2, <2>3
<1>10. PICK put : put = PutOff(ran, late, turn)
  OBVIOUS
<1>11. now \in Time /\ Valid(ran, now) /\ MayPutOff(ran, late, turn)
  BY <1>1, <1>6, <1>7, <1>9 DEF MayPutOff
<1>12. /\ Valid(put, now)
       /\ \A j \in Jobs : /\ put[j] = None <=> ran[j] = None
                          /\ ran[j] # None => put[j].running = ran[j].running
                                                /\ put[j].enabled = ran[j].enabled
  BY <1>10, <1>11, PutOffIsValid
<1>13. Keep(s, Maintained(put, FALSE)) /\ Save(Maintained(put, FALSE), saved)
  BY <1>8, <1>10 DEF PutOff
<1>14. Owned(put, known)
  BY <1>3, <1>6, <1>12 DEF Owned
<1>15. \A j \in Jobs : SameMarker(ran[j], put[j])
  BY <1>12 DEF SameMarker
<1>16. put \in Store
  BY <1>12 DEF Valid
<1> QED BY <1>5, <1>12, <1>13, <1>14, <1>15, <1>16

LEMMA ApplyCatchupKeeps ==
    ASSUME IInv, NEW s \in Services, NEW saved \in BOOLEAN, ApplyCatchup(s, saved),
           disowned' \in SUBSET Jobs
    PROVE  IInv'
<1>1. /\ svc[s].startup = "run" /\ UNCHANGED <<now, current, call, known, edits, starts>>
      /\ now \in Time /\ Executions /\ Records /\ Dropped(Catchup(s))
      /\ svc' = [svc EXCEPT ![s].startup = IF saved THEN "arm" ELSE "failed", ![s].aside = {}]
  BY DEF ApplyCatchup, IInv, Records
<1>2. svc[s] \in Service /\ Phase(s) /\ svc[s] # Off /\ mem[s] # None
  BY <1>1, ServiceFields DEF IInv
<1>3. Tick(s) \in Owners /\ Catchup(s) \in Owners /\ Tick(s) # Catchup(s)
  BY OwnersAreApart
<1>4. PICK put \in Store :
         /\ Valid(put, now) /\ Owned(put, known)
         /\ Keep(s, Maintained(put, FALSE)) /\ Save(Maintained(put, FALSE), saved)
  BY CatchupStore
<1>5. Valid(Maintained(put, FALSE), now) /\ Owned(Maintained(put, FALSE), known)
  BY <1>1, <1>4, MaintainedIsOwned
<1>6. disk' \in {disk, Maintained(put, FALSE)}
  BY <1>4, SaveWrites
<1>7. known' \in SUBSET Jobs /\ known \subseteq known' /\ known' = known /\ now' = now
  BY <1>1 DEF Records
<1>8. Records' /\ mem'[s] = Maintained(put, FALSE) /\ \A t \in Services \ {s} : mem'[t] = mem[t]
  BY <1>1, <1>4, <1>5, <1>6, <1>7, RecordsAreKept
<1>9. mem'[s] # None
  BY <1>5, <1>8, NoneAssumption DEF Valid
<1>10. PICK phase \in {"arm", "failed"} : phase = IF saved THEN "arm" ELSE "failed"
  OBVIOUS
<1>11. PICK v \in Service : v = [svc[s] EXCEPT !.startup = phase, !.aside = {}]
  BY <1>2 DEF Service
<1>12. v.startup = phase /\ v.enabled = svc[s].enabled /\ v.timer = svc[s].timer
         /\ v.running = svc[s].running /\ v.bound = svc[s].bound
  BY <1>2, <1>11 DEF Service
<1>13. svc' = [svc EXCEPT ![s] = v] /\ svc'[s] = v
  BY <1>1, <1>10, <1>11 DEF IInv, Phases
<1>14. Executions' /\ work'[Catchup(s)] = NoWork
         /\ \A o \in Owners \ {Catchup(s)} : work'[o] = work[o]
  BY <1>1, <1>3, DroppedWork
<1>15. work'[Tick(s)] = work[Tick(s)] /\ \A o \in Owners \ {Tick(s), Catchup(s)} : work'[o] = work[o]
  BY <1>3, <1>14
<1>16. svc[s].enabled
  BY <1>1, <1>2 DEF Phase
<1>17. Phase(s)'
  BY <1>2, <1>9, <1>10, <1>12, <1>13, <1>14, <1>15, <1>16, NotOff DEF Phase, Tick, Catchup
<1>18. Counted'
  <2>1. faults' \in 0 .. MaxFaults
    BY <1>4, FaultsCounted DEF IInv
  <2> QED BY <1>1, <2>1 DEF IInv, Counted
<1> QED BY <1>1, <1>2, <1>8, <1>9, <1>10, <1>12, <1>13, <1>14, <1>15, <1>17, <1>18, SectionKeeps

LEMMA ArmKeeps ==
    ASSUME IInv, NEW s \in Services, NEW saved \in BOOLEAN, ArmScheduler(s, saved),
           disowned' \in SUBSET Jobs
    PROVE  IInv'
<1>1. PICK st : st = Recomputed(mem[s])
  OBVIOUS
<1>2. /\ svc[s].startup = "arm" /\ UNCHANGED <<now, current, call, work, known, edits, starts>>
      /\ now \in Time /\ Executions /\ Records
      /\ Keep(s, st) /\ SaveChanged(mem[s], st, saved)
      /\ svc' = [svc EXCEPT ![s].startup = IF saved THEN "done" ELSE "failed",
                            ![s].timer = IF saved THEN Armed(s, st) ELSE @]
  BY <1>1 DEF ArmScheduler, IInv, Records
<1>3. svc[s] \in Service /\ Phase(s) /\ svc[s] # Off /\ mem[s] # None /\ svc[s].enabled
  BY <1>2, ServiceFields DEF IInv, Phase
<1>4. Valid(st, now) /\ Owned(st, known)
  <2>1. Valid(mem[s], now) /\ Owned(mem[s], known)
    BY <1>2, <1>3 DEF Records
  <2> QED BY <1>1, <1>2, <2>1, RecomputedIsOwned
<1>5. disk' \in {disk, st}
  BY <1>2, SaveWrites
<1>6. known' \in SUBSET Jobs /\ known \subseteq known' /\ known' = known /\ now' = now
  BY <1>2 DEF Records
<1>7. Records' /\ mem'[s] = st /\ \A t \in Services \ {s} : mem'[t] = mem[t]
  BY <1>2, <1>4, <1>5, <1>6, RecordsAreKept
<1>8. mem'[s] # None
  BY <1>4, <1>7, NoneAssumption DEF Valid
<1>9. PICK phase \in {"done", "failed"} : phase = IF saved THEN "done" ELSE "failed"
  OBVIOUS
<1>10. PICK timer \in BOOLEAN : timer <=> IF saved THEN Armed(s, st) ELSE svc[s].timer
  OBVIOUS
<1>11. timer = IF saved THEN Armed(s, st) ELSE svc[s].timer
  <2>1. svc[s].timer \in BOOLEAN /\ Armed(s, st) \in BOOLEAN
    BY <1>3 DEF Service, Armed
  <2> QED BY <1>10, <2>1
<1>12. PICK v \in Service : v = [svc[s] EXCEPT !.startup = phase, !.timer = timer]
  BY <1>3 DEF Service
<1>13. v.startup = phase /\ v.enabled = svc[s].enabled /\ v.timer = timer
         /\ v.running = svc[s].running /\ v.bound = svc[s].bound
  BY <1>3, <1>12 DEF Service
<1>14. svc' = [svc EXCEPT ![s] = v] /\ svc'[s] = v
  BY <1>2, <1>9, <1>11, <1>12 DEF IInv, Phases
<1>15. Executions' /\ \A o \in Owners : work'[o] = work[o]
  BY <1>2 DEF Executions
<1>16. work[Catchup(s)] = NoWork
  BY <1>2, <1>3 DEF Phase
<1>17. Phase(s)'
  BY <1>2, <1>3, <1>8, <1>9, <1>13, <1>14, <1>16, NotOff DEF Phase, Tick, Catchup
<1>18. Counted'
  <2>1. faults' \in 0 .. MaxFaults
    BY <1>2, FaultsCounted DEF IInv
  <2> QED BY <1>2, <2>1 DEF IInv, Counted
<1>19. v.startup # "off" /\ \A o \in Owners \ {Tick(s), Catchup(s)} : work'[o] = work[o]
  BY <1>9, <1>13, <1>15
<1>20. UNCHANGED <<now, current, call>>
  BY <1>2
<1> QED BY <1>3, <1>7, <1>8, <1>14, <1>15, <1>17, <1>18, <1>19, <1>20, SectionKeeps

-----------------------------------------------------------------------------
(* Ticks *)

LEMMA TimerFiresKeeps ==
    ASSUME IInv, NEW s \in Services, NEW saved \in BOOLEAN, TimerFires(s, saved),
           disowned' \in SUBSET Jobs
    PROVE  IInv'
<1>1. PICK due \in SUBSET Jobs : due = {j \in Jobs : Runnable(disk[j])}
  OBVIOUS
<1>2. PICK st : st = IF due = {} THEN Maintained(disk, TRUE) ELSE Marking(disk, due)
  OBVIOUS
<1>3. /\ svc[s].timer /\ ~ svc[s].running /\ UNCHANGED <<now, current, call, known, edits, starts>>
      /\ now \in Time /\ Executions /\ Records
  BY DEF TimerFires, IInv, Records
<1>4. /\ Keep(s, st)
      /\ Save(st, saved) \/ SaveChanged(disk, st, saved)
      /\ IF due # {} /\ saved
         THEN /\ svc' = [svc EXCEPT ![s].running = TRUE, ![s].bound = TRUE]
              /\ Queued(Tick(s), due)
         ELSE Rearm(s, st) /\ UNCHANGED work
  BY <1>1, <1>2 DEF TimerFires
<1>5. svc[s] \in Service /\ Phase(s) /\ svc[s] # Off /\ mem[s] # None /\ svc[s].enabled
        /\ svc[s].startup # "off"
  BY <1>3, ServiceFields DEF IInv, Phase
<1>6. Valid(st, now) /\ Owned(st, known)
  <2>1. Valid(disk, now) /\ Owned(disk, known)
    BY <1>3 DEF Records
  <2>2. CASE due = {}
    BY <1>2, <1>3, <2>1, <2>2, MaintainedIsOwned
  <2>3. CASE due # {}
    <3>1. \A j \in due : disk[j] # None
      BY <1>1 DEF Runnable
    <3>2. /\ Valid(Marking(disk, due), now)
          /\ \A j \in Jobs : Marking(disk, due)[j] = None <=> disk[j] = None
      BY <1>3, <2>1, <3>1, MarkingIsValid
    <3> QED BY <1>2, <2>1, <2>3, <3>2 DEF Owned
  <2> QED BY <2>2, <2>3
<1>7. disk' \in {disk, st}
  BY <1>4, SaveWrites
<1>8. known' \in SUBSET Jobs /\ known \subseteq known' /\ known' = known /\ now' = now
  BY <1>3 DEF Records
<1>9. Records' /\ mem'[s] = st /\ \A t \in Services \ {s} : mem'[t] = mem[t]
  BY <1>3, <1>4, <1>6, <1>7, <1>8, RecordsAreKept
<1>10. mem'[s] # None
  BY <1>6, <1>9, NoneAssumption DEF Valid
<1>11. Tick(s) \in Owners /\ Catchup(s) \in Owners /\ Tick(s) # Catchup(s)
  BY OwnersAreApart
<1>12. Counted'
  <2>1. faults' \in 0 .. MaxFaults
    BY <1>4, FaultsCounted DEF IInv
  <2> QED BY <1>3, <2>1 DEF IInv, Counted
<1>13. UNCHANGED <<now, current, call>>
  BY <1>3
<1>14. CASE due # {} /\ saved
  <2>1. PICK v \in Service : v = [svc[s] EXCEPT !.running = TRUE, !.bound = TRUE]
    BY <1>5 DEF Service
  <2>2. v.startup = svc[s].startup /\ v.enabled = svc[s].enabled /\ v.timer = svc[s].timer
          /\ v.running /\ v.bound
    BY <1>5, <2>1 DEF Service
  <2>3. svc' = [svc EXCEPT ![s] = v] /\ svc'[s] = v
    BY <1>4, <1>14, <2>1 DEF IInv, Phases
  <2>4. Executions' /\ work'[Tick(s)] # NoWork /\ \A o \in Owners \ {Tick(s)} : work'[o] = work[o]
    BY <1>3, <1>4, <1>11, <1>14, QueuedWork
  <2>5. work'[Catchup(s)] = work[Catchup(s)]
    BY <1>11, <2>4
  <2>6. Phase(s)'
    BY <1>5, <1>10, <2>2, <2>3, <2>4, <2>5, NotOff DEF Phase, Tick, Catchup
  <2>7. v.startup # "off" /\ \A o \in Owners \ {Tick(s), Catchup(s)} : work'[o] = work[o]
    BY <1>5, <2>2, <2>4
  <2> QED BY <1>5, <1>9, <1>10, <1>12, <1>13, <2>3, <2>4, <2>6, <2>7, SectionKeeps
<1>15. CASE ~ (due # {} /\ saved)
  <2>1. PICK timer \in BOOLEAN : timer = Armed(s, st)
    BY DEF Armed
  <2>2. PICK v \in Service : v = [svc[s] EXCEPT !.timer = timer]
    BY <1>5 DEF Service
  <2>3. v.startup = svc[s].startup /\ v.enabled = svc[s].enabled
          /\ v.running = svc[s].running /\ v.bound = svc[s].bound
    BY <1>5, <2>2 DEF Service
  <2>4. svc' = [svc EXCEPT ![s] = v] /\ svc'[s] = v
    BY <1>4, <1>15, <2>1, <2>2 DEF IInv, Phases, Rearm
  <2>5. Executions' /\ \A o \in Owners : work'[o] = work[o]
    BY <1>3, <1>4, <1>15 DEF Executions
  <2>6. work'[Tick(s)] = work[Tick(s)] /\ work'[Catchup(s)] = work[Catchup(s)]
    BY <1>11, <2>5
  <2>7. Phase(s)'
    BY <1>5, <1>10, <2>3, <2>4, <2>6, NotOff DEF Phase, Tick, Catchup
  <2>8. v.startup # "off" /\ \A o \in Owners \ {Tick(s), Catchup(s)} : work'[o] = work[o]
    BY <1>5, <2>3, <2>5
  <2> QED BY <1>5, <1>9, <1>10, <1>12, <1>13, <2>4, <2>5, <2>7, <2>8, SectionKeeps
<1> QED BY <1>14, <1>15

LEMMA ApplyTickKeeps ==
    ASSUME IInv, NEW s \in Services, NEW saved \in BOOLEAN, ApplyTick(s, saved),
           disowned' \in SUBSET Jobs
    PROVE  IInv'
<1>1. PICK st : st = Maintained(With(disk, Tick(s)), FALSE)
  OBVIOUS
<1>2. /\ svc[s].running /\ UNCHANGED <<now, current, call, known, edits, starts>>
      /\ now \in Time /\ Executions /\ Records
      /\ Keep(s, st) /\ Save(st, saved) /\ Dropped(Tick(s))
      /\ svc' = [svc EXCEPT ![s].running = FALSE, ![s].bound = FALSE,
                            ![s].timer = Armed(s, st)]
  BY <1>1 DEF ApplyTick, IInv, Records
<1>3. svc[s] \in Service /\ Phase(s) /\ svc[s] # Off /\ mem[s] # None /\ svc[s].enabled
        /\ svc[s].startup # "off"
  BY <1>2, ServiceFields DEF IInv, Phase
<1>4. Tick(s) \in Owners /\ Catchup(s) \in Owners /\ Tick(s) # Catchup(s)
  BY OwnersAreApart
<1>5. Valid(st, now) /\ Owned(st, known)
  <2>1. Valid(disk, now) /\ Owned(disk, known)
    BY <1>2 DEF Records
  <2>2. \A j \in Jobs : work[Tick(s)][j] \in Execution /\ Prompt(work[Tick(s)][j], now)
    BY <1>2, <1>4 DEF Executions
  <2>3. PICK ran : ran = With(disk, Tick(s))
    OBVIOUS
  <2>4. Valid(ran, now) /\ \A j \in Jobs : disk[j] = None => ran[j] = None
    BY <1>2, <2>1, <2>2, <2>3, WithIsValid
  <2>5. Owned(ran, known)
    BY <2>1, <2>4 DEF Owned
  <2> QED BY <1>1, <1>2, <2>3, <2>4, <2>5, MaintainedIsOwned
<1>6. disk' \in {disk, st}
  BY <1>2, SaveWrites
<1>7. known' \in SUBSET Jobs /\ known \subseteq known' /\ known' = known /\ now' = now
  BY <1>2 DEF Records
<1>8. Records' /\ mem'[s] = st /\ \A t \in Services \ {s} : mem'[t] = mem[t]
  BY <1>2, <1>5, <1>6, <1>7, RecordsAreKept
<1>9. mem'[s] # None
  BY <1>5, <1>8, NoneAssumption DEF Valid
<1>10. PICK timer \in BOOLEAN : timer = Armed(s, st)
  BY DEF Armed
<1>11. PICK v \in Service : v = [svc[s] EXCEPT !.running = FALSE, !.bound = FALSE, !.timer = timer]
  BY <1>3 DEF Service
<1>12. v.startup = svc[s].startup /\ v.enabled = svc[s].enabled
         /\ ~ v.running /\ ~ v.bound
  BY <1>3, <1>11 DEF Service
<1>13. svc' = [svc EXCEPT ![s] = v] /\ svc'[s] = v
  BY <1>2, <1>10, <1>11 DEF IInv, Phases
<1>14. Executions' /\ work'[Tick(s)] = NoWork /\ \A o \in Owners \ {Tick(s)} : work'[o] = work[o]
  BY <1>2, <1>4, DroppedWork
<1>15. work'[Catchup(s)] = work[Catchup(s)]
  BY <1>4, <1>14
<1>16. Phase(s)'
  BY <1>3, <1>9, <1>12, <1>13, <1>14, <1>15, NotOff DEF Phase, Tick, Catchup
<1>17. Counted'
  <2>1. faults' \in 0 .. MaxFaults
    BY <1>2, FaultsCounted DEF IInv
  <2> QED BY <1>2, <2>1 DEF IInv, Counted
<1>18. v.startup # "off" /\ \A o \in Owners \ {Tick(s), Catchup(s)} : work'[o] = work[o]
  BY <1>3, <1>12, <1>14
<1>19. UNCHANGED <<now, current, call>>
  BY <1>2
<1> QED BY <1>3, <1>8, <1>9, <1>13, <1>14, <1>16, <1>17, <1>18, <1>19, SectionKeeps

\* A section of a service that goes on with what it is doing.
GoesOn(s) ==
    \E v \in Service :
        /\ svc' = [svc EXCEPT ![s] = v]
        /\ v.startup = svc[s].startup /\ v.enabled = svc[s].enabled /\ v.running = svc[s].running
        /\ v.timer \/ v.bound => v.enabled

LEMMA GoingOn ==
    ASSUME IInv, NEW s \in Services, svc[s] # Off, GoesOn(s),
           \A t \in Services \ {s} : mem'[t] = mem[t], mem'[s] # None,
           \A t \in Services : work'[Tick(t)] = work[Tick(t)] /\ work'[Catchup(t)] = work[Catchup(t)]
    PROVE  Phases' /\ Lives
<1>1. PICK v \in Service :
        /\ svc' = [svc EXCEPT ![s] = v]
        /\ v.startup = svc[s].startup /\ v.enabled = svc[s].enabled /\ v.running = svc[s].running
        /\ v.timer \/ v.bound => v.enabled
  BY DEF GoesOn
<1>2. svc' \in [Services -> Service] /\ svc'[s] = v /\ \A t \in Services \ {s} : svc'[t] = svc[t]
  BY <1>1 DEF IInv, Phases
<1>3. Phase(s) /\ svc[s].startup # "off"
  BY ServiceFields DEF IInv
<1>4. svc'[s] # Off
  BY <1>1, <1>2, <1>3, NotOff
<1>5. Phase(s)'
  BY <1>1, <1>2, <1>3, <1>4 DEF Phase, Tick, Catchup
<1>6. ASSUME NEW t \in Services, t # s PROVE Phase(t)'
  <2>1. Phase(t) /\ svc'[t] = svc[t] /\ mem'[t] = mem[t]
    BY <1>2, <1>6 DEF IInv, Phases
  <2> QED BY <2>1, PhaseFrame
<1>7. Lives
  BY <1>2, <1>4 DEF Lives
<1> QED BY <1>2, <1>5, <1>6, <1>7 DEF Phases

LEMMA UnchangedGoesOn ==
    ASSUME IInv, NEW s \in Services, svc' = svc
    PROVE  GoesOn(s)
<1>1. svc[s] \in Service /\ Phase(s)
  BY DEF IInv, Phases
<1>2. svc' = [svc EXCEPT ![s] = svc[s]]
  BY DEF IInv, Phases
<1>3. svc[s].timer \/ svc[s].bound => svc[s].enabled
  BY <1>1 DEF Phase
<1> QED BY <1>1, <1>2, <1>3 DEF GoesOn

-----------------------------------------------------------------------------
(* Executions *)

LEMMA OneExecutionChanges ==
    ASSUME Executions, now' = now, now \in Time, NEW o \in Owners, NEW j \in Jobs,
           NEW e \in Execution, Prompt(e, now), e.at # "none",
           work' = [work EXCEPT ![o][j] = e]
    PROVE  /\ Executions' /\ work'[o][j] = e
           /\ \A i \in Jobs \ {j} : work'[o][i] = work[o][i]
           /\ work'[o] # NoWork
           /\ \A p \in Owners \ {o} : work'[p] = work[p]
<1>1. PICK f : f = [work[o] EXCEPT ![j] = e]
  OBVIOUS
<1>2. f \in [Jobs -> Execution] /\ f[j] = e /\ \A i \in Jobs \ {j} : f[i] = work[o][i]
  BY <1>1 DEF Executions
<1>3. \A i \in Jobs : Prompt(f[i], now) /\ (f[i].at = "none" => f[i] = NoExecution)
  BY <1>2 DEF Executions
<1>4. work' = [work EXCEPT ![o] = f]
  BY <1>1 DEF Executions
<1>5. Executions' /\ work'[o] = f /\ \A p \in Owners \ {o} : work'[p] = work[p]
  BY <1>2, <1>3, <1>4, OneOwnerChanges
<1>6. f # NoWork
  BY <1>2, ConstantRecords
<1> QED BY <1>2, <1>5, <1>6

\* An execution begins, or ends.
LEMMA ExecutionGoesOn ==
    ASSUME Executions, now' = now, now \in Time, NEW o \in Owners, NEW j \in Jobs,
           \/ work[o][j].at = "waiting" /\ Started(o, j)
           \/ \E status \in Outcomes[j] : Ends(o, j, status)
    PROVE  /\ Executions' /\ work'[o][j].at \in {"running", "ended"}
           /\ work[o][j].at \in {"waiting", "running"}
           /\ \A i \in Jobs \ {j} : work'[o][i] = work[o][i]
           /\ work'[o] # NoWork /\ work[o] # NoWork
           /\ \A p \in Owners \ {o} : work'[p] = work[p]
<1>1. PICK d \in Execution : d = work[o][j]
  BY DEF Executions
<1>2. d.at \in {"waiting", "running"} /\ Prompt(d, now)
  BY <1>1 DEF Ends, Executions
<1>3. work[o] # NoWork
  BY <1>1, <1>2, ConstantRecords
<1>4. PICK n \in Nat : n = now
  BY TimesAreNaturals
<1>5. \E e \in Execution : /\ work' = [work EXCEPT ![o][j] = e] /\ Prompt(e, now)
                           /\ e.at \in {"running", "ended"}
  <2>1. CASE work[o][j].at = "waiting" /\ Started(o, j)
    <3>1. PICK e \in Execution : e = [d EXCEPT !.at = "running", !.started = now]
      BY DEF Execution
    <3>2. e.at = "running" /\ e.started = now /\ e.ended = d.ended
      BY <3>1 DEF Execution
    <3>3. work' = [work EXCEPT ![o][j] = e]
      BY <1>1, <2>1, <3>1 DEF Started, Executions
    <3>4. Prompt(e, now)
      BY <1>2, <1>4, <3>2 DEF Prompt
    <3> QED BY <3>2, <3>3, <3>4
  <2>2. CASE \E status \in Outcomes[j] : Ends(o, j, status)
    <3>1. PICK status \in Outcomes[j] : Ends(o, j, status)
      BY <2>2
    <3>2. status \in (UNION {Outcomes[i] : i \in Jobs}) \cup {None}
      OBVIOUS
    <3>3. PICK e \in Execution : e = [d EXCEPT !.at = "ended", !.ended = now, !.status = status]
      BY <3>2 DEF Execution
    <3>4. e.at = "ended" /\ e.started = d.started /\ e.ended = now
      BY <3>3 DEF Execution
    <3>5. work' = [work EXCEPT ![o][j] = e]
      BY <1>1, <3>1, <3>3 DEF Ends, Executions
    <3>6. Prompt(e, now)
      BY <1>2, <1>4, <3>4 DEF Prompt
    <3> QED BY <3>4, <3>5, <3>6
  <2> QED BY <2>1, <2>2
<1>6. PICK e \in Execution : /\ work' = [work EXCEPT ![o][j] = e] /\ Prompt(e, now)
                             /\ e.at \in {"running", "ended"}
  BY <1>5
<1>7. /\ Executions' /\ work'[o][j] = e
      /\ \A i \in Jobs \ {j} : work'[o][i] = work[o][i]
      /\ work'[o] # NoWork
      /\ \A p \in Owners \ {o} : work'[p] = work[p]
  BY <1>6, OneExecutionChanges
<1> QED BY <1>1, <1>2, <1>3, <1>6, <1>7

LEMMA ExecutionKeeps ==
    ASSUME IInv, NEW o \in Owners, NEW j \in Jobs,
           \/ work[o][j].at = "waiting" /\ Started(o, j)
           \/ \E status \in Outcomes[j] : Ends(o, j, status),
           UNCHANGED <<now, svc, current, call, edits, faults, starts>>, Records',
           \A t \in Services : mem'[t] = None <=> mem[t] = None, disowned' \in SUBSET Jobs
    PROVE  IInv'
<1>1. now \in Time /\ now' = now /\ Executions
  BY DEF IInv, Records
<1>2. /\ Executions' /\ work'[o][j].at \in {"running", "ended"}
      /\ work[o][j].at \in {"waiting", "running"}
      /\ \A i \in Jobs \ {j} : work'[o][i] = work[o][i]
      /\ work'[o] # NoWork /\ work[o] # NoWork
      /\ \A p \in Owners \ {o} : work'[p] = work[p]
  BY <1>1, ExecutionGoesOn
<1>3. \A p \in Owners : work'[p] = NoWork <=> work[p] = NoWork
  BY <1>2
<1>4. Phases'
  <2>1. ASSUME NEW t \in Services PROVE Phase(t)'
    <3>1. Phase(t) /\ svc'[t] = svc[t] /\ (mem'[t] = None <=> mem[t] = None)
      BY DEF IInv, Phases
    <3>2. /\ work'[Tick(t)] = NoWork <=> work[Tick(t)] = NoWork
          /\ work'[Catchup(t)] = NoWork <=> work[Catchup(t)] = NoWork
      BY <1>3, OwnersAreApart
    <3> QED BY <3>1, <3>2 DEF Phase, Tick, Catchup
  <2> QED BY <2>1 DEF IInv, Phases
<1>5. Requests'
  <2>1. ASSUME NEW c \in Calls PROVE Request(c)'
    <3>1. Request(c) /\ call'[c] = call[c] /\ svc' = svc
            /\ \A t \in Services : mem'[t] = None <=> mem[t] = None
      BY DEF IInv, Requests
    <3>2. work'[Manual(c)] = NoWork <=> work[Manual(c)] = NoWork
      BY <1>3, OwnersAreApart
    <3>3. ASSUME NEW i \in Jobs, work'[Manual(c)][i].at # "none" PROVE call[c].job = i
      <4>1. CASE Manual(c) = o /\ i = j
        BY <1>2, <3>1, <4>1 DEF Request
      <4>2. CASE ~ (Manual(c) = o /\ i = j)
        <5>1. work'[Manual(c)][i] = work[Manual(c)][i]
          BY <1>2, <4>2, OwnersAreApart
        <5> QED BY <3>1, <3>3, <5>1 DEF Request
      <4> QED BY <4>1, <4>2
    <3> QED BY <1>1, <3>1, <3>2, <3>3 DEF Request, Manual
  <2> QED BY <2>1 DEF IInv, Requests
<1>6. Presence'
  <2>1. current # None
    BY <1>2 DEF IInv, Presence
  <2> QED BY <2>1 DEF IInv, Presence
<1>7. Counted'
  BY DEF IInv, Counted
<1> QED BY <1>2, <1>4, <1>5, <1>6, <1>7 DEF IInv

LEMMA StartDueKeeps ==
    ASSUME IInv, NEW s \in Services, NEW j \in Jobs, StartDue(s, j), disowned' \in SUBSET Jobs
    PROVE  IInv'
<1>1. /\ work[Tick(s)][j].at = "waiting" /\ Started(Tick(s), j) /\ Tick(s) \in Owners
      /\ UNCHANGED <<now, disk, svc, current, call, known, edits, faults, starts>>
      /\ now \in Time /\ Records /\ Executions
  BY OwnersAreApart DEF StartDue, IInv, Records
<1>2. svc[s].running /\ svc[s] # Off /\ mem[s] # None
  <2>1. work[Tick(s)] # NoWork
    BY <1>1, ConstantRecords
  <2> QED BY <2>1, ServiceFields DEF IInv, Phase
<1>3. Records' /\ \A t \in Services : mem'[t] = None <=> mem[t] = None
  <2>1. CASE svc[s].bound /\ mem[s][j] # None
    <3>1. PICK st : st = Marking(mem[s], {j})
      OBVIOUS
    <3>2. Valid(mem[s], now) /\ Owned(mem[s], known)
      BY <1>1, <1>2 DEF Records
    <3>3. Valid(st, now) /\ \A i \in Jobs : st[i] = None <=> mem[s][i] = None
      BY <1>1, <2>1, <3>1, <3>2, MarkingIsValid
    <3>4. st = [mem[s] EXCEPT ![j].running = now]
      <4>1. mem[s] = [i \in Jobs |-> mem[s][i]]
        BY <3>2 DEF Valid, Store
      <4> QED BY <3>1, <4>1 DEF Marking
    <3>5. Keep(s, st)
      BY <1>1, <2>1, <3>4 DEF StartDue, Keep
    <3>6. Owned(st, known') /\ known' \in SUBSET Jobs /\ known \subseteq known' /\ now' = now
            /\ disk' \in {disk, st}
      BY <1>1, <3>2, <3>3 DEF Owned, Records
    <3>7. Records' /\ mem'[s] = st /\ \A t \in Services \ {s} : mem'[t] = mem[t]
      BY <1>1, <3>3, <3>5, <3>6, RecordsAreKept
    <3>8. st # None
      BY <3>3, NoneAssumption DEF Valid
    <3> QED BY <1>2, <3>7, <3>8
  <2>2. CASE ~ (svc[s].bound /\ mem[s][j] # None)
    <3>1. mem' = mem
      BY <2>2 DEF StartDue
    <3> QED BY <1>1, <3>1, RecordsAreLeft
  <2> QED BY <2>1, <2>2
<1>4. UNCHANGED <<now, svc, current, call, edits, faults, starts>>
  BY <1>1
<1> QED BY <1>1, <1>3, <1>4, ExecutionKeeps

LEMMA StartMissedKeeps ==
    ASSUME IInv, NEW s \in Services, NEW j \in Jobs, StartMissed(s, j), disowned' \in SUBSET Jobs
    PROVE  IInv'
<1>1. /\ work[Catchup(s)][j].at = "waiting" /\ Started(Catchup(s), j) /\ Catchup(s) \in Owners
      /\ UNCHANGED <<now, disk, mem, svc, current, call, known, edits, faults, starts>>
  BY OwnersAreApart DEF StartMissed
<1>2. Records' /\ \A t \in Services : mem'[t] = None <=> mem[t] = None
  BY <1>1, RecordsAreLeft DEF IInv
<1>3. UNCHANGED <<now, svc, current, call, edits, faults, starts>>
  BY <1>1
<1> QED BY <1>1, <1>2, <1>3, ExecutionKeeps

LEMMA EndsKeeps ==
    ASSUME IInv, NEW o \in Owners, NEW j \in Jobs, NEW status \in Outcomes[j], Ends(o, j, status),
           disowned' \in SUBSET Jobs
    PROVE  IInv'
<1>1. UNCHANGED <<now, disk, mem, svc, current, call, known, edits, faults, starts>>
  BY DEF Ends
<1>2. Records' /\ \A t \in Services : mem'[t] = None <=> mem[t] = None
  BY <1>1, RecordsAreLeft DEF IInv
<1>3. UNCHANGED <<now, svc, current, call, edits, faults, starts>>
  BY <1>1
<1> QED BY <1>2, <1>3, ExecutionKeeps

-----------------------------------------------------------------------------
(* Manual runs *)

\* A section outside of starts and ticks: what remains to be shown of it.
LEMMA OutsideKeeps ==
    ASSUME IInv, NEW s \in Services, svc[s] # Off, GoesOn(s), Records',
           \A t \in Services \ {s} : mem'[t] = mem[t], mem'[s] # None, Executions',
           \A t \in Services : work'[Tick(t)] = work[Tick(t)] /\ work'[Catchup(t)] = work[Catchup(t)],
           call' \in [Calls -> Call],
           \A c \in Calls : Request(c)' \/ (call'[c] = call[c] /\ work'[Manual(c)] = work[Manual(c)]),
           UNCHANGED <<now, current>>, Counted'
    PROVE  IInv'
<1>1. Phases' /\ Lives
  BY GoingOn
<1>2. \A c \in Calls : Request(c)'
  <2>1. ASSUME NEW c \in Calls, call'[c] = call[c], work'[Manual(c)] = work[Manual(c)]
        PROVE  Request(c)'
    <3>1. Request(c) /\ call[c].now <= now'
      BY DEF IInv, Requests, Request
    <3> QED BY <1>1, <2>1, <3>1, RequestFrame
  <2> QED BY <2>1
<1>3. Requests'
  BY <1>2 DEF Requests
<1>4. Presence'
  <2>1. current # None
    BY SomeService DEF IInv
  <2> QED BY <1>1, <2>1, PresenceFrame DEF IInv
<1> QED BY <1>1, <1>3, <1>4 DEF IInv

\* The service behind the gateway's methods.
LEMMA CurrentService ==
    ASSUME IInv, current # None
    PROVE  current \in Services /\ svc[current] # Off
BY DEF IInv, Presence

LEMMA MaintainedMemory ==
    ASSUME IInv, current # None,
           NEW st, st = Maintained(InMemory(current), FALSE), Keep(current, st),
           UNCHANGED <<now, disk, known>>
    PROVE  /\ Records' /\ mem'[current] = st /\ mem'[current] # None
           /\ \A t \in Services \ {current} : mem'[t] = mem[t]
<1>1. current \in Services /\ Records
  BY CurrentService DEF IInv
<1>2. Valid(InMemory(current), now) /\ Owned(InMemory(current), known)
  BY <1>1, InMemoryIsValid
<1>3. Valid(st, now) /\ Owned(st, known)
  BY <1>1, <1>2, MaintainedIsOwned
<1>4. Owned(st, known') /\ known' \in SUBSET Jobs /\ known \subseteq known' /\ now' = now
        /\ disk' \in {disk, st}
  BY <1>1, <1>3 DEF Records
<1>5. Records' /\ mem'[current] = st /\ \A t \in Services \ {current} : mem'[t] = mem[t]
  BY <1>1, <1>3, <1>4, RecordsAreKept
<1>6. st # None
  BY <1>3, NoneAssumption DEF Valid
<1> QED BY <1>5, <1>6

LEMMA PreflightKeeps ==
    ASSUME IInv, NEW c \in Calls, NEW j \in Jobs, NEW force \in BOOLEAN, Preflight(c, j, force),
           disowned' \in SUBSET Jobs
    PROVE  IInv'
<1>1. PICK st : st = Maintained(InMemory(current), FALSE)
  OBVIOUS
<1>2. PICK keeps \in BOOLEAN : keeps = (force /\ kind[j] = "every")
  OBVIOUS
<1>3. /\ current # None /\ call[c] = Idle /\ Keep(current, st)
      /\ call' = [call EXCEPT ![c] = [at |-> "reserving", job |-> j, now |-> now,
                                      svc |-> current, keeps |-> keeps]]
      /\ UNCHANGED <<now, disk, svc, current, work, known, edits, faults, starts>>
      /\ now \in Time /\ Executions
  BY <1>1, <1>2 DEF Preflight, IInv, Records
<1>4. current \in Services /\ svc[current] # Off
  BY <1>3, CurrentService
<1>5. Records' /\ mem'[current] # None /\ \A t \in Services \ {current} : mem'[t] = mem[t]
  BY <1>1, <1>3, MaintainedMemory
<1>6. PICK d \in Call : d = [at |-> "reserving", job |-> j, now |-> now, svc |-> current,
                             keeps |-> keeps]
  BY <1>3, <1>4 DEF Call
<1>7. call' \in [Calls -> Call] /\ call'[c] = d /\ \A e \in Calls \ {c} : call'[e] = call[e]
  BY <1>3, <1>6 DEF IInv, Requests
<1>8. work' = work /\ work[Manual(c)] = NoWork
  BY <1>3, ConstantRecords DEF IInv, Requests, Request
<1>9. Request(c)'
  <2>1. d.at = "reserving" /\ d.job = j /\ d.now = now /\ d.svc = current
    BY <1>6
  <2>2. now <= now
    BY <1>3, TimesAreNaturals
  <2> QED BY <1>3, <1>4, <1>5, <1>7, <1>8, <2>1, <2>2, ConstantRecords DEF Request, Manual
<1>10. Executions'
  BY <1>3 DEF Executions
<1>11. GoesOn(current)
  BY <1>3, <1>4, UnchangedGoesOn
<1>12. Counted'
  BY <1>3 DEF IInv, Counted
<1>13. \A t \in Services : work'[Tick(t)] = work[Tick(t)] /\ work'[Catchup(t)] = work[Catchup(t)]
  BY <1>8
<1>14. \A e \in Calls : Request(e)' \/ (call'[e] = call[e] /\ work'[Manual(e)] = work[Manual(e)])
  BY <1>7, <1>8, <1>9
<1>15. UNCHANGED <<now, current>>
  BY <1>3
<1> QED BY <1>4, <1>5, <1>7, <1>10, <1>11, <1>12, <1>13, <1>14, <1>15, OutsideKeeps

LEMMA PreflightRefusedKeeps ==
    ASSUME IInv, PreflightRefused, disowned' \in SUBSET Jobs
    PROVE  IInv'
<1>1. PICK st : st = Maintained(InMemory(current), FALSE)
  OBVIOUS
<1>2. /\ current # None /\ Keep(current, st)
      /\ UNCHANGED <<now, disk, svc, current, call, work, known, edits, faults, starts>>
  BY <1>1 DEF PreflightRefused
<1>3. current \in Services /\ svc[current] # Off
  BY <1>2, CurrentService
<1>4. Records' /\ mem'[current] # None /\ \A t \in Services \ {current} : mem'[t] = mem[t]
  BY <1>1, <1>2, MaintainedMemory
<1>5. Executions'
  BY <1>2 DEF IInv, Executions
<1>6. GoesOn(current)
  BY <1>2, <1>3, UnchangedGoesOn
<1>7. Counted'
  BY <1>2 DEF IInv, Counted
<1>8. call' \in [Calls -> Call]
  BY <1>2 DEF IInv, Requests
<1>9. \A t \in Services : work'[Tick(t)] = work[Tick(t)] /\ work'[Catchup(t)] = work[Catchup(t)]
  BY <1>2
<1>10. \A e \in Calls : Request(e)' \/ (call'[e] = call[e] /\ work'[Manual(e)] = work[Manual(e)])
  BY <1>2
<1>11. UNCHANGED <<now, current>>
  BY <1>2
<1> QED BY <1>3, <1>4, <1>5, <1>6, <1>7, <1>8, <1>9, <1>10, <1>11, OutsideKeeps

\* A store with a marker set, and its record: q is r with the marker t.
SetsMarker(old, j, t, new) == new = [old EXCEPT ![j].running = t]
MarkedSince(r, q, t) ==
    q # None /\ q.running = t /\ q.enabled = r.enabled /\ q.next = r.next

\* The marker of a manual run is the time of its first section.
LEMMA MarkedAt ==
    ASSUME now \in Time, NEW st, Valid(st, now), NEW j \in Jobs, st[j] # None,
           NEW t \in Time, t <= now, NEW marked, SetsMarker(st, j, t, marked)
    PROVE  /\ Valid(marked, now)
           /\ MarkedSince(st[j], marked[j], t)
           /\ marked[j].enabled = st[j].enabled /\ marked[j].next = st[j].next
           /\ \A i \in Jobs \ {j} : marked[i] = st[i]
<1>1. PICK r \in Job : r = st[j]
  BY StoreOf DEF Valid
<1>2. Sound(j, r, now)
  BY <1>1 DEF Valid
<1>3. PICK q : q = [r EXCEPT !.running = t]
  OBVIOUS
<1>4. q \in Job /\ Sound(j, q, now) /\ q.running = t /\ q.enabled = r.enabled /\ q.next = r.next
  BY <1>2, <1>3, MarkerIsSound
<1>5. marked = [st EXCEPT ![j] = q]
  BY <1>1, <1>3 DEF SetsMarker
<1>6. st \in [Jobs -> Job \cup {None}]
  BY DEF Valid, Store
<1>7. marked \in Store /\ marked[j] = q /\ \A i \in Jobs \ {j} : marked[i] = st[i]
  BY <1>4, <1>5, <1>6 DEF Store
<1>8. \A i \in Jobs : marked[i] # None => Sound(i, marked[i], now)
  BY <1>4, <1>7 DEF Valid
<1>9. q # None
  BY <1>4, NoneAssumption
<1>10. MarkedSince(r, q, t)
  BY <1>4, <1>9 DEF MarkedSince
<1> QED BY <1>1, <1>4, <1>7, <1>8, <1>10 DEF Valid

LEMMA ReserveKeeps ==
    ASSUME IInv, NEW c \in Calls, NEW saved \in BOOLEAN, Reserve(c, saved),
           disowned' \in SUBSET Jobs
    PROVE  IInv'
<1>1. /\ call[c] \in Call /\ Request(c) /\ call[c].at = "reserving"
      /\ UNCHANGED <<now, svc, current, known, edits, starts>>
      /\ now \in Time /\ Executions /\ Records
  BY DEF Reserve, IInv, Requests, Records
<1>2. PICK s \in Services : s = call[c].svc /\ mem[s] # None /\ svc[s] # Off
  BY <1>1 DEF Request
<1>3. PICK j \in Jobs : j = call[c].job
  BY <1>1 DEF Request
<1>4. PICK t \in Time : t = call[c].now /\ t <= now
  BY <1>1 DEF Request, Call
<1>5. work[Manual(c)] = NoWork /\ Manual(c) \in Owners
  BY <1>1, OwnersAreApart DEF Request
<1>6. now' = now /\ now <= now' /\ 0 <= now' /\ 0 \in Time /\ t <= now'
  BY <1>1, <1>4, TimesAreNaturals
<1>7. GoesOn(s)
  BY <1>1, UnchangedGoesOn
<1>8. UNCHANGED <<now, current>>
  BY <1>1
<1>9. CASE MayReserve(mem[s][j])
  <2>1. PICK st : st = [mem[s] EXCEPT ![j].running = t]
    OBVIOUS
  <2>2. /\ Keep(s, st) /\ Save(st, saved)
        /\ call' = [call EXCEPT ![c] = IF saved THEN [@ EXCEPT !.at = "running"] ELSE Over]
        /\ work' = IF saved
                   THEN [work EXCEPT ![Manual(c)][j] =
                            [Waiting EXCEPT !.at = "running", !.started = t]]
                   ELSE work
    BY <1>2, <1>3, <1>4, <1>9, <2>1 DEF Reserve
  <2>3. Valid(mem[s], now) /\ Owned(mem[s], known) /\ mem[s][j] # None
    BY <1>1, <1>2, <1>9 DEF Records, MayReserve
  <2>4. Valid(st, now) /\ \A i \in Jobs \ {j} : st[i] = mem[s][i]
    BY <1>1, <1>4, <2>1, <2>3, MarkedAt DEF SetsMarker
  <2>5. Owned(st, known') /\ known' \in SUBSET Jobs /\ known \subseteq known'
    BY <1>1, <2>3, <2>4 DEF Owned, Records
  <2>6. disk' \in {disk, st}
    BY <2>2, SaveWrites
  <2>7. Records' /\ mem'[s] = st /\ \A u \in Services \ {s} : mem'[u] = mem[u]
    BY <1>1, <1>6, <2>2, <2>4, <2>5, <2>6, RecordsAreKept
  <2>8. mem'[s] # None
    BY <2>4, <2>7, NoneAssumption DEF Valid
  <2>9. Counted'
    <3>1. faults' \in 0 .. MaxFaults
      BY <2>2, FaultsCounted DEF IInv
    <3> QED BY <1>1, <3>1 DEF IInv, Counted
  <2>10. CASE saved
    <3>1. PICK e \in Execution : e = [Waiting EXCEPT !.at = "running", !.started = t]
      <4>1. \A w \in Execution : [w EXCEPT !.at = "running", !.started = t] \in Execution
        BY DEF Execution
      <4> QED BY <4>1, ConstantRecords
    <3>2. e.at = "running" /\ e.started = t /\ e.ended = 0
      <4>1. \A w \in Execution : /\ [w EXCEPT !.at = "running", !.started = t].at = "running"
                                 /\ [w EXCEPT !.at = "running", !.started = t].started = t
                                 /\ [w EXCEPT !.at = "running", !.started = t].ended = w.ended
        BY DEF Execution
      <4> QED BY <3>1, <4>1, ConstantRecords
    <3>3. Prompt(e, now)
      BY <1>4, <1>6, <3>2 DEF Prompt
    <3>4. work' = [work EXCEPT ![Manual(c)][j] = e] /\ e.at # "none"
      BY <2>2, <2>10, <3>1, <3>2
    <3>5. /\ Executions' /\ work'[Manual(c)][j] = e
          /\ \A i \in Jobs \ {j} : work'[Manual(c)][i] = work[Manual(c)][i]
          /\ \A p \in Owners \ {Manual(c)} : work'[p] = work[p]
      BY <1>1, <1>5, <1>6, <3>3, <3>4, OneExecutionChanges
    <3>6. PICK d \in Call : d = [call[c] EXCEPT !.at = "running"]
      BY <1>1 DEF Call
    <3>7. d.at = "running" /\ d.svc = s /\ d.job = j /\ d.now = t
      BY <1>1, <1>2, <1>3, <1>4, <3>6 DEF Call
    <3>8. call' \in [Calls -> Call] /\ call'[c] = d /\ \A b \in Calls \ {c} : call'[b] = call[b]
      BY <2>2, <2>10, <3>6 DEF IInv, Requests
    <3>9. \A i \in Jobs : work'[Manual(c)][i].at # "none" => i = j
      BY <1>5, <3>5, ConstantRecords
    <3>10. Request(c)'
      BY <1>1, <1>2, <1>6, <2>8, <3>7, <3>8, <3>9 DEF Request, Manual
    <3>11. \A u \in Services : work'[Tick(u)] = work[Tick(u)] /\ work'[Catchup(u)] = work[Catchup(u)]
      BY <3>5, OwnersAreApart
    <3>12. \A b \in Calls : Request(b)' \/ (call'[b] = call[b] /\ work'[Manual(b)] = work[Manual(b)])
      BY <3>5, <3>8, <3>10, OwnersAreApart
    <3> QED BY <1>2, <1>7, <1>8, <2>7, <2>8, <2>9, <3>5, <3>8, <3>11, <3>12, OutsideKeeps
  <2>11. CASE ~ saved
    <3>1. call' = [call EXCEPT ![c] = Over] /\ work' = work
      BY <2>2, <2>11
    <3>2. call' \in [Calls -> Call] /\ call'[c] = Over /\ \A b \in Calls \ {c} : call'[b] = call[b]
      BY <3>1, ConstantRecords DEF IInv, Requests
    <3>3. Request(c)'
      BY <1>5, <1>6, <3>1, <3>2, ConstantRecords DEF Request, Manual
    <3>4. Executions'
      BY <1>1, <3>1 DEF Executions
    <3>5. \A u \in Services : work'[Tick(u)] = work[Tick(u)] /\ work'[Catchup(u)] = work[Catchup(u)]
      BY <3>1
    <3>6. \A b \in Calls : Request(b)' \/ (call'[b] = call[b] /\ work'[Manual(b)] = work[Manual(b)])
      BY <3>1, <3>2, <3>3
    <3> QED BY <1>2, <1>7, <1>8, <2>7, <2>8, <2>9, <3>2, <3>4, <3>5, <3>6, OutsideKeeps
  <2> QED BY <2>10, <2>11
<1>10. CASE ~ MayReserve(mem[s][j])
  <2>1. call' = [call EXCEPT ![c] = Over] /\ UNCHANGED <<mem, disk, faults, work>>
    BY <1>2, <1>3, <1>10 DEF Reserve
  <2>2. call' \in [Calls -> Call] /\ call'[c] = Over /\ \A b \in Calls \ {c} : call'[b] = call[b]
    BY <2>1, ConstantRecords DEF IInv, Requests
  <2>3. Request(c)'
    BY <1>5, <1>6, <2>1, <2>2, ConstantRecords DEF Request, Manual
  <2>4. Executions'
    BY <1>1, <2>1 DEF Executions
  <2>5. Records' /\ (\A u \in Services \ {s} : mem'[u] = mem[u]) /\ mem'[s] # None
    BY <1>1, <1>2, <2>1, RecordsAreLeft
  <2>6. Counted'
    BY <1>1, <2>1 DEF IInv, Counted
  <2>7. \A u \in Services : work'[Tick(u)] = work[Tick(u)] /\ work'[Catchup(u)] = work[Catchup(u)]
    BY <2>1
  <2>8. \A b \in Calls : Request(b)' \/ (call'[b] = call[b] /\ work'[Manual(b)] = work[Manual(b)])
    BY <2>1, <2>2, <2>3
  <2> QED BY <1>2, <1>7, <1>8, <2>2, <2>4, <2>5, <2>6, <2>7, <2>8, OutsideKeeps
<1> QED BY <1>9, <1>10

\* The store that a manual run leaves: its own record after the run, maintenance for the rest.
FinishedStore(c) ==
    LET s == call[c].svc
        j == call[c].job
        after == AfterRun(j, mem[s][j], work[Manual(c)][j], call[c].keeps)
    IN  Maintained([disk EXCEPT ![j] = IF @ = None THEN None ELSE after], TRUE)

LEMMA FinishedStoreIsValid ==
    ASSUME IInv, NEW c \in Calls, call[c].at = "running",
           work[Manual(c)][call[c].job].at = "ended", mem[call[c].svc][call[c].job] # None,
           NEW st, st = FinishedStore(c)
    PROVE  /\ Valid(st, now) /\ Owned(st, known)
           /\ ~ Marked(st[call[c].job])
           /\ \A i \in Jobs : i # call[c].job =>
                 /\ st[i] = None <=> disk[i] = None
                 /\ disk[i] # None =>
                       /\ Tended(disk[i], st[i], now)
                       /\ disk[i].enabled => st[i].next = disk[i].next
<1>1. /\ call[c] \in Call /\ Request(c) /\ now \in Time /\ Executions /\ Records
      /\ Manual(c) \in Owners
  BY OwnersAreApart DEF IInv, Requests, Records
<1>2. PICK s \in Services : s = call[c].svc /\ mem[s] # None
  BY <1>1 DEF Request
<1>3. PICK j \in Jobs : j = call[c].job
  BY <1>1 DEF Request
<1>4. Valid(mem[s], now) /\ Valid(disk, now) /\ Owned(disk, known)
  BY <1>1, <1>2 DEF Records
<1>5. PICK r \in Job : r = mem[s][j] /\ Sound(j, r, now)
  BY <1>2, <1>3, <1>4, StoreOf DEF Valid
<1>6. PICK e \in Execution : e = work[Manual(c)][j] /\ e.started <= e.ended /\ e.ended <= now
  BY <1>1, <1>3 DEF Executions, Prompt
<1>7. PICK keeps \in BOOLEAN : keeps = call[c].keeps
  BY <1>1 DEF Call
<1>8. PICK after \in Job \cup {None} :
         /\ after = AfterRun(j, r, e, keeps)
         /\ after # None => NearlySound(j, after, now)
  BY <1>1, <1>5, <1>6, AfterRunIsSound
<1>9. PICK put \in Job \cup {None} : /\ put = IF disk[j] = None THEN None ELSE after
                                     /\ put # None => NearlySound(j, put, now) /\ disk[j] # None
  BY <1>8
<1>10. PICK merged : merged = [disk EXCEPT ![j] = put]
  OBVIOUS
<1>11. disk \in [Jobs -> Job \cup {None}]
  BY <1>4 DEF Valid, Store
<1>12. merged \in Store /\ merged[j] = put /\ \A i \in Jobs \ {j} : merged[i] = disk[i]
  BY <1>10, <1>11 DEF Store
<1>13. st = Maintained(merged, TRUE)
  BY <1>2, <1>3, <1>5, <1>6, <1>7, <1>8, <1>9, <1>10 DEF FinishedStore
<1>14. st = [i \in Jobs |-> st[i]]
  BY <1>13 DEF Maintained
<1>15. ASSUME NEW i \in Jobs \ {j}
       PROVE  /\ st[i] = None <=> disk[i] = None
              /\ disk[i] # None =>
                    /\ st[i] \in Job /\ Sound(i, st[i], now)
                    /\ Tended(disk[i], st[i], now)
                    /\ disk[i].enabled => st[i].next = disk[i].next
  <2>1. merged[i] = disk[i] /\ (merged[i] # None => Sound(i, merged[i], now))
    BY <1>4, <1>12 DEF Valid
  <2>2. /\ merged[i] = None => Maintained(merged, TRUE)[i] = None
        /\ merged[i] # None =>
              /\ Maintained(merged, TRUE)[i] \in Job
              /\ Sound(i, Maintained(merged, TRUE)[i], now)
              /\ Tended(merged[i], Maintained(merged, TRUE)[i], now)
              /\ merged[i].enabled => Maintained(merged, TRUE)[i].next = merged[i].next
    BY <1>1, <1>12, <2>1, MaintainedRecord
  <2> QED BY <1>13, <2>1, <2>2, NoneAssumption
<1>16. /\ put = None => st[j] = None
       /\ put # None => st[j] \in Job /\ Sound(j, st[j], now) /\ st[j].running = None
  <2>1. CASE put = None
    BY <1>12, <1>13, <2>1 DEF Maintained
  <2>2. CASE put # None
    <3>1. merged[j] # None /\ NearlySound(j, merged[j], now)
      BY <1>9, <1>12, <2>2
    <3> QED BY <1>1, <1>12, <1>13, <2>2, <3>1, MaintenanceRestores
  <2> QED BY <2>1, <2>2
<1>17. \A i \in Jobs : /\ st[i] \in Job \cup {None}
                       /\ st[i] # None => Sound(i, st[i], now) /\ disk[i] # None
  BY <1>9, <1>15, <1>16
<1>18. st \in Store
  BY <1>14, <1>17 DEF Store
<1>19. Valid(st, now) /\ Owned(st, known)
  BY <1>4, <1>17, <1>18 DEF Valid, Owned
<1>20. ~ Marked(st[j])
  BY <1>16 DEF Marked
<1> QED BY <1>3, <1>15, <1>19, <1>20

LEMMA FinishManualKeeps ==
    ASSUME IInv, NEW c \in Calls, NEW saved \in BOOLEAN, FinishManual(c, saved),
           disowned' \in SUBSET Jobs
    PROVE  IInv'
<1>1. /\ call[c] \in Call /\ Request(c) /\ call[c].at = "running"
      /\ work[Manual(c)][call[c].job].at = "ended"
      /\ UNCHANGED <<now, current, known, edits, starts>>
      /\ call' = [call EXCEPT ![c] = Over] /\ Dropped(Manual(c))
      /\ now \in Time /\ Executions /\ Records /\ Manual(c) \in Owners
  BY OwnersAreApart DEF FinishManual, IInv, Requests, Records
<1>2. PICK s \in Services : s = call[c].svc /\ mem[s] # None /\ svc[s] # Off
  BY <1>1 DEF Request
<1>3. PICK j \in Jobs : j = call[c].job
  BY <1>1 DEF Request
<1>4. Executions' /\ work'[Manual(c)] = NoWork
        /\ \A o \in Owners \ {Manual(c)} : work'[o] = work[o]
  BY <1>1, DroppedWork
<1>5. call' \in [Calls -> Call] /\ call'[c] = Over /\ \A b \in Calls \ {c} : call'[b] = call[b]
  BY <1>1, ConstantRecords DEF IInv, Requests
<1>6. Request(c)'
  <2>1. 0 <= now'
    BY <1>1, TimesAreNaturals
  <2> QED BY <1>4, <1>5, <2>1, ConstantRecords DEF Request, Manual
<1>7. \A u \in Services : work'[Tick(u)] = work[Tick(u)] /\ work'[Catchup(u)] = work[Catchup(u)]
  BY <1>4, OwnersAreApart
<1>8. \A b \in Calls : Request(b)' \/ (call'[b] = call[b] /\ work'[Manual(b)] = work[Manual(b)])
  BY <1>4, <1>5, <1>6, OwnersAreApart
<1>9. UNCHANGED <<now, current>>
  BY <1>1
<1>10. CASE mem[s][j] = None
  <2>1. UNCHANGED <<mem, disk, faults, svc>>
    BY <1>2, <1>3, <1>10 DEF FinishManual
  <2>2. Records' /\ (\A u \in Services \ {s} : mem'[u] = mem[u]) /\ mem'[s] # None
    BY <1>1, <1>2, <2>1, RecordsAreLeft
  <2>3. Counted'
    BY <1>1, <2>1 DEF IInv, Counted
  <2>4. GoesOn(s)
    BY <2>1, UnchangedGoesOn
  <2> QED BY <1>2, <1>4, <1>5, <1>7, <1>8, <1>9, <2>2, <2>3, <2>4, OutsideKeeps
<1>11. CASE mem[s][j] # None
  <2>1. PICK st : st = FinishedStore(c)
    OBVIOUS
  <2>2. /\ Keep(s, st) /\ Save(st, saved)
        /\ svc' = [svc EXCEPT ![s].bound = FALSE,
                              ![s].timer = IF saved THEN Armed(s, st) ELSE @]
    BY <1>2, <1>3, <1>11, <2>1 DEF FinishManual, FinishedStore
  <2>3. Valid(st, now) /\ Owned(st, known)
    BY <1>1, <1>2, <1>3, <1>11, <2>1, FinishedStoreIsValid
  <2>4. disk' \in {disk, st}
    BY <2>2, SaveWrites
  <2>5. Owned(st, known') /\ known' \in SUBSET Jobs /\ known \subseteq known' /\ now' = now
    BY <1>1, <2>3 DEF Records
  <2>6. Records' /\ mem'[s] = st /\ \A u \in Services \ {s} : mem'[u] = mem[u]
    BY <1>1, <2>2, <2>3, <2>4, <2>5, RecordsAreKept
  <2>7. mem'[s] # None
    BY <2>3, <2>6, NoneAssumption DEF Valid
  <2>8. svc[s] \in Service /\ Phase(s)
    BY DEF IInv, Phases
  <2>9. PICK timer \in BOOLEAN : timer = IF saved THEN Armed(s, st) ELSE svc[s].timer
    BY <2>8 DEF Service, Armed
  <2>10. timer => svc[s].enabled
    BY <2>8, <2>9 DEF Phase, Armed
  <2>11. PICK v \in Service : v = [svc[s] EXCEPT !.bound = FALSE, !.timer = timer]
    BY <2>8 DEF Service
  <2>12. v.startup = svc[s].startup /\ v.enabled = svc[s].enabled
           /\ v.running = svc[s].running /\ v.bound = FALSE /\ v.timer = timer
    BY <2>8, <2>11 DEF Service
  <2>13. svc' = [svc EXCEPT ![s] = v]
    BY <2>2, <2>9, <2>11 DEF IInv, Phases
  <2>14. GoesOn(s)
    BY <2>10, <2>12, <2>13 DEF GoesOn
  <2>15. Counted'
    <3>1. faults' \in 0 .. MaxFaults
      BY <2>2, FaultsCounted DEF IInv
    <3> QED BY <1>1, <3>1 DEF IInv, Counted
  <2> QED BY <1>2, <1>4, <1>5, <1>7, <1>8, <1>9, <2>6, <2>7, <2>14, <2>15, OutsideKeeps
<1> QED BY <1>10, <1>11

-----------------------------------------------------------------------------
(* Edits *)

\* A section of one of the gateway's methods: what remains to be shown of it.
LEMMA MethodKeeps ==
    ASSUME IInv, current # None, GoesOn(current), Records', mem'[current] # None,
           \A t \in Services \ {current} : mem'[t] = mem[t],
           UNCHANGED <<now, current, call, work>>, Counted'
    PROVE  IInv'
<1>1. current \in Services /\ svc[current] # Off
  BY CurrentService
<1>2. Executions'
  BY DEF IInv, Executions
<1>3. call' \in [Calls -> Call]
  BY DEF IInv, Requests
<1>4. \A t \in Services : work'[Tick(t)] = work[Tick(t)] /\ work'[Catchup(t)] = work[Catchup(t)]
  OBVIOUS
<1>5. \A e \in Calls : Request(e)' \/ (call'[e] = call[e] /\ work'[Manual(e)] = work[Manual(e)])
  OBVIOUS
<1>6. UNCHANGED <<now, current>>
  OBVIOUS
<1> QED BY <1>1, <1>2, <1>3, <1>4, <1>5, <1>6, OutsideKeeps

LEMMA EditKeeps ==
    ASSUME IInv, current # None, NEW saved \in BOOLEAN, NEW st, Valid(st, now),
           Owned(st, known'), known' \in SUBSET Jobs, known \subseteq known',
           Edit(current, st, saved), disowned' \in SUBSET Jobs
    PROVE  IInv'
<1>1. /\ edits < MaxEdits /\ edits' = edits + 1
      /\ Keep(current, st) /\ Save(st, saved)
      /\ IF saved THEN Rearm(current, st) ELSE UNCHANGED svc
      /\ UNCHANGED <<now, current, call, work, starts>>
  BY DEF Edit
<1>2. current \in Services /\ svc[current] # Off
  BY CurrentService
<1>3. disk' \in {disk, st} /\ now' = now
  BY <1>1, SaveWrites
<1>4. Records' /\ mem'[current] = st /\ \A t \in Services \ {current} : mem'[t] = mem[t]
  BY <1>1, <1>2, <1>3, RecordsAreKept DEF IInv
<1>5. mem'[current] # None
  BY <1>4, NoneAssumption DEF Valid
<1>6. GoesOn(current)
  <2>1. CASE ~ saved
    BY <1>1, <1>2, <2>1, UnchangedGoesOn
  <2>2. CASE saved
    <3>1. svc[current] \in Service /\ Phase(current)
      BY <1>2 DEF IInv, Phases
    <3>2. PICK timer \in BOOLEAN : timer = Armed(current, st)
      BY DEF Armed
    <3>3. timer => svc[current].enabled
      BY <3>2 DEF Armed
    <3>4. PICK v \in Service : v = [svc[current] EXCEPT !.timer = timer]
      BY <3>1 DEF Service
    <3>5. v.startup = svc[current].startup /\ v.enabled = svc[current].enabled
            /\ v.running = svc[current].running /\ v.bound = svc[current].bound /\ v.timer = timer
      BY <3>1, <3>4 DEF Service
    <3>6. svc' = [svc EXCEPT ![current] = v]
      BY <1>1, <2>2, <3>2, <3>4 DEF Rearm, IInv, Phases
    <3>7. svc[current].bound => svc[current].enabled
      BY <3>1 DEF Phase
    <3> QED BY <3>3, <3>5, <3>6, <3>7 DEF GoesOn
  <2> QED BY <2>1, <2>2
<1>7. Counted'
  <2>1. faults' \in 0 .. MaxFaults
    BY <1>1, FaultsCounted DEF IInv
  <2>2. edits' \in 0 .. MaxEdits
    BY <1>1, LimitsAssumption DEF IInv, Counted
  <2> QED BY <1>1, <2>1, <2>2 DEF IInv, Counted
<1> QED BY <1>1, <1>4, <1>5, <1>6, <1>7, MethodKeeps

\* add
LEMMA AddKeeps ==
    ASSUME IInv, NEW j \in Jobs, NEW saved \in BOOLEAN, Add(j, saved), disowned' \in SUBSET Jobs
    PROVE  IInv'
<1>1. PICK st : st = [InMemory(current) EXCEPT ![j] = NewJob(j)]
  OBVIOUS
<1>2. /\ current # None /\ known' = known \cup {j} /\ Edit(current, Recomputed(st), saved)
      /\ Records /\ now \in Time /\ known \in SUBSET Jobs
  BY <1>1 DEF Add, IInv, Records
<1>3. current \in Services
  BY <1>2, CurrentService
<1>4. Valid(InMemory(current), now) /\ Owned(InMemory(current), known)
  BY <1>2, <1>3, InMemoryIsValid
<1>5. NewJob(j) \in Job /\ Sound(j, NewJob(j), now)
  BY <1>2, NewJobIsSound
<1>6. InMemory(current) \in [Jobs -> Job \cup {None}]
  BY <1>4 DEF Valid, Store
<1>7. st \in Store /\ st[j] = NewJob(j) /\ \A i \in Jobs \ {j} : st[i] = InMemory(current)[i]
  BY <1>1, <1>5, <1>6 DEF Store
<1>8. Valid(st, now)
  BY <1>4, <1>5, <1>7 DEF Valid
<1>9. Owned(st, known')
  BY <1>2, <1>4, <1>7 DEF Owned
<1>10. Valid(Recomputed(st), now) /\ Owned(Recomputed(st), known')
  BY <1>2, <1>8, <1>9, RecomputedIsOwned
<1>11. known' \in SUBSET Jobs /\ known \subseteq known'
  BY <1>2
<1> QED BY <1>2, <1>10, <1>11, EditKeeps

\* The record that update makes of r.
Patched(j, r, patch) ==
    LET q == [r EXCEPT !.enabled = CASE patch = "enable" -> TRUE
                                     [] patch = "disable" -> FALSE
                                     [] OTHER -> @]
    IN  IF patch = "other" /\ (~ q.enabled \/ q.next # None) THEN q
        ELSE IF q.enabled THEN [q EXCEPT !.next = ComputeNext(j, q, now)]
        ELSE [q EXCEPT !.next = None, !.running = None]

LEMMA PatchedIsSound ==
    ASSUME now \in Time, NEW j \in Jobs, NEW r \in Job, Sound(j, r, now),
           NEW patch \in {"enable", "disable", "schedule", "other"}
    PROVE  /\ Patched(j, r, patch) \in Job /\ Sound(j, Patched(j, r, patch), now)
           /\ Patched(j, r, patch).enabled => Patched(j, r, patch).running = r.running
           /\ Patched(j, r, patch).running \in {r.running, None}
           /\ patch = "disable" => ~ Patched(j, r, patch).enabled
           /\ patch = "other" /\ Patched(j, r, patch).enabled =>
                 r.enabled /\ Patched(j, r, patch).next = r.next
<1>1. r.enabled \in BOOLEAN /\ None \notin Nat /\ r # None
  BY JobFields, NoneAssumption
<1>2. PICK on \in BOOLEAN : on = CASE patch = "enable" -> TRUE
                                   [] patch = "disable" -> FALSE
                                   [] OTHER -> r.enabled
  BY <1>1
<1>3. PICK q \in Job : q = [r EXCEPT !.enabled = on]
  BY DEF Job
<1>4. /\ q.enabled = on /\ q.next = r.next /\ q.lastRun = r.lastRun /\ q.status = r.status
      /\ q.running = r.running
  BY <1>3 DEF Job
<1>5. Patched(j, r, patch) =
          IF patch = "other" /\ (~ q.enabled \/ q.next # None) THEN q
          ELSE IF q.enabled THEN [q EXCEPT !.next = ComputeNext(j, q, now)]
          ELSE [q EXCEPT !.next = None, !.running = None]
  BY <1>2, <1>3 DEF Patched
<1>6. (q.lastRun # None => q.lastRun <= now) /\ (q.running # None => q.running <= now)
  BY <1>4 DEF Sound
<1>7. CASE patch = "other"
  <2>1. on = r.enabled
    BY <1>2, <1>7
  <2>2. Sound(j, q, now)
    BY <1>4, <2>1 DEF Sound, Finished, Unserved
  <2>3. CASE ~ q.enabled \/ q.next # None
    BY <1>4, <1>5, <1>7, <2>1, <2>2, <2>3
  <2>4. CASE q.enabled /\ q.next = None
    <3>1. ComputeNext(j, q, now) = q.next
      BY <2>2, <2>4, ComputedAgain
    <3>2. [q EXCEPT !.next = q.next] = q
      BY DEF Job
    <3>3. Patched(j, r, patch) = q
      BY <1>5, <1>7, <2>4, <3>1, <3>2
    <3> QED BY <1>4, <1>7, <2>1, <2>2, <3>3
  <2> QED BY <2>3, <2>4
<1>8. CASE patch # "other" /\ q.enabled
  <2>1. PICK p \in Job : p = [q EXCEPT !.next = ComputeNext(j, q, now)] /\ Sound(j, p, now)
    BY <1>6, <1>8, ComputedIsSound
  <2>2. p.running = r.running
    BY <1>4, <2>1 DEF Job
  <2>3. patch # "disable"
    BY <1>2, <1>4, <1>8
  <2> QED BY <1>5, <1>8, <2>1, <2>2, <2>3
<1>9. CASE patch # "other" /\ ~ q.enabled
  <2>1. PICK p \in Job : p = [q EXCEPT !.next = None, !.running = None]
    BY DEF Job
  <2>2. p.enabled = FALSE /\ p.next = None /\ p.running = None /\ p.lastRun = r.lastRun
    BY <1>4, <1>9, <2>1 DEF Job
  <2>3. Sound(j, p, now)
    BY <1>4, <1>6, <2>2 DEF Sound
  <2> QED BY <1>5, <1>9, <2>1, <2>2, <2>3
<1> QED BY <1>7, <1>8, <1>9

LEMMA UpdatedStore ==
    ASSUME IInv, NEW j \in Jobs, NEW patch \in {"enable", "disable", "schedule", "other"},
           NEW saved \in BOOLEAN, Update(j, patch, saved)
    PROVE  /\ current # None /\ current \in Services /\ known' = known
           /\ InMemory(current)[j] # None
           /\ Edit(current, [InMemory(current) EXCEPT ![j] = Patched(j, @, patch)], saved)
           /\ Valid([InMemory(current) EXCEPT ![j] = Patched(j, @, patch)], now)
           /\ Owned([InMemory(current) EXCEPT ![j] = Patched(j, @, patch)], known)
<1>1. PICK st : st = InMemory(current)
  OBVIOUS
<1>2. /\ current # None /\ known' = known /\ st[j] # None
      /\ Edit(current, [st EXCEPT ![j] = Patched(j, st[j], patch)], saved)
      /\ Records /\ now \in Time
  BY <1>1 DEF Update, Patched, IInv, Records
<1>3. current \in Services
  BY <1>2, CurrentService
<1>4. Valid(st, now) /\ Owned(st, known)
  BY <1>1, <1>2, <1>3, InMemoryIsValid
<1>5. PICK r \in Job : r = st[j] /\ Sound(j, r, now)
  BY <1>2, <1>4, StoreOf DEF Valid
<1>6. PICK q \in Job : q = Patched(j, r, patch) /\ Sound(j, q, now)
  BY <1>2, <1>5, PatchedIsSound
<1>7. st \in [Jobs -> Job \cup {None}]
  BY <1>4 DEF Valid, Store
<1>8. PICK new : new = [st EXCEPT ![j] = q]
  OBVIOUS
<1>9. new \in Store /\ new[j] = q /\ \A i \in Jobs \ {j} : new[i] = st[i]
  BY <1>7, <1>8 DEF Store
<1>10. Valid(new, now) /\ Owned(new, known)
  BY <1>2, <1>4, <1>6, <1>9 DEF Valid, Owned
<1>11. new = [st EXCEPT ![j] = Patched(j, st[j], patch)]
  BY <1>5, <1>6, <1>8
<1> QED BY <1>1, <1>2, <1>3, <1>10, <1>11

\* update
LEMMA UpdateKeeps ==
    ASSUME IInv, NEW j \in Jobs, NEW patch \in {"enable", "disable", "schedule", "other"},
           NEW saved \in BOOLEAN, Update(j, patch, saved), disowned' \in SUBSET Jobs
    PROVE  IInv'
<1>1. PICK st : st = [InMemory(current) EXCEPT ![j] = Patched(j, @, patch)]
  OBVIOUS
<1>2. /\ current # None /\ known' = known
      /\ Edit(current, st, saved) /\ Valid(st, now) /\ Owned(st, known)
  BY <1>1, UpdatedStore
<1>3. Owned(st, known') /\ known' \in SUBSET Jobs /\ known \subseteq known'
  BY <1>2 DEF IInv, Records
<1> QED BY <1>2, <1>3, EditKeeps

\* remove
LEMMA RemoveKeeps ==
    ASSUME IInv, NEW j \in Jobs, NEW saved \in BOOLEAN, Remove(j, saved), disowned' \in SUBSET Jobs
    PROVE  IInv'
<1>1. PICK st : st = IF mem[current] = None THEN Recomputed(disk) ELSE mem[current]
  OBVIOUS
<1>2. /\ current # None /\ known' = known /\ Records
      /\ Edit(current, [st EXCEPT ![j] = None], saved)
  BY <1>1 DEF Remove, IInv
<1>3. current \in Services
  BY <1>2, CurrentService
<1>4. Valid(st, now) /\ Owned(st, known)
  <2>1. CASE mem[current] = None
    BY <1>1, <1>2, <2>1, RecomputedIsOwned DEF Records
  <2>2. CASE mem[current] # None
    BY <1>1, <1>2, <1>3, <2>2 DEF Records
  <2> QED BY <2>1, <2>2
<1>5. PICK new : new = [st EXCEPT ![j] = None]
  OBVIOUS
<1>6. st \in [Jobs -> Job \cup {None}]
  BY <1>4 DEF Valid, Store
<1>7. new \in Store /\ new[j] = None /\ \A i \in Jobs \ {j} : new[i] = st[i]
  BY <1>5, <1>6 DEF Store
<1>8. Valid(new, now) /\ Owned(new, known')
  BY <1>2, <1>4, <1>7 DEF Valid, Owned
<1>9. known' \in SUBSET Jobs /\ known \subseteq known'
  BY <1>2 DEF Records
<1> QED BY <1>2, <1>5, <1>8, <1>9, EditKeeps

\* list and status
LEMMA ReadKeeps ==
    ASSUME IInv, NEW saved \in BOOLEAN, Read(saved), disowned' \in SUBSET Jobs
    PROVE  IInv'
<1>1. PICK st : st = Maintained(InMemory(current), FALSE)
  OBVIOUS
<1>2. /\ current # None /\ Keep(current, st) /\ SaveChanged(InMemory(current), st, saved)
      /\ UNCHANGED <<now, svc, current, call, work, known, edits, starts>> /\ Records
  BY <1>1 DEF Read, IInv
<1>3. current \in Services
  BY <1>2, CurrentService
<1>4. Valid(st, now) /\ Owned(st, known)
  <2>1. Valid(InMemory(current), now) /\ Owned(InMemory(current), known)
    BY <1>2, <1>3, InMemoryIsValid
  <2> QED BY <1>1, <1>2, <2>1, MaintainedIsOwned
<1>5. disk' \in {disk, st} /\ Owned(st, known') /\ known' \in SUBSET Jobs /\ known \subseteq known'
        /\ now' = now
  BY <1>2, <1>4, SaveWrites DEF Records
<1>6. Records' /\ mem'[current] = st /\ \A t \in Services \ {current} : mem'[t] = mem[t]
  BY <1>2, <1>3, <1>4, <1>5, RecordsAreKept
<1>7. mem'[current] # None
  BY <1>4, <1>6, NoneAssumption DEF Valid
<1>8. GoesOn(current)
  BY <1>2, <1>3, UnchangedGoesOn
<1>9. Counted'
  <2>1. faults' \in 0 .. MaxFaults
    BY <1>2, FaultsCounted DEF IInv
  <2> QED BY <1>2, <2>1 DEF IInv, Counted
<1>10. UNCHANGED <<now, current, call, work>>
  BY <1>2
<1> QED BY <1>2, <1>6, <1>7, <1>8, <1>9, <1>10, MethodKeeps

-----------------------------------------------------------------------------
(* Every step *)

\* The process starts, or another service takes over in it.
LEMMA StartOf ==
    ASSUME IInv, NEW s \in Services, NEW on \in BOOLEAN, NEW saved \in BOOLEAN,
           Boot(s, on, saved) \/ Reload(s, on, saved)
    PROVE  svc[s] = Off /\ \E before : Stopping(before) /\ Start(s, on, before, saved)
<1>1. CASE Boot(s, on, saved)
  <2>1. svc[s] = Off /\ Start(s, on, svc, saved)
    BY <1>1 DEF Boot, IInv, Presence
  <2>2. Stopping(svc)
    BY DEF Stopping, IInv, Phases
  <2> QED BY <2>1, <2>2
<1>2. CASE Reload(s, on, saved)
  <2>1. current # None /\ svc[s] = Off
    BY <1>2 DEF Reload
  <2>2. PICK fired \in {FALSE, svc[current].timer} :
           Start(s, on, [svc EXCEPT ![current].timer = fired], saved)
    BY <1>2 DEF Reload
  <2>3. current \in Services /\ svc[current] # Off
    BY <2>1, CurrentService
  <2>4. svc \in [Services -> Service] /\ svc[current] \in Service
    BY <2>3 DEF IInv, Phases
  <2>5. PICK before : before = [svc EXCEPT ![current].timer = fired]
    OBVIOUS
  <2>6. PICK v : v = [svc[current] EXCEPT !.timer = fired]
    OBVIOUS
  <2>7. v \in Service /\ (fired = svc[current].timer => v = svc[current])
    BY <2>4, <2>6 DEF Service
  <2>8. before = [svc EXCEPT ![current] = v]
    BY <2>5, <2>6
  <2>9. before \in [Services -> Service] /\ before[current] = v
          /\ \A t \in Services \ {current} : before[t] = svc[t]
    BY <2>3, <2>4, <2>7, <2>8
  <2>10. Stopping(before)
    BY <2>2, <2>3, <2>6, <2>7, <2>9 DEF Stopping
  <2> QED BY <2>1, <2>2, <2>5, <2>10
<1> QED BY <1>1, <1>2

LEMMA StepKeeps == IInv /\ [Next]_vars => IInv'
<1> SUFFICES ASSUME IInv, [Next]_vars PROVE IInv'
  OBVIOUS
<1>1. CASE Step /\ disowned' \in SUBSET Jobs
  <2>1. CASE ClockTicks
    BY <1>1, <2>1, ClockKeeps
  <2>2. CASE Crash
    BY <1>1, <2>2, CrashKeeps
  <2>3. ASSUME NEW s \in Services, NEW on \in BOOLEAN, NEW saved \in BOOLEAN,
               Boot(s, on, saved) \/ Reload(s, on, saved)
        PROVE  IInv'
    BY <1>1, <2>3, StartOf, StartKeeps
  <2>4. ASSUME NEW s \in Services, NEW saved \in BOOLEAN, ServiceStep(s, saved) PROVE IInv'
    BY <1>1, <2>4, PlanKeeps, ApplyCatchupKeeps, ArmKeeps, TimerFiresKeeps, ApplyTickKeeps
       DEF ServiceStep
  <2>5. ASSUME NEW c \in Calls, NEW saved \in BOOLEAN, CallStep(c, saved) PROVE IInv'
    BY <1>1, <2>5, ReserveKeeps, FinishManualKeeps DEF CallStep
  <2>6. CASE Execute
    <3>1. ASSUME NEW s \in Services, NEW j \in Jobs, StartDue(s, j) \/ StartMissed(s, j)
          PROVE  IInv'
      BY <1>1, <3>1, StartDueKeeps, StartMissedKeeps
    <3>2. ASSUME NEW o \in Owners, NEW j \in Jobs, NEW status \in Outcomes[j], Ends(o, j, status)
          PROVE  IInv'
      BY <1>1, <3>2, EndsKeeps
    <3> QED BY <2>6, <3>1, <3>2 DEF Execute
  <2>7. CASE Ask
    BY <1>1, <2>7, PreflightKeeps, PreflightRefusedKeeps DEF Ask
  <2>8. ASSUME NEW saved \in BOOLEAN, Change(saved) PROVE IInv'
    BY <1>1, <2>8, AddKeeps, UpdateKeeps, RemoveKeeps, ReadKeeps DEF Change
  <2> QED BY <1>1, <2>1, <2>2, <2>3, <2>4, <2>5, <2>6, <2>7, <2>8 DEF Step
<1>2. CASE UNCHANGED vars
  BY <1>2 DEF vars, IInv, Records, Valid, Owned, Executions, Phases, Phase, Requests, Request,
              Presence, Counted, Tick, Catchup, Manual
<1>3. Next => Step /\ disowned' \in SUBSET Jobs
  BY DEF Next, Account
<1> QED BY <1>1, <1>2, <1>3

LEMMA Invariance == Spec => []IInv
BY Initially0, StepKeeps, PTL DEF Spec

\* In every reachable state the variables have their types, a timer is armed only while
\* its service has a copy of the store, and a tick is under way while it has executions.
THEOREM TypeCorrect == Spec => []TypeOK
BY Invariance, InvariantTypes, PTL

-----------------------------------------------------------------------------
(* One run of a job at a time *)

\* An owner takes on job j.
Begins(o, j) == work[o][j].at = "none" /\ work'[o][j].at # "none"

\* Of two owners that have the same job, one began without seeing the marker on disk.
Solo ==
    \A j \in Jobs \ disowned : \A o, p \in Owners :
        work[o][j].at # "none" /\ work[p][j].at # "none" => o = p

Marks == \A j \in Jobs : UnderWay(j) => j \in disowned \/ Marked(disk[j])

\* What a step may begin: executions of one owner, of jobs without a marker on disk.
BeginsUnmarked ==
    \A o \in Owners, j \in Jobs : Begins(o, j) =>
        /\ ~ Marked(disk[j]) \/ OverlooksMarker(j)
        /\ \A p \in Owners \ {o} : ~ Begins(p, j)

LEMMA NothingBegins ==
    ASSUME \A o \in Owners, j \in Jobs : work'[o][j].at = "none" \/ work[o][j].at # "none"
    PROVE  BeginsUnmarked
BY DEF BeginsUnmarked, Begins

LEMMA DroppingBeginsNothing ==
    ASSUME IInv, now' = now, NEW o \in Owners, Dropped(o)
    PROVE  BeginsUnmarked
<1>1. work'[o] = NoWork /\ \A p \in Owners \ {o} : work'[p] = work[p]
  BY DroppedWork DEF IInv, Records
<1>2. \A p \in Owners, j \in Jobs : work'[p][j].at = "none" \/ work[p][j].at # "none"
  BY <1>1, ConstantRecords
<1> QED BY <1>2, NothingBegins

LEMMA GoingOnBeginsNothing ==
    ASSUME IInv, now' = now, NEW o \in Owners, NEW j \in Jobs,
           \/ work[o][j].at = "waiting" /\ Started(o, j)
           \/ \E status \in Outcomes[j] : Ends(o, j, status)
    PROVE  BeginsUnmarked
<1>1. /\ work[o][j].at \in {"waiting", "running"}
      /\ \A i \in Jobs \ {j} : work'[o][i] = work[o][i]
      /\ \A p \in Owners \ {o} : work'[p] = work[p]
  BY ExecutionGoesOn DEF IInv, Records
<1>2. \A p \in Owners, i \in Jobs : work'[p][i].at = "none" \/ work[p][i].at # "none"
  BY <1>1
<1> QED BY <1>2, NothingBegins

LEMMA TimerBeginsUnmarked ==
    ASSUME IInv, NEW s \in Services, NEW saved \in BOOLEAN, TimerFires(s, saved)
    PROVE  BeginsUnmarked
<1>1. PICK due \in SUBSET Jobs : due = {j \in Jobs : Runnable(disk[j])}
  OBVIOUS
<1>2. CASE due # {} /\ saved
  <2>1. Queued(Tick(s), due) /\ now' = now
    BY <1>1, <1>2 DEF TimerFires
  <2>2. /\ \A j \in Jobs : work'[Tick(s)][j] = IF j \in due THEN Waiting ELSE NoExecution
        /\ \A p \in Owners \ {Tick(s)} : work'[p] = work[p]
    BY <2>1, QueuedWork, OwnersAreApart DEF IInv, Records
  <2>3. \A p \in Owners, j \in Jobs : Begins(p, j) => p = Tick(s) /\ j \in due
    BY <2>2, ConstantRecords DEF Begins
  <2>4. \A j \in due : ~ Marked(disk[j])
    BY <1>1 DEF Runnable, Marked
  <2> QED BY <2>3, <2>4 DEF BeginsUnmarked
<1>3. CASE ~ (due # {} /\ saved)
  <2>1. work' = work
    BY <1>1, <1>3 DEF TimerFires
  <2> QED BY <2>1, NothingBegins
<1> QED BY <1>2, <1>3

LEMMA PlanBeginsUnmarked ==
    ASSUME IInv, NEW s \in Services, NEW saved \in BOOLEAN, PlanCatchup(s, saved)
    PROVE  BeginsUnmarked
<1>1. PICK missed \in SUBSET Jobs : missed = {j \in Jobs \ svc[s].aside : Missed(j, mem[s][j])}
  OBVIOUS
<1>2. svc[s].startup = "plan" /\ now' = now
  BY DEF PlanCatchup
<1>3. CASE missed = {} \/ ~ saved
  <2>1. work' = work
    BY <1>1, <1>3 DEF PlanCatchup
  <2> QED BY <2>1, NothingBegins
<1>4. CASE missed # {} /\ saved
  <2>1. PICK js \in SUBSET missed : Queued(Catchup(s), js)
    BY <1>1, <1>4 DEF PlanCatchup
  <2>2. /\ \A j \in Jobs : work'[Catchup(s)][j] = IF j \in js THEN Waiting ELSE NoExecution
        /\ \A p \in Owners \ {Catchup(s)} : work'[p] = work[p]
    BY <1>2, <2>1, QueuedWork, OwnersAreApart DEF IInv, Records
  <2>3. \A p \in Owners, j \in Jobs : Begins(p, j) =>
           p = Catchup(s) /\ j \in js /\ work[Catchup(s)][j].at = "none"
             /\ work'[Catchup(s)][j].at = "waiting"
    BY <2>2, ConstantRecords DEF Begins
  <2>4. mem[s] # None
    BY <1>2, ServiceFields DEF IInv
  <2>5. \A j \in js : ~ Marked(mem[s][j])
    BY <1>1 DEF Missed, Marked
  <2>6. ASSUME NEW j \in Jobs, Begins(Catchup(s), j), Marked(disk[j])
        PROVE  OverlooksMarker(j)
    <3>1. /\ work[Catchup(s)][j].at = "none" /\ work'[Catchup(s)][j].at = "waiting"
          /\ ~ Marked(mem[s][j])
      BY <2>3, <2>5, <2>6, OwnersAreApart
    <3> QED BY <2>4, <2>6, <3>1 DEF OverlooksMarker
  <2> QED BY <2>3, <2>6 DEF BeginsUnmarked
<1> QED BY <1>3, <1>4

LEMMA ReserveBeginsUnmarked ==
    ASSUME IInv, NEW c \in Calls, NEW saved \in BOOLEAN, Reserve(c, saved)
    PROVE  BeginsUnmarked
<1>1. /\ call[c] \in Call /\ Request(c) /\ call[c].at = "reserving"
      /\ Manual(c) \in Owners /\ work \in [Owners -> [Jobs -> Execution]]
  BY OwnersAreApart DEF Reserve, IInv, Requests, Executions
<1>2. PICK s \in Services : s = call[c].svc /\ mem[s] # None
  BY <1>1 DEF Request
<1>3. PICK j \in Jobs : j = call[c].job
  BY <1>1 DEF Request
<1>4. CASE MayReserve(mem[s][j]) /\ saved
  <2>1. /\ work' = [work EXCEPT ![Manual(c)][j] =
                       [Waiting EXCEPT !.at = "running", !.started = call[c].now]]
        /\ call' = [call EXCEPT ![c] = [@ EXCEPT !.at = "running"]]
    BY <1>2, <1>3, <1>4 DEF Reserve
  <2>2. \A p \in Owners, i \in Jobs : Begins(p, i) => p = Manual(c) /\ i = j
    BY <1>1, <2>1 DEF Begins
  <2>3. call'[c].at = "running"
    BY <1>1, <2>1 DEF IInv, Requests, Call
  <2>4. Marked(disk[j]) => OverlooksMarker(j)
    BY <1>1, <1>2, <1>3, <1>4, <2>3 DEF OverlooksMarker, MayReserve, Marked
  <2> QED BY <2>2, <2>4 DEF BeginsUnmarked
<1>5. CASE ~ (MayReserve(mem[s][j]) /\ saved)
  <2>1. work' = work
    BY <1>2, <1>3, <1>5 DEF Reserve
  <2> QED BY <2>1, NothingBegins
<1> QED BY <1>4, <1>5

LEMMA StepBeginsUnmarked ==
    ASSUME IInv, Step
    PROVE  BeginsUnmarked
<1>1. CASE work' = work
  BY <1>1, NothingBegins
<1>2. CASE Crash
  <2>1. \A p \in Owners, j \in Jobs : work'[p][j].at = "none"
    BY <1>2, ConstantRecords DEF Crash
  <2> QED BY <2>1, NothingBegins
<1>3. ASSUME NEW s \in Services, NEW saved \in BOOLEAN, ServiceStep(s, saved)
      PROVE  BeginsUnmarked
  <2>1. CASE PlanCatchup(s, saved)
    BY <2>1, PlanBeginsUnmarked
  <2>2. CASE TimerFires(s, saved)
    BY <2>2, TimerBeginsUnmarked
  <2>3. CASE ApplyCatchup(s, saved)
    <3>1. Dropped(Catchup(s)) /\ now' = now
      BY <2>3 DEF ApplyCatchup
    <3> QED BY <3>1, OwnersAreApart, DroppingBeginsNothing
  <2>4. CASE ApplyTick(s, saved)
    <3>1. Dropped(Tick(s)) /\ now' = now
      BY <2>4 DEF ApplyTick
    <3> QED BY <3>1, OwnersAreApart, DroppingBeginsNothing
  <2>5. CASE ArmScheduler(s, saved)
    <3>1. work' = work
      BY <2>5 DEF ArmScheduler
    <3> QED BY <3>1, <1>1
  <2> QED BY <1>3, <2>1, <2>2, <2>3, <2>4, <2>5 DEF ServiceStep
<1>4. ASSUME NEW c \in Calls, NEW saved \in BOOLEAN, CallStep(c, saved)
      PROVE  BeginsUnmarked
  <2>1. CASE Reserve(c, saved)
    BY <2>1, ReserveBeginsUnmarked
  <2>2. CASE FinishManual(c, saved)
    <3>1. Dropped(Manual(c)) /\ now' = now
      BY <2>2 DEF FinishManual
    <3> QED BY <3>1, OwnersAreApart, DroppingBeginsNothing
  <2> QED BY <1>4, <2>1, <2>2 DEF CallStep
<1>5. CASE Execute
  <2>1. ASSUME NEW s \in Services, NEW j \in Jobs, StartDue(s, j) PROVE BeginsUnmarked
    <3>1. work[Tick(s)][j].at = "waiting" /\ Started(Tick(s), j) /\ now' = now
      BY <2>1 DEF StartDue
    <3> QED BY <3>1, OwnersAreApart, GoingOnBeginsNothing
  <2>2. ASSUME NEW s \in Services, NEW j \in Jobs, StartMissed(s, j) PROVE BeginsUnmarked
    <3>1. work[Catchup(s)][j].at = "waiting" /\ Started(Catchup(s), j) /\ now' = now
      BY <2>2 DEF StartMissed
    <3> QED BY <3>1, OwnersAreApart, GoingOnBeginsNothing
  <2>3. ASSUME NEW o \in Owners, NEW j \in Jobs, NEW status \in Outcomes[j], Ends(o, j, status)
        PROVE  BeginsUnmarked
    <3>1. now' = now
      BY <2>3 DEF Ends
    <3> QED BY <2>3, <3>1, GoingOnBeginsNothing
  <2> QED BY <1>5, <2>1, <2>2, <2>3 DEF Execute
<1>6. CASE ClockTicks
  <2>1. work' = work
    BY <1>6 DEF ClockTicks
  <2> QED BY <2>1, <1>1
<1>7. ASSUME NEW s \in Services, NEW on \in BOOLEAN, NEW saved \in BOOLEAN,
             Boot(s, on, saved) \/ Reload(s, on, saved)
      PROVE  BeginsUnmarked
  <2>1. work' = work
    BY <1>7 DEF Boot, Reload, Start
  <2> QED BY <2>1, <1>1
<1>8. CASE Ask
  <2>1. work' = work
    BY <1>8 DEF Ask, Preflight, PreflightRefused
  <2> QED BY <2>1, <1>1
<1>9. ASSUME NEW saved \in BOOLEAN, Change(saved) PROVE BeginsUnmarked
  <2>1. ASSUME NEW s, NEW st, Edit(s, st, saved) PROVE work' = work
    BY <2>1 DEF Edit
  <2>2. ASSUME NEW j \in Jobs, Add(j, saved) \/ Remove(j, saved) PROVE work' = work
    BY <2>1, <2>2 DEF Add, Remove
  <2>3. ASSUME NEW j \in Jobs, NEW patch \in {"enable", "disable", "schedule", "other"},
               Update(j, patch, saved)
        PROVE  work' = work
    BY <2>1, <2>3, UpdatedStore
  <2>4. Read(saved) => work' = work
    BY DEF Read
  <2>5. work' = work
    BY <1>9, <2>2, <2>3, <2>4 DEF Change
  <2> QED BY <2>5, <1>1
<1> QED BY <1>2, <1>3, <1>4, <1>5, <1>6, <1>7, <1>8, <1>9 DEF Step

LEMMA SoloKeeps == IInv /\ Marks /\ Solo /\ [Next]_vars => Marks' /\ Solo'
<1> SUFFICES ASSUME IInv, Marks, Solo, [Next]_vars PROVE Marks' /\ Solo'
  OBVIOUS
<1>1. CASE UNCHANGED vars
  BY <1>1 DEF vars, Marks, Solo, UnderWay
<1>2. CASE Next
  <2>1. \A j \in Jobs : UnderWay(j)' /\ j \notin disowned' =>
           j \notin disowned /\ Marked(disk'[j]) /\ ~ OverlooksMarker(j)
    BY <1>2 DEF Next, Account
  <2>2. Marks'
    BY <2>1 DEF Marks, Marked
  <2>3. BeginsUnmarked
    BY <1>2, StepBeginsUnmarked DEF Next
  <2>4. ASSUME NEW j \in Jobs, j \notin disowned', NEW o \in Owners, NEW p \in Owners,
               work'[o][j].at # "none", work'[p][j].at # "none", o # p
        PROVE  FALSE
    <3>1. UnderWay(j)'
      BY <2>4 DEF UnderWay
    <3>2. j \notin disowned /\ ~ OverlooksMarker(j)
      BY <2>1, <2>4, <3>1
    <3>3. CASE Begins(o, j) \/ Begins(p, j)
      <4>1. ~ Marked(disk[j]) /\ ~ (Begins(o, j) /\ Begins(p, j))
        BY <2>3, <2>4, <3>2, <3>3 DEF BeginsUnmarked
      <4>2. ~ UnderWay(j)
        BY <3>2, <4>1 DEF Marks
      <4> QED BY <2>4, <4>1, <4>2 DEF UnderWay, Begins
    <3>4. CASE ~ Begins(o, j) /\ ~ Begins(p, j)
      BY <2>4, <3>2, <3>4 DEF Begins, Solo
    <3> QED BY <3>3, <3>4
  <2>5. Solo'
    BY <2>4 DEF Solo
  <2> QED BY <2>2, <2>5
<1> QED BY <1>1, <1>2

LEMMA SoloInitially == Init => Marks /\ Solo
<1> SUFFICES ASSUME Init PROVE \A o \in Owners, j \in Jobs : work[o][j].at = "none"
  BY DEF Marks, Solo, UnderWay
<1> QED BY ConstantRecords DEF Init

LEMMA SoloInvariance == Spec => [](IInv /\ Marks /\ Solo)
<1>1. Init => IInv /\ Marks /\ Solo
  BY Initially0, SoloInitially
<1>2. IInv /\ Marks /\ Solo /\ [Next]_vars => (IInv /\ Marks /\ Solo)'
  BY StepKeeps, SoloKeeps
<1> QED BY <1>1, <1>2, PTL DEF Spec

LEMMA SoloIsOne == Solo => OneRunAtATime
<1> SUFFICES ASSUME Solo, NEW j \in Jobs \ disowned
             PROVE  Cardinality({o \in Owners : work[o][j].at # "none"}) <= 1
  BY DEF OneRunAtATime
<1>1. PICK os : os = {o \in Owners : work[o][j].at # "none"}
  OBVIOUS
<1>2. Cardinality({}) = 0
  BY FS_EmptySet
<1>3. \A p \in os : os = {p}
  BY <1>1 DEF Solo
<1>4. ASSUME NEW p \in os PROVE Cardinality(os) = 1
  <2>1. Cardinality({p}) = 1
    BY FS_Singleton
  <2>2. os = {p}
    BY <1>3
  <2> QED BY <2>1, <2>2
<1>5. os = {} \/ \E p \in os : TRUE
  OBVIOUS
<1>6. Cardinality(os) <= 1
  BY <1>2, <1>4, <1>5
<1> QED BY <1>1, <1>6

\* A job is under way for one owner at a time: over ticks, catch-ups and manual runs of
\* any number of services that share a file, what begins has no marker on disk, and an
\* execution that is accounted for has one.
THEOREM RunsAreApart == Spec => []OneRunAtATime
BY SoloInvariance, SoloIsOne, PTL

-----------------------------------------------------------------------------
(* The scheduler stays awake *)

\* A service that has started, with a next run in memory, has a timer or a tick.
Watchful(s) ==
    svc[s].startup = "done" /\ svc[s].enabled /\ faults = 0
      /\ (\E j \in Jobs : HasNext(mem[s][j])) => svc[s].timer \/ svc[s].running

\* What every step but the end of the process and a start does for the services.
Steady == \A t \in Services : /\ svc'[t].enabled = svc[t].enabled
                              /\ svc[t] # Off => svc'[t] # Off
Attentive == \A t \in Services : Watchful(t) => Watchful(t)'

LEMMA SectionAttends ==
    ASSUME IInv, NEW s \in Services, NEW v \in Service, svc' = [svc EXCEPT ![s] = v],
           v.enabled = svc[s].enabled, v.startup # "off", faults' = 0 => faults = 0,
           \A t \in Services \ {s} : mem'[t] = mem[t],
           v.startup = "done" /\ v.enabled /\ faults' = 0 /\ (\E j \in Jobs : HasNext(mem'[s][j]))
             => v.timer \/ v.running
    PROVE  Steady /\ Attentive
<1>1. svc'[s] = v /\ \A t \in Services \ {s} : svc'[t] = svc[t]
  BY DEF IInv, Phases
<1>2. v # Off
  BY NotOff
<1>3. Steady
  BY <1>1, <1>2 DEF Steady
<1>4. ASSUME NEW t \in Services, Watchful(t) PROVE Watchful(t)'
  <2>1. CASE t = s
    BY <1>1, <2>1 DEF Watchful
  <2>2. CASE t # s
    BY <1>1, <1>4, <2>2 DEF Watchful
  <2> QED BY <2>1, <2>2
<1> QED BY <1>3, <1>4 DEF Attentive

\* A section that only looks: the copy in memory has no next run that it had not.
LEMMA LookingAttends ==
    ASSUME svc' = svc, faults' = 0 => faults = 0,
           \A s \in Services : svc[s].enabled /\ (\E j \in Jobs : HasNext(mem'[s][j]))
              => \E j \in Jobs : HasNext(mem[s][j])
    PROVE  Steady /\ Attentive
BY DEF Steady, Attentive, Watchful

LEMMA FaultsStay ==
    ASSUME Counted, NEW st, NEW old, NEW saved \in BOOLEAN,
           Save(st, saved) \/ SaveChanged(old, st, saved)
    PROVE  (faults' = 0 => faults = 0) /\ (faults' = 0 => saved)
<1>1. faults' = (IF saved THEN faults ELSE faults + 1)
  BY SaveWrites
<1>2. faults \in Nat
  BY LimitsAssumption DEF Counted
<1> QED BY <1>1, <1>2

LEMMA ArmedWakes ==
    ASSUME NEW s \in Services, svc[s].enabled, NEW st, \E j \in Jobs : HasNext(st[j])
    PROVE  Armed(s, st)
BY DEF Armed, Stored, HasNext

LEMMA KeepKeeps ==
    ASSUME IInv, NEW s \in Services, NEW st, Keep(s, st)
    PROVE  mem'[s] = st /\ \A t \in Services \ {s} : mem'[t] = mem[t]
BY DEF Keep, IInv, Records

LEMMA PlanAttends ==
    ASSUME IInv, NEW s \in Services, NEW saved \in BOOLEAN, PlanCatchup(s, saved)
    PROVE  Steady /\ Attentive
<1>1. svc[s].startup = "plan"
  BY DEF PlanCatchup
<1>2. svc[s] \in Service
  BY DEF IInv, Phases
<1>3. PICK missed \in SUBSET Jobs : missed = {j \in Jobs \ svc[s].aside : Missed(j, mem[s][j])}
  OBVIOUS
<1>4. CASE missed = {}
  <2>1. /\ svc' = [svc EXCEPT ![s].startup = "arm", ![s].aside = {}]
        /\ UNCHANGED <<disk, faults, mem, work>>
    BY <1>3, <1>4 DEF PlanCatchup
  <2>2. PICK v \in Service : v = [svc[s] EXCEPT !.startup = "arm", !.aside = {}]
    BY <1>2 DEF Service
  <2>3. v.startup = "arm" /\ v.enabled = svc[s].enabled
    BY <1>2, <2>2 DEF Service
  <2>4. svc' = [svc EXCEPT ![s] = v]
    BY <2>1, <2>2 DEF IInv, Phases
  <2> QED BY <2>1, <2>3, <2>4, SectionAttends
<1>5. CASE missed # {}
  <2>1. PICK js \in SUBSET missed :
            /\ Keep(s, Marking(mem[s], js))
            /\ Save(Marking(mem[s], js), saved)
            /\ svc' = [svc EXCEPT ![s].startup = IF saved THEN "run" ELSE "failed",
                                  ![s].aside = IF saved THEN missed \ js ELSE {}]
    BY <1>3, <1>5 DEF PlanCatchup
  <2>2. PICK phase \in {"run", "failed"} : phase = IF saved THEN "run" ELSE "failed"
    OBVIOUS
  <2>3. PICK aside \in SUBSET Jobs : aside = IF saved THEN missed \ js ELSE {}
    OBVIOUS
  <2>4. PICK v \in Service : v = [svc[s] EXCEPT !.startup = phase, !.aside = aside]
    BY <1>2 DEF Service
  <2>5. v.startup = phase /\ v.enabled = svc[s].enabled
    BY <1>2, <2>4 DEF Service
  <2>6. svc' = [svc EXCEPT ![s] = v]
    BY <2>1, <2>2, <2>3, <2>4 DEF IInv, Phases
  <2>7. \A t \in Services \ {s} : mem'[t] = mem[t]
    BY <2>1, KeepKeeps
  <2>8. faults' = 0 => faults = 0
    BY <2>1, FaultsStay DEF IInv
  <2> QED BY <2>2, <2>5, <2>6, <2>7, <2>8, SectionAttends
<1> QED BY <1>4, <1>5

LEMMA ApplyCatchupAttends ==
    ASSUME IInv, NEW s \in Services, NEW saved \in BOOLEAN, ApplyCatchup(s, saved)
    PROVE  Steady /\ Attentive
<1>1. svc' = [svc EXCEPT ![s].startup = IF saved THEN "arm" ELSE "failed", ![s].aside = {}]
  BY DEF ApplyCatchup
<1>2. svc[s] \in Service
  BY DEF IInv, Phases
<1>3. PICK put : Keep(s, Maintained(put, FALSE)) /\ Save(Maintained(put, FALSE), saved)
  BY CatchupStore
<1>4. PICK phase \in {"arm", "failed"} : phase = IF saved THEN "arm" ELSE "failed"
  OBVIOUS
<1>5. PICK v \in Service : v = [svc[s] EXCEPT !.startup = phase, !.aside = {}]
  BY <1>2 DEF Service
<1>6. v.startup = phase /\ v.enabled = svc[s].enabled
  BY <1>2, <1>5 DEF Service
<1>7. svc' = [svc EXCEPT ![s] = v]
  BY <1>1, <1>4, <1>5 DEF IInv, Phases
<1>8. \A t \in Services \ {s} : mem'[t] = mem[t]
  BY <1>3, KeepKeeps
<1>9. faults' = 0 => faults = 0
  BY <1>3, FaultsStay DEF IInv
<1> QED BY <1>4, <1>6, <1>7, <1>8, <1>9, SectionAttends

LEMMA ArmAttends ==
    ASSUME IInv, NEW s \in Services, NEW saved \in BOOLEAN, ArmScheduler(s, saved)
    PROVE  Steady /\ Attentive
<1>1. PICK st : st = Recomputed(mem[s])
  OBVIOUS
<1>2. /\ svc[s].startup = "arm" /\ Keep(s, st) /\ SaveChanged(mem[s], st, saved)
      /\ svc' = [svc EXCEPT ![s].startup = IF saved THEN "done" ELSE "failed",
                            ![s].timer = IF saved THEN Armed(s, st) ELSE @]
  BY <1>1 DEF ArmScheduler
<1>3. svc[s] \in Service /\ svc[s].enabled
  BY <1>2 DEF IInv, Phases, Phase
<1>4. PICK phase \in {"done", "failed"} : phase = IF saved THEN "done" ELSE "failed"
  OBVIOUS
<1>5. PICK timer \in BOOLEAN : timer = IF saved THEN Armed(s, st) ELSE svc[s].timer
  BY <1>3 DEF Service, Armed
<1>6. PICK v \in Service : v = [svc[s] EXCEPT !.startup = phase, !.timer = timer]
  BY <1>3 DEF Service
<1>7. v.startup = phase /\ v.enabled = svc[s].enabled /\ v.timer = timer
  BY <1>3, <1>6 DEF Service
<1>8. svc' = [svc EXCEPT ![s] = v]
  BY <1>2, <1>4, <1>5, <1>6 DEF IInv, Phases
<1>9. mem'[s] = st /\ \A t \in Services \ {s} : mem'[t] = mem[t]
  BY <1>2, KeepKeeps
<1>10. (faults' = 0 => faults = 0) /\ (faults' = 0 => saved)
  BY <1>2, FaultsStay DEF IInv
<1>11. saved /\ (\E j \in Jobs : HasNext(mem'[s][j])) => v.timer
  BY <1>3, <1>5, <1>7, <1>9, ArmedWakes
<1>12. v.startup # "off"
  BY <1>4, <1>7
<1> QED BY <1>7, <1>8, <1>9, <1>10, <1>11, <1>12, SectionAttends

\* Arming the timer for the copy of the store that is kept.
LEMMA RearmAttends ==
    ASSUME IInv, NEW s \in Services, svc[s] # Off, NEW st, Keep(s, st), Rearm(s, st),
           faults' = 0 => faults = 0
    PROVE  Steady /\ Attentive
<1>1. svc[s] \in Service /\ svc[s].startup # "off"
  BY ServiceFields DEF IInv
<1>2. PICK timer \in BOOLEAN : timer = Armed(s, st)
  BY DEF Armed
<1>3. PICK v \in Service : v = [svc[s] EXCEPT !.timer = timer]
  BY <1>1 DEF Service
<1>4. v.startup = svc[s].startup /\ v.enabled = svc[s].enabled /\ v.timer = timer
  BY <1>1, <1>3 DEF Service
<1>5. svc' = [svc EXCEPT ![s] = v]
  BY <1>2, <1>3 DEF Rearm, IInv, Phases
<1>6. mem'[s] = st /\ \A t \in Services \ {s} : mem'[t] = mem[t]
  BY KeepKeeps
<1>7. v.enabled /\ (\E j \in Jobs : HasNext(mem'[s][j])) => v.timer
  BY <1>2, <1>4, <1>6, ArmedWakes
<1> QED BY <1>1, <1>4, <1>5, <1>6, <1>7, SectionAttends

LEMMA TimerAttends ==
    ASSUME IInv, NEW s \in Services, NEW saved \in BOOLEAN, TimerFires(s, saved)
    PROVE  Steady /\ Attentive
<1>1. PICK due \in SUBSET Jobs : due = {j \in Jobs : Runnable(disk[j])}
  OBVIOUS
<1>2. PICK st : st = IF due = {} THEN Maintained(disk, TRUE) ELSE Marking(disk, due)
  OBVIOUS
<1>3. /\ svc[s].timer /\ Keep(s, st)
      /\ Save(st, saved) \/ SaveChanged(disk, st, saved)
      /\ IF due # {} /\ saved
         THEN svc' = [svc EXCEPT ![s].running = TRUE, ![s].bound = TRUE]
         ELSE Rearm(s, st)
  BY <1>1, <1>2 DEF TimerFires
<1>4. svc[s] \in Service /\ svc[s] # Off /\ svc[s].startup # "off"
  BY <1>3, ServiceFields DEF IInv
<1>5. faults' = 0 => faults = 0
  BY <1>3, FaultsStay DEF IInv
<1>6. CASE due # {} /\ saved
  <2>1. PICK v \in Service : v = [svc[s] EXCEPT !.running = TRUE, !.bound = TRUE]
    BY <1>4 DEF Service
  <2>2. v.startup = svc[s].startup /\ v.enabled = svc[s].enabled /\ v.running
    BY <1>4, <2>1 DEF Service
  <2>3. svc' = [svc EXCEPT ![s] = v]
    BY <1>3, <1>6, <2>1 DEF IInv, Phases
  <2>4. \A t \in Services \ {s} : mem'[t] = mem[t]
    BY <1>3, KeepKeeps
  <2> QED BY <1>4, <1>5, <2>2, <2>3, <2>4, SectionAttends
<1>7. CASE ~ (due # {} /\ saved)
  BY <1>3, <1>4, <1>5, <1>7, RearmAttends
<1> QED BY <1>6, <1>7

LEMMA ApplyTickAttends ==
    ASSUME IInv, NEW s \in Services, NEW saved \in BOOLEAN, ApplyTick(s, saved)
    PROVE  Steady /\ Attentive
<1>1. PICK st : st = Maintained(With(disk, Tick(s)), FALSE)
  OBVIOUS
<1>2. /\ svc[s].running /\ Keep(s, st) /\ Save(st, saved)
      /\ svc' = [svc EXCEPT ![s].running = FALSE, ![s].bound = FALSE, ![s].timer = Armed(s, st)]
  BY <1>1 DEF ApplyTick
<1>3. svc[s] \in Service /\ svc[s].startup # "off"
  BY <1>2, ServiceFields DEF IInv
<1>4. PICK timer \in BOOLEAN : timer = Armed(s, st)
  BY DEF Armed
<1>5. PICK v \in Service : v = [svc[s] EXCEPT !.running = FALSE, !.bound = FALSE, !.timer = timer]
  BY <1>3 DEF Service
<1>6. v.startup = svc[s].startup /\ v.enabled = svc[s].enabled /\ v.timer = timer
  BY <1>3, <1>5 DEF Service
<1>7. svc' = [svc EXCEPT ![s] = v]
  BY <1>2, <1>4, <1>5 DEF IInv, Phases
<1>8. mem'[s] = st /\ \A t \in Services \ {s} : mem'[t] = mem[t]
  BY <1>2, KeepKeeps
<1>9. v.enabled /\ (\E j \in Jobs : HasNext(mem'[s][j])) => v.timer
  BY <1>4, <1>6, <1>8, ArmedWakes
<1>10. faults' = 0 => faults = 0
  BY <1>2, FaultsStay DEF IInv
<1> QED BY <1>3, <1>6, <1>7, <1>8, <1>9, <1>10, SectionAttends

LEMMA FinishManualAttends ==
    ASSUME IInv, NEW c \in Calls, NEW saved \in BOOLEAN, FinishManual(c, saved)
    PROVE  Steady /\ Attentive
<1>1. PICK s \in Services : s = call[c].svc /\ svc[s] # Off
  BY DEF FinishManual, IInv, Requests, Request
<1>2. CASE mem[s][call[c].job] = None
  <2>1. UNCHANGED <<mem, disk, faults, svc>>
    BY <1>1, <1>2 DEF FinishManual
  <2> QED BY <2>1, LookingAttends
<1>3. CASE mem[s][call[c].job] # None
  <2>1. PICK st : st = FinishedStore(c)
    OBVIOUS
  <2>2. /\ Keep(s, st) /\ Save(st, saved)
        /\ svc' = [svc EXCEPT ![s].bound = FALSE,
                              ![s].timer = IF saved THEN Armed(s, st) ELSE @]
    BY <1>1, <1>3, <2>1 DEF FinishManual, FinishedStore
  <2>3. svc[s] \in Service /\ svc[s].startup # "off"
    BY <1>1, ServiceFields DEF IInv
  <2>4. PICK timer \in BOOLEAN : timer = IF saved THEN Armed(s, st) ELSE svc[s].timer
    BY <2>3 DEF Service, Armed
  <2>5. PICK v \in Service : v = [svc[s] EXCEPT !.bound = FALSE, !.timer = timer]
    BY <2>3 DEF Service
  <2>6. v.startup = svc[s].startup /\ v.enabled = svc[s].enabled /\ v.timer = timer
    BY <2>3, <2>5 DEF Service
  <2>7. svc' = [svc EXCEPT ![s] = v]
    BY <2>2, <2>4, <2>5 DEF IInv, Phases
  <2>8. mem'[s] = st /\ \A t \in Services \ {s} : mem'[t] = mem[t]
    BY <2>2, KeepKeeps
  <2>9. saved /\ v.enabled /\ (\E j \in Jobs : HasNext(mem'[s][j])) => v.timer
    BY <2>4, <2>6, <2>8, ArmedWakes
  <2>10. (faults' = 0 => faults = 0) /\ (faults' = 0 => saved)
    BY <2>2, FaultsStay DEF IInv
  <2> QED BY <2>3, <2>6, <2>7, <2>8, <2>9, <2>10, SectionAttends
<1> QED BY <1>2, <1>3

LEMMA EditAttends ==
    ASSUME IInv, current # None, NEW st, NEW saved \in BOOLEAN, Edit(current, st, saved)
    PROVE  Steady /\ Attentive
<1>1. Keep(current, st) /\ Save(st, saved) /\ IF saved THEN Rearm(current, st) ELSE UNCHANGED svc
  BY DEF Edit
<1>2. (faults' = 0 => faults = 0) /\ (faults' = 0 => saved)
  BY <1>1, FaultsStay DEF IInv
<1>3. current \in Services /\ svc[current] # Off
  BY CurrentService
<1>4. CASE saved
  BY <1>1, <1>2, <1>3, <1>4, RearmAttends
<1>5. CASE ~ saved
  <2>1. faults' # 0 /\ svc' = svc
    BY <1>1, <1>2, <1>5
  <2> QED BY <2>1 DEF Steady, Attentive, Watchful
<1> QED BY <1>4, <1>5

\* What maintenance may make of record r: a marker may go, as Tended says, and a disabled
\* job has no next run.
Carried(r, q) ==
    /\ r = None <=> q = None
    /\ r # None => Tended(r, q, now) /\ (r.enabled => q.next = r.next)

LEMMA MaintenanceCarries ==
    ASSUME now \in Time, NEW old, Valid(old, now), NEW x \in BOOLEAN,
           NEW st, st = Maintained(old, x), NEW j \in Jobs
    PROVE  Carried(old[j], st[j])
<1>1. old \in Store /\ (old[j] # None => Sound(j, old[j], now))
  BY DEF Valid
<1>2. /\ old[j] = None => st[j] = None
      /\ old[j] # None =>
            /\ st[j] \in Job /\ Tended(old[j], st[j], now)
            /\ old[j].enabled => st[j].next = old[j].next
  BY <1>1, MaintainedRecord
<1> QED BY <1>2, NoneAssumption DEF Carried

\* Maintenance computes no next run anew: it gives none to a job that has none.
LEMMA MaintenanceAttends ==
    ASSUME IInv, current # None, svc' = svc, faults' = 0 => faults = 0,
           Keep(current, Maintained(InMemory(current), FALSE))
    PROVE  Steady /\ Attentive
<1>1. current \in Services /\ Records /\ now \in Time
  BY CurrentService DEF IInv, Records
<1>2. PICK st : st = Maintained(InMemory(current), FALSE)
  OBVIOUS
<1>3. mem'[current] = st /\ \A t \in Services \ {current} : mem'[t] = mem[t]
  BY <1>1, <1>2, KeepKeeps
<1>4. ASSUME svc[current].enabled, NEW j \in Jobs, HasNext(st[j]) PROVE HasNext(mem[current][j])
  <2>1. mem[current] # None
    BY <1>1, <1>4, ServiceFields DEF IInv
  <2>2. Valid(mem[current], now) /\ InMemory(current) = mem[current]
    BY <1>1, <2>1 DEF Records, InMemory
  <2>3. Carried(mem[current][j], st[j])
    BY <1>1, <1>2, <2>2, MaintenanceCarries
  <2> QED BY <1>4, <2>3 DEF HasNext, Carried, Tended
<1>5. \A s \in Services : svc[s].enabled /\ (\E j \in Jobs : HasNext(mem'[s][j]))
              => \E j \in Jobs : HasNext(mem[s][j])
  BY <1>3, <1>4
<1> QED BY <1>5, LookingAttends

\* The marker of a job has nothing to do with its next run.
LEMMA ReserveAttends ==
    ASSUME IInv, NEW c \in Calls, NEW saved \in BOOLEAN, Reserve(c, saved)
    PROVE  Steady /\ Attentive
<1>1. /\ call[c] \in Call /\ Request(c) /\ call[c].at = "reserving" /\ svc' = svc
      /\ now \in Time /\ Records
  BY DEF Reserve, IInv, Requests, Records
<1>2. PICK s \in Services : s = call[c].svc /\ mem[s] # None
  BY <1>1 DEF Request
<1>3. PICK j \in Jobs : j = call[c].job
  BY <1>1 DEF Request
<1>4. PICK t \in Time : t = call[c].now /\ t <= now
  BY <1>1 DEF Request, Call
<1>5. CASE MayReserve(mem[s][j])
  <2>1. PICK st : st = [mem[s] EXCEPT ![j].running = t]
    OBVIOUS
  <2>2. Keep(s, st) /\ Save(st, saved)
    BY <1>2, <1>3, <1>4, <1>5, <2>1 DEF Reserve
  <2>3. Valid(mem[s], now) /\ mem[s][j] # None
    BY <1>1, <1>2, <1>5 DEF Records, MayReserve
  <2>4. /\ st[j].enabled = mem[s][j].enabled /\ st[j].next = mem[s][j].next
        /\ \A i \in Jobs \ {j} : st[i] = mem[s][i]
    BY <1>1, <1>4, <2>1, <2>3, MarkedAt DEF SetsMarker
  <2>5. \A i \in Jobs : HasNext(st[i]) => HasNext(mem[s][i])
    BY <2>3, <2>4 DEF HasNext
  <2>6. mem'[s] = st /\ \A u \in Services \ {s} : mem'[u] = mem[u]
    BY <2>2, KeepKeeps
  <2>7. \A u \in Services : svc[u].enabled /\ (\E i \in Jobs : HasNext(mem'[u][i]))
              => \E i \in Jobs : HasNext(mem[u][i])
    BY <2>5, <2>6
  <2>8. faults' = 0 => faults = 0
    BY <2>2, FaultsStay DEF IInv
  <2> QED BY <1>1, <2>7, <2>8, LookingAttends
<1>6. CASE ~ MayReserve(mem[s][j])
  <2>1. UNCHANGED <<mem, faults>>
    BY <1>2, <1>3, <1>6 DEF Reserve
  <2> QED BY <1>1, <2>1, LookingAttends
<1> QED BY <1>5, <1>6

LEMMA StartDueAttends ==
    ASSUME IInv, NEW s \in Services, NEW j \in Jobs, StartDue(s, j)
    PROVE  Steady /\ Attentive
<1>1. UNCHANGED <<svc, faults>> /\ now \in Time /\ Records
  BY DEF StartDue, IInv, Records
<1>2. CASE svc[s].bound /\ mem[s][j] # None
  <2>1. PICK st : st = [mem[s] EXCEPT ![j].running = now]
    OBVIOUS
  <2>2. mem' = [mem EXCEPT ![s] = st]
    BY <1>2, <2>1 DEF StartDue
  <2>3. mem[s] # None
    BY <1>2, ServiceFields DEF IInv
  <2>4. Valid(mem[s], now) /\ now <= now
    BY <1>1, <2>3, TimesAreNaturals DEF Records
  <2>5. /\ st[j].enabled = mem[s][j].enabled /\ st[j].next = mem[s][j].next
        /\ \A i \in Jobs \ {j} : st[i] = mem[s][i]
    BY <1>1, <1>2, <2>1, <2>4, MarkedAt DEF SetsMarker
  <2>6. \A i \in Jobs : HasNext(st[i]) => HasNext(mem[s][i])
    BY <1>2, <2>5 DEF HasNext
  <2>7. mem'[s] = st /\ \A u \in Services \ {s} : mem'[u] = mem[u]
    BY <2>2, KeepKeeps DEF Keep
  <2>8. \A u \in Services : svc[u].enabled /\ (\E i \in Jobs : HasNext(mem'[u][i]))
              => \E i \in Jobs : HasNext(mem[u][i])
    BY <2>6, <2>7
  <2> QED BY <1>1, <2>8, LookingAttends
<1>3. CASE ~ (svc[s].bound /\ mem[s][j] # None)
  <2>1. mem' = mem
    BY <1>3 DEF StartDue
  <2> QED BY <1>1, <2>1, LookingAttends
<1> QED BY <1>2, <1>3

\* Every step of a process but the start of another service.
LEMMA StepAttends ==
    ASSUME IInv, Step, current # None, current' = current
    PROVE  Steady /\ Attentive
<1>1. CASE ClockTicks
  <2>1. UNCHANGED <<mem, svc, faults>>
    BY <1>1 DEF ClockTicks
  <2> QED BY <2>1, LookingAttends
<1>2. CASE Crash
  BY <1>2 DEF Crash
<1>3. ASSUME NEW s \in Services, NEW on \in BOOLEAN, NEW saved \in BOOLEAN,
             Boot(s, on, saved) \/ Reload(s, on, saved)
      PROVE  FALSE
  <2>1. svc[s] = Off /\ current' = s
    BY <1>3 DEF Boot, Reload, Start
  <2>2. svc[current] # Off
    BY CurrentService
  <2> QED BY <2>1, <2>2
<1>4. ASSUME NEW s \in Services, NEW saved \in BOOLEAN, ServiceStep(s, saved)
      PROVE  Steady /\ Attentive
  BY <1>4, PlanAttends, ApplyCatchupAttends, ArmAttends, TimerAttends, ApplyTickAttends
     DEF ServiceStep
<1>5. ASSUME NEW c \in Calls, NEW saved \in BOOLEAN, CallStep(c, saved)
      PROVE  Steady /\ Attentive
  BY <1>5, ReserveAttends, FinishManualAttends DEF CallStep
<1>6. CASE Execute
  <2>1. ASSUME NEW s \in Services, NEW j \in Jobs, StartDue(s, j) PROVE Steady /\ Attentive
    BY <2>1, StartDueAttends
  <2>2. ASSUME NEW s \in Services, NEW j \in Jobs, StartMissed(s, j) PROVE Steady /\ Attentive
    <3>1. UNCHANGED <<mem, svc, faults>>
      BY <2>2 DEF StartMissed
    <3> QED BY <3>1, LookingAttends
  <2>3. ASSUME NEW o \in Owners, NEW j \in Jobs, NEW status \in Outcomes[j], Ends(o, j, status)
        PROVE  Steady /\ Attentive
    <3>1. UNCHANGED <<mem, svc, faults>>
      BY <2>3 DEF Ends
    <3> QED BY <3>1, LookingAttends
  <2> QED BY <1>6, <2>1, <2>2, <2>3 DEF Execute
<1>7. CASE Ask
  <2>1. UNCHANGED <<svc, faults>> /\ Keep(current, Maintained(InMemory(current), FALSE))
    BY <1>7 DEF Ask, Preflight, PreflightRefused
  <2> QED BY <2>1, MaintenanceAttends
<1>8. ASSUME NEW saved \in BOOLEAN, Change(saved) PROVE Steady /\ Attentive
  <2>1. ASSUME NEW st, Edit(current, st, saved) PROVE Steady /\ Attentive
    BY <2>1, EditAttends
  <2>2. ASSUME NEW j \in Jobs, Add(j, saved) \/ Remove(j, saved) PROVE Steady /\ Attentive
    BY <2>1, <2>2 DEF Add, Remove
  <2>3. ASSUME NEW j \in Jobs, NEW patch \in {"enable", "disable", "schedule", "other"},
               Update(j, patch, saved)
        PROVE  Steady /\ Attentive
    BY <2>1, <2>3, UpdatedStore
  <2>4. ASSUME Read(saved) PROVE Steady /\ Attentive
    <3>1. /\ svc' = svc /\ Keep(current, Maintained(InMemory(current), FALSE))
          /\ SaveChanged(InMemory(current), Maintained(InMemory(current), FALSE), saved)
      BY <2>4 DEF Read
    <3>2. faults' = 0 => faults = 0
      BY <3>1, FaultsStay DEF IInv
    <3> QED BY <3>1, <3>2, MaintenanceAttends
  <2> QED BY <1>8, <2>2, <2>3, <2>4 DEF Change
<1> QED BY <1>1, <1>2, <1>3, <1>4, <1>5, <1>6, <1>7, <1>8 DEF Step

\* The service behind the gateway's methods is watchful.
Awake == current # None => Watchful(current)

LEMMA StartIsNotDone ==
    ASSUME IInv, NEW s \in Services, NEW on \in BOOLEAN, NEW before, NEW saved \in BOOLEAN,
           Stopping(before), Start(s, on, before, saved)
    PROVE  svc'[s].startup # "done" \/ ~ svc'[s].enabled
<1>1. PICK phase \in {"plan", "failed", "done"} :
         phase = (IF ~ on THEN "done" ELSE IF saved THEN "plan" ELSE "failed")
  OBVIOUS
<1>2. PICK marked \in SUBSET Jobs : marked = {j \in Jobs : Marked(disk[j])}
  OBVIOUS
<1>3. PICK aside \in SUBSET Jobs : aside = IF on THEN marked ELSE {}
  OBVIOUS
<1>4. PICK v : v = [Off EXCEPT !.startup = phase, !.enabled = on, !.aside = aside]
  OBVIOUS
<1>5. v.startup = phase /\ v.enabled = on
  BY <1>4 DEF Off
<1>6. svc' = [before EXCEPT ![s] = v]
  BY <1>1, <1>2, <1>3, <1>4 DEF Start
<1>7. svc'[s] = v
  BY <1>6 DEF Stopping
<1> QED BY <1>1, <1>5, <1>7

LEMMA CurrentStays ==
    ASSUME IInv, Step, current' # current
    PROVE  \/ current' = None /\ Crash
           \/ \E s \in Services, on \in BOOLEAN, saved \in BOOLEAN :
                 current' = s /\ (Boot(s, on, saved) \/ Reload(s, on, saved))
<1>1. ClockTicks => current' = current
  BY DEF ClockTicks
<1>2. Crash => current' = None
  BY DEF Crash
<1>3. \A s \in Services, on \in BOOLEAN, saved \in BOOLEAN :
         Boot(s, on, saved) \/ Reload(s, on, saved) => current' = s
  BY DEF Boot, Reload, Start
<1>4. ASSUME NEW s \in Services, NEW saved \in BOOLEAN, ServiceStep(s, saved)
      PROVE  current' = current
  <2>1. PlanCatchup(s, saved) \/ ApplyCatchup(s, saved) => current' = current
    BY DEF PlanCatchup, ApplyCatchup
  <2>2. ArmScheduler(s, saved) \/ TimerFires(s, saved) \/ ApplyTick(s, saved)
          => current' = current
    BY DEF ArmScheduler, TimerFires, ApplyTick
  <2> QED BY <1>4, <2>1, <2>2 DEF ServiceStep
<1>5. \A c \in Calls, saved \in BOOLEAN : CallStep(c, saved) => current' = current
  BY DEF CallStep, Reserve, FinishManual
<1>6. Execute => current' = current
  BY DEF Execute, StartDue, StartMissed, Ends
<1>7. Ask => current' = current
  BY DEF Ask, Preflight, PreflightRefused
<1>8. ASSUME NEW saved \in BOOLEAN, Change(saved) PROVE current' = current
  <2>1. ASSUME NEW s, NEW st, Edit(s, st, saved) PROVE current' = current
    BY <2>1 DEF Edit
  <2>2. ASSUME NEW j \in Jobs, Add(j, saved) \/ Remove(j, saved) PROVE current' = current
    BY <2>1, <2>2 DEF Add, Remove
  <2>3. ASSUME NEW j \in Jobs, NEW patch \in {"enable", "disable", "schedule", "other"},
               Update(j, patch, saved)
        PROVE  current' = current
    BY <2>1, <2>3, UpdatedStore
  <2>4. Read(saved) => current' = current
    BY DEF Read
  <2> QED BY <1>8, <2>2, <2>3, <2>4 DEF Change
<1> QED BY <1>1, <1>2, <1>3, <1>4, <1>5, <1>6, <1>7, <1>8 DEF Step

LEMMA AwakeKeeps == IInv /\ Awake /\ [Next]_vars => Awake'
<1> SUFFICES ASSUME IInv, Awake, [Next]_vars PROVE Awake'
  OBVIOUS
<1>1. CASE UNCHANGED vars
  BY <1>1 DEF vars, Awake, Watchful
<1>2. CASE Step /\ current' = current
  <2> SUFFICES ASSUME current # None PROVE Watchful(current)'
    BY <1>2 DEF Awake
  <2>1. Attentive /\ current \in Services
    BY <1>2, StepAttends, CurrentService
  <2> QED BY <1>2, <2>1 DEF Awake, Attentive, Watchful
<1>3. CASE Step /\ current' # current /\ current' # None
  <2>1. PICK s \in Services, on \in BOOLEAN, saved \in BOOLEAN :
           current' = s /\ (Boot(s, on, saved) \/ Reload(s, on, saved))
    BY <1>3, CurrentStays
  <2>2. svc'[s].startup # "done" \/ ~ svc'[s].enabled
    BY <2>1, StartOf, StartIsNotDone
  <2> QED BY <2>1, <2>2 DEF Awake, Watchful
<1>4. CASE current' = None
  BY <1>4 DEF Awake
<1> QED BY <1>1, <1>2, <1>3, <1>4 DEF Next

LEMMA AwakeInvariance == Spec => [](IInv /\ Awake)
<1>1. Init => IInv /\ Awake
  BY Initially0 DEF Init, Awake
<1>2. IInv /\ Awake /\ [Next]_vars => (IInv /\ Awake)'
  BY StepKeeps, AwakeKeeps
<1> QED BY <1>1, <1>2, PTL DEF Spec

\* No lost wakeup: while no save has failed, a service that has started, and whose copy of
\* the store holds a next run, has its timer armed or a tick that will arm it, through
\* edits and reads that arm nothing, ticks that find the timer gone, and manual runs.
THEOREM NoLostWakeup == Spec => []SchedulerStaysAwake
<1>1. Awake => SchedulerStaysAwake
  BY DEF Awake, Watchful, SchedulerStaysAwake, Serving
<1> QED BY <1>1, AwakeInvariance, PTL

-----------------------------------------------------------------------------
(* The copy in memory and the file *)

\* The record m in memory is a copy of the record d of the file at time t, but for the
\* marker: it may be newer in memory, or gone because it was too old.
Copy(d, m, t) ==
    /\ d = None <=> m = None
    /\ d # None =>
          /\ m.enabled = d.enabled
          /\ d.enabled => m.next = d.next
          /\ d.enabled /\ d.running # None =>
                IF m.running = None THEN d.running + StuckRun < t ELSE d.running <= m.running

\* What the current service has in memory is a copy, and a marker, in the file or in
\* memory, is that of a job under way.
Copies ==
    mem[current] # None =>
        \A j \in Jobs :
            /\ Copy(disk[j], mem[current][j], now)
            /\ svc[current].enabled /\ (Marked(disk[j]) \/ Marked(mem[current][j])) => UnderWay(j)

Accompanied == Calm /\ current # None => Copies

\* q has the marker of r, if the job is enabled and the marker is not too old.
MarkerKept(r, q) ==
    Marked(r) /\ r.enabled /\ q # None /\ q.enabled /\ ~ Marked(q) => r.running + StuckRun < now

\* q has the next run of r.
NextKept(r, q) == r # None /\ r.enabled /\ q # None /\ q.enabled => q.next = r.next

\* An execution of j is reported, and none begins.
Relieved(j) ==
    \E o \in Owners :
        /\ work[o][j].at = "ended" /\ work'[o][j].at = "none"
        /\ \A p \in Owners : work'[p][j].at # "none" => work[p][j].at # "none"

\* What may advance a next run without a report.
Allowed(j) ==
    \/ known' # known
    \/ svc' # svc /\ svc[current].startup \in {"run", "arm"}
    \/ \E patch \in {"enable", "schedule"} : Update(j, patch, TRUE)

\* A step in the life of one service, whose every save has gone well.
Setting ==
    /\ IInv /\ IInv' /\ Calm /\ Copies /\ Steady
    /\ current # None /\ current' = current

\* What is to be shown of it.
Traced ==
    /\ faults' = 0 => Copies'
    /\ \A j \in Jobs : MarkerKept(disk[j], disk'[j]) \/ Relieved(j)
    /\ svc[current].enabled =>
          \A j \in Jobs : NextKept(disk[j], disk'[j]) \/ Relieved(j) \/ Allowed(j)

\* What a store that a section writes must satisfy.
Followed(st) ==
    \A j \in Jobs :
        /\ svc[current].enabled /\ Marked(st[j]) => UnderWay(j)'
        /\ MarkerKept(disk[j], st[j]) \/ Relieved(j)
        /\ svc[current].enabled => NextKept(disk[j], st[j]) \/ Relieved(j) \/ Allowed(j)

LEMMA SelfCopy ==
    ASSUME NEW r \in Job \cup {None}, NEW t
    PROVE  Copy(r, r, t)
<1>1. CASE r = None
  BY <1>1 DEF Copy
<1>2. CASE r # None
  <2>1. r.running # None => r.running \in Nat
    BY <1>2, JobFields, TimesAreNaturals
  <2>2. r.running # None => r.running <= r.running
    BY <2>1
  <2> QED BY <1>2, <2>2 DEF Copy
<1> QED BY <1>1, <1>2

LEMMA CopyLater ==
    ASSUME NEW d \in Job \cup {None}, NEW m, NEW t \in Nat, NEW u \in Nat, t <= u, Copy(d, m, t)
    PROVE  Copy(d, m, u)
<1>1. CASE d = None
  BY <1>1 DEF Copy
<1>2. CASE d # None
  <2>1. (d.running # None => d.running \in Nat) /\ StuckRun \in Nat
    BY <1>2, JobFields, TimesAreNaturals
  <2>2. d.running # None /\ d.running + StuckRun < t => d.running + StuckRun < u
    BY <2>1
  <2> QED BY <1>2, <2>2 DEF Copy
<1> QED BY <1>1, <1>2

LEMMA CarriedIsKept ==
    ASSUME NEW r, NEW q, Carried(r, q)
    PROVE  /\ MarkerKept(r, q) /\ NextKept(r, q)
           /\ Marked(q) => Marked(r)
BY DEF Carried, Tended, MarkerKept, NextKept, Marked

\* What is kept from a copy is kept from the file.
LEMMA KeptAcross ==
    ASSUME now \in Time, NEW d \in Job \cup {None}, NEW m \in Job \cup {None}, Copy(d, m, now),
           NEW q
    PROVE  /\ MarkerKept(m, q) => MarkerKept(d, q)
           /\ NextKept(m, q) => NextKept(d, q)
<1>1. ASSUME MarkerKept(m, q), Marked(d), d.enabled, q # None, q.enabled, ~ Marked(q)
      PROVE  d.running + StuckRun < now
  <2>1. d # None /\ d.running # None /\ m # None /\ m.enabled
    BY <1>1 DEF Marked, Copy
  <2>2. now \in Nat /\ d.running \in Nat /\ (m.running # None => m.running \in Nat) /\ StuckRun \in Nat
    BY <2>1, JobFields, TimesAreNaturals
  <2>3. CASE m.running = None
    BY <1>1, <2>1, <2>3 DEF Copy
  <2>4. CASE m.running # None
    <3>1. m.running + StuckRun < now
      BY <1>1, <2>1, <2>4 DEF MarkerKept, Marked
    <3>2. d.running <= m.running
      BY <1>1, <2>1, <2>4 DEF Copy
    <3> QED BY <2>2, <2>4, <3>1, <3>2
  <2> QED BY <2>3, <2>4
<1>2. MarkerKept(m, q) => MarkerKept(d, q)
  BY <1>1 DEF MarkerKept
<1>3. NextKept(m, q) => NextKept(d, q)
  BY DEF NextKept, Copy
<1> QED BY <1>2, <1>3

LEMMA InMemoryIsCopy ==
    ASSUME Setting, NEW old, old = InMemory(current), NEW j \in Jobs
    PROVE  /\ old[j] \in Job \cup {None} /\ disk[j] \in Job \cup {None}
           /\ Copy(disk[j], old[j], now)
           /\ svc[current].enabled /\ Marked(old[j]) => UnderWay(j)
           /\ svc[current].enabled /\ Marked(disk[j]) => UnderWay(j)
           /\ \A q : /\ MarkerKept(old[j], q) => MarkerKept(disk[j], q)
                     /\ NextKept(old[j], q) => NextKept(disk[j], q)
<1>1. current \in Services /\ now \in Time /\ Records /\ Valid(disk, now)
  BY CurrentService DEF Setting, IInv, Records
<1>2. Valid(old, now)
  BY <1>1, InMemoryIsValid
<1>3. old[j] \in Job \cup {None} /\ disk[j] \in Job \cup {None}
  BY <1>1, <1>2, StoreOf DEF Valid
<1>4. Copy(disk[j], old[j], now)
  <2>1. CASE mem[current] = None
    BY <1>3, <2>1, SelfCopy DEF InMemory
  <2>2. CASE mem[current] # None
    BY <2>2 DEF InMemory, Setting, Copies
  <2> QED BY <2>1, <2>2
<1>5. svc[current].enabled => mem[current] # None /\ old = mem[current]
  BY <1>1, ServiceFields DEF Setting, IInv, InMemory
<1>6. svc[current].enabled /\ (Marked(disk[j]) \/ Marked(old[j])) => UnderWay(j)
  BY <1>5 DEF Setting, Copies
<1>7. \A q : /\ MarkerKept(old[j], q) => MarkerKept(disk[j], q)
             /\ NextKept(old[j], q) => NextKept(disk[j], q)
  BY <1>1, <1>3, <1>4, KeptAcross
<1> QED BY <1>3, <1>4, <1>6, <1>7

\* A step that does not write the file.
LEMMA QuietTraces ==
    ASSUME disk' = disk, faults' = 0 => Copies'
    PROVE  Traced
BY DEF Traced, MarkerKept, NextKept

\* A section that could not save.
LEMMA UnsavedTraces ==
    ASSUME Setting, NEW st, NEW old, Save(st, FALSE) \/ SaveChanged(old, st, FALSE)
    PROVE  Traced
<1>1. disk' = disk /\ faults' = faults + 1 /\ faults \in Nat
  BY LimitsAssumption DEF Save, SaveChanged, Setting, IInv, Counted
<1> QED BY <1>1, QuietTraces

\* A step that leaves the stores as they are.
LEMMA SameStoresTrace ==
    ASSUME Setting, UNCHANGED <<disk, mem>>, now' \in Nat, now <= now',
           \A j \in Jobs : svc[current].enabled /\ (Marked(disk[j]) \/ Marked(mem[current][j]))
                             /\ UnderWay(j) => UnderWay(j)'
    PROVE  Traced
<1>1. current \in Services /\ now \in Nat /\ disk \in Store
  BY CurrentService, TimesAreNaturals DEF Setting, IInv, Records, Valid
<1>2. svc'[current].enabled = svc[current].enabled
  BY <1>1 DEF Setting, Steady
<1>3. Copies'
  <2> SUFFICES ASSUME mem[current] # None, NEW j \in Jobs
               PROVE  /\ Copy(disk[j], mem[current][j], now')
                      /\ svc[current].enabled /\ (Marked(disk[j]) \/ Marked(mem[current][j]))
                           => UnderWay(j)'
    BY <1>2 DEF Copies, Setting
  <2>1. /\ Copy(disk[j], mem[current][j], now)
        /\ svc[current].enabled /\ (Marked(disk[j]) \/ Marked(mem[current][j])) => UnderWay(j)
    BY DEF Setting, Copies
  <2>2. disk[j] \in Job \cup {None}
    BY <1>1, StoreOf
  <2> QED BY <1>1, <2>1, <2>2, CopyLater
<1> QED BY <1>3, QuietTraces

\* A section that leaves the same store in memory and in the file.
LEMMA SectionTraces ==
    ASSUME Setting, now' = now, NEW st, mem'[current] = st, disk' = st, Followed(st)
    PROVE  Traced
<1>1. current \in Services /\ st \in Store
  BY CurrentService DEF Setting, IInv, Records, Valid
<1>2. svc'[current].enabled = svc[current].enabled
  BY <1>1 DEF Setting, Steady
<1>3. \A j \in Jobs : Copy(st[j], st[j], now)
  BY <1>1, StoreOf, SelfCopy
<1>4. Copies'
  BY <1>2, <1>3 DEF Copies, Followed, Setting
<1>5. \A j \in Jobs : MarkerKept(disk[j], disk'[j]) \/ Relieved(j)
  BY DEF Followed
<1>6. svc[current].enabled =>
          \A j \in Jobs : NextKept(disk[j], disk'[j]) \/ Relieved(j) \/ Allowed(j)
  BY DEF Followed
<1> QED BY <1>4, <1>5, <1>6 DEF Traced

\* With one service, whoever acts is it.
LEMMA ActorIsCurrent ==
    ASSUME Setting, NEW s \in Services, svc[s] # Off
    PROVE  s = current
BY DEF Setting, Calm, Alone

LEMMA StillUnderWay ==
    ASSUME NEW o \in Owners, NEW j \in Jobs, work[o][j].at = "none", UnderWay(j),
           \A p \in Owners \ {o} : work'[p] = work[p]
    PROVE  UnderWay(j)'
BY DEF UnderWay

LEMMA Dropping ==
    ASSUME IInv, now' = now, NEW o \in Owners, Dropped(o), NEW j \in Jobs
    PROVE  /\ work[o][j].at = "ended" => Relieved(j)
           /\ work[o][j].at = "none" /\ UnderWay(j) => UnderWay(j)'
<1>1. work'[o] = NoWork /\ \A p \in Owners \ {o} : work'[p] = work[p]
  BY DroppedWork DEF IInv, Records
<1>2. work'[o][j].at = "none"
  BY <1>1, ConstantRecords
<1>3. \A p \in Owners : work'[p][j].at # "none" => work[p][j].at # "none"
  BY <1>1, <1>2
<1>4. work[o][j].at = "ended" => Relieved(j)
  BY <1>2, <1>3 DEF Relieved
<1>5. work[o][j].at = "none" /\ UnderWay(j) => UnderWay(j)'
  BY <1>1, StillUnderWay
<1> QED BY <1>4, <1>5

-----------------------------------------------------------------------------
(* What every section does to the markers and the next runs of the file *)

\* Marks that are set keep what they do not set.
LEMMA MarkingIsKept ==
    ASSUME now \in Time, NEW st, Valid(st, now), NEW js \in SUBSET Jobs, \A j \in js : st[j] # None,
           NEW new, new = Marking(st, js), NEW j \in Jobs
    PROVE  /\ MarkerKept(st[j], new[j]) /\ NextKept(st[j], new[j])
           /\ Marked(new[j]) => j \in js \/ Marked(st[j])
<1>1. /\ new[j] = None <=> st[j] = None
      /\ j \notin js => new[j] = st[j]
      /\ j \in js => /\ new[j].running = now /\ new[j].next = st[j].next
                     /\ new[j].enabled = st[j].enabled
  BY MarkingIsValid
<1>2. now # None
  BY TimesAreNaturals, NoneAssumption
<1>3. CASE j \in js
  BY <1>1, <1>2, <1>3 DEF MarkerKept, NextKept, Marked
<1>4. CASE j \notin js
  BY <1>1, <1>4 DEF MarkerKept, NextKept
<1> QED BY <1>3, <1>4

LEMMA PlanTraces ==
    ASSUME Setting, NEW s \in Services, NEW saved \in BOOLEAN, PlanCatchup(s, saved)
    PROVE  Traced
<1>1. /\ svc[s].startup = "plan" /\ UNCHANGED <<now, current>> /\ now \in Time /\ now \in Nat
      /\ IInv /\ Records /\ Executions
  BY TimesAreNaturals DEF PlanCatchup, Setting, IInv, Records
<1>2. s = current /\ mem[s] # None /\ Valid(mem[s], now) /\ Catchup(s) \in Owners
        /\ work[Catchup(s)] = NoWork
  <2>1. svc[s] # Off /\ mem[s] # None
    BY <1>1, ServiceFields DEF IInv
  <2>2. work[Catchup(s)] = NoWork
    BY <1>1 DEF IInv, Phases, Phase
  <2> QED BY <1>1, <2>1, <2>2, ActorIsCurrent, OwnersAreApart DEF Records
<1>3. PICK missed \in SUBSET Jobs : missed = {j \in Jobs \ svc[s].aside : Missed(j, mem[s][j])}
  OBVIOUS
<1>4. CASE missed = {}
  <2>1. UNCHANGED <<disk, mem, work>>
    BY <1>3, <1>4 DEF PlanCatchup
  <2>2. \A j \in Jobs : UnderWay(j) => UnderWay(j)'
    BY <2>1 DEF UnderWay
  <2> QED BY <1>1, <2>1, <2>2, SameStoresTrace
<1>5. CASE missed # {}
  <2>1. PICK js \in SUBSET missed :
            /\ Keep(s, Marking(mem[s], js))
            /\ Save(Marking(mem[s], js), saved)
            /\ IF saved THEN Queued(Catchup(s), js) ELSE UNCHANGED work
    BY <1>3, <1>5 DEF PlanCatchup
  <2>2. CASE ~ saved
    BY <2>1, <2>2, UnsavedTraces
  <2>3. CASE saved
    <3>1. PICK st : st = Marking(mem[s], js)
      OBVIOUS
    <3>2. js \in SUBSET Jobs /\ \A j \in js : mem[s][j] # None
      BY <1>3 DEF Missed
    <3>3. disk' = st /\ mem'[current] = st
      BY <1>1, <1>2, <2>1, <2>3, <3>1, KeepKeeps DEF Save
    <3>4. /\ \A j \in Jobs : work'[Catchup(s)][j] = IF j \in js THEN Waiting ELSE NoExecution
          /\ \A p \in Owners \ {Catchup(s)} : work'[p] = work[p]
      BY <1>1, <1>2, <2>1, <2>3, <3>2, QueuedWork
    <3>5. ASSUME NEW j \in Jobs
          PROVE  /\ svc[current].enabled /\ Marked(st[j]) => UnderWay(j)'
                 /\ MarkerKept(disk[j], st[j])
                 /\ NextKept(disk[j], st[j])
      <4>1. /\ MarkerKept(mem[s][j], st[j]) /\ NextKept(mem[s][j], st[j])
            /\ Marked(st[j]) => j \in js \/ Marked(mem[s][j])
        BY <1>1, <1>2, <3>1, <3>2, MarkingIsKept
      <4>2. PICK old : old = InMemory(current)
        OBVIOUS
      <4>3. old = mem[s]
        BY <1>2, <4>2 DEF InMemory
      <4>4. /\ MarkerKept(old[j], st[j]) => MarkerKept(disk[j], st[j])
            /\ NextKept(old[j], st[j]) => NextKept(disk[j], st[j])
            /\ svc[current].enabled /\ Marked(old[j]) => UnderWay(j)
        BY <4>2, InMemoryIsCopy
      <4>5. j \in js => UnderWay(j)'
        BY <1>2, <3>4, ConstantRecords DEF UnderWay
      <4>6. UnderWay(j) => UnderWay(j)'
        BY <1>2, <3>4, StillUnderWay, ConstantRecords
      <4> QED BY <4>1, <4>3, <4>4, <4>5, <4>6
    <3>6. Followed(st)
      BY <3>5 DEF Followed
    <3> QED BY <1>1, <3>3, <3>6, SectionTraces
  <2> QED BY <2>2, <2>3
<1> QED BY <1>4, <1>5

LEMMA ApplyCatchupTraces ==
    ASSUME Setting, NEW s \in Services, NEW saved \in BOOLEAN, ApplyCatchup(s, saved)
    PROVE  Traced
<1>1. /\ svc[s].startup = "run" /\ UNCHANGED <<now, current>> /\ now \in Time
      /\ ~ Busy(Catchup(s)) /\ Dropped(Catchup(s))
      /\ IInv /\ Records /\ Executions /\ Catchup(s) \in Owners
  BY OwnersAreApart DEF ApplyCatchup, Setting, IInv, Records
<1>2. s = current /\ mem[s] # None /\ Valid(mem[s], now)
  <2>1. svc[s] # Off /\ mem[s] # None
    BY <1>1, ServiceFields DEF IInv
  <2> QED BY <1>1, <2>1, ActorIsCurrent DEF Records
<1>3. PICK put \in Store :
         /\ Valid(put, now) /\ Keep(s, Maintained(put, FALSE)) /\ Save(Maintained(put, FALSE), saved)
         /\ \A j \in Jobs : SameMarker(With(mem[s], Catchup(s))[j], put[j])
  BY <1>1, CatchupStore
<1>4. PICK st : st = Maintained(put, FALSE)
  OBVIOUS
<1>5. CASE ~ saved
  BY <1>3, <1>5, UnsavedTraces
<1>6. CASE saved
  <2>1. disk' = st /\ mem'[current] = st
    BY <1>1, <1>2, <1>3, <1>4, <1>6, KeepKeeps DEF Save
  <2>2. svc' # svc
    <3>1. PICK v : v = [svc[s] EXCEPT !.startup = "arm", !.aside = {}]
      OBVIOUS
    <3>2. svc' = [svc EXCEPT ![s] = v]
      BY <1>6, <3>1 DEF ApplyCatchup
    <3>3. svc[s] \in Service /\ svc \in [Services -> Service]
      BY <1>1 DEF IInv, Phases
    <3>4. v.startup = "arm"
      BY <3>1, <3>3 DEF Service
    <3>5. svc'[s] = v
      BY <3>2, <3>3
    <3> QED BY <1>1, <3>4, <3>5
  <2>3. ASSUME NEW j \in Jobs
        PROVE  /\ svc[current].enabled /\ Marked(st[j]) => UnderWay(j)'
               /\ MarkerKept(disk[j], st[j]) \/ Relieved(j)
    <3>1. PICK ran : ran = With(mem[s], Catchup(s))
      OBVIOUS
    <3>2. \A i \in Jobs : work[Catchup(s)][i] \in Execution /\ Prompt(work[Catchup(s)][i], now)
      BY <1>1 DEF Executions
    <3>3. /\ work[Catchup(s)][j].at # "ended" => ran[j] = mem[s][j]
          /\ work[Catchup(s)][j].at = "ended" => ~ Marked(ran[j])
      BY <1>1, <1>2, <3>1, <3>2, WithIsValid
    <3>4. SameMarker(ran[j], put[j])
      BY <1>3, <3>1
    <3>5. Carried(put[j], st[j])
      BY <1>1, <1>3, <1>4, MaintenanceCarries
    <3>6. MarkerKept(put[j], st[j]) /\ (Marked(st[j]) => Marked(put[j]))
      BY <3>5, CarriedIsKept
    <3>7. MarkerKept(ran[j], st[j]) /\ (Marked(st[j]) => Marked(ran[j]))
      BY <3>4, <3>5, <3>6 DEF SameMarker, Carried, MarkerKept, Marked
    <3>8. CASE work[Catchup(s)][j].at = "ended"
      BY <1>1, <3>3, <3>7, <3>8, Dropping
    <3>9. CASE work[Catchup(s)][j].at # "ended"
      <4>1. work[Catchup(s)][j].at = "none"
        BY <1>1, <3>2, <3>9, ExecutionFields DEF Busy
      <4>2. PICK old : old = InMemory(current)
        OBVIOUS
      <4>3. old = mem[s]
        BY <1>2, <4>2 DEF InMemory
      <4>4. /\ MarkerKept(old[j], st[j]) => MarkerKept(disk[j], st[j])
            /\ svc[current].enabled /\ Marked(old[j]) => UnderWay(j)
        BY <4>2, InMemoryIsCopy
      <4>5. UnderWay(j) => UnderWay(j)'
        BY <1>1, <4>1, Dropping
      <4> QED BY <3>3, <3>7, <3>9, <4>3, <4>4, <4>5
    <3> QED BY <3>8, <3>9
  <2>4. \A j \in Jobs : Allowed(j)
    BY <1>1, <1>2, <2>2 DEF Allowed
  <2>5. Followed(st)
    BY <2>3, <2>4 DEF Followed
  <2> QED BY <1>1, <2>1, <2>5, SectionTraces
<1> QED BY <1>5, <1>6

\* recomputeNextRuns may give any job another next run, but no marker.
LEMMA RecomputedIsKept ==
    ASSUME now \in Time, NEW old, Valid(old, now), NEW st, st = Recomputed(old), NEW j \in Jobs
    PROVE  MarkerKept(old[j], st[j]) /\ (Marked(st[j]) => Marked(old[j]))
<1>1. /\ old[j] = None => st[j] = None
      /\ old[j] # None => Tended(old[j], st[j], now)
  BY RecomputedRecord
<1> QED BY <1>1 DEF Tended, MarkerKept, Marked

LEMMA ArmTraces ==
    ASSUME Setting, NEW s \in Services, NEW saved \in BOOLEAN, ArmScheduler(s, saved)
    PROVE  Traced
<1>1. PICK st : st = Recomputed(mem[s])
  OBVIOUS
<1>2. /\ svc[s].startup = "arm" /\ UNCHANGED <<now, current, work>> /\ now \in Time /\ now \in Nat
      /\ Keep(s, st) /\ SaveChanged(mem[s], st, saved)
      /\ IInv /\ Records
  BY <1>1, TimesAreNaturals DEF ArmScheduler, Setting, IInv, Records
<1>3. s = current /\ mem[s] # None /\ Valid(mem[s], now)
  <2>1. svc[s] # Off /\ mem[s] # None
    BY <1>2, ServiceFields DEF IInv
  <2> QED BY <1>2, <2>1, ActorIsCurrent DEF Records
<1>4. \A j \in Jobs : UnderWay(j) => UnderWay(j)'
  BY <1>2 DEF UnderWay
<1>5. CASE ~ saved
  BY <1>2, <1>5, UnsavedTraces
<1>6. CASE saved /\ st = mem[s]
  <2>1. disk' = disk /\ mem' = mem
    BY <1>2, <1>3, <1>6 DEF SaveChanged, Keep, IInv, Records
  <2> QED BY <1>2, <1>4, <2>1, SameStoresTrace
<1>7. CASE saved /\ st # mem[s]
  <2>1. disk' = st /\ mem'[current] = st
    BY <1>2, <1>3, <1>7, KeepKeeps DEF SaveChanged, Save
  <2>2. svc' # svc
    <3>1. PICK timer : timer = Armed(s, st)
      OBVIOUS
    <3>2. PICK v : v = [svc[s] EXCEPT !.startup = "done", !.timer = timer]
      OBVIOUS
    <3>3. svc' = [svc EXCEPT ![s] = v]
      BY <1>1, <1>7, <3>1, <3>2 DEF ArmScheduler
    <3>4. svc[s] \in Service /\ svc \in [Services -> Service]
      BY <1>2 DEF IInv, Phases
    <3>5. v.startup = "done"
      BY <3>2, <3>4 DEF Service
    <3>6. svc'[s] = v
      BY <3>3, <3>4
    <3> QED BY <1>2, <3>5, <3>6
  <2>3. ASSUME NEW j \in Jobs
        PROVE  /\ svc[current].enabled /\ Marked(st[j]) => UnderWay(j)'
               /\ MarkerKept(disk[j], st[j]) /\ Allowed(j)
    <3>1. MarkerKept(mem[s][j], st[j]) /\ (Marked(st[j]) => Marked(mem[s][j]))
      BY <1>1, <1>2, <1>3, RecomputedIsKept
    <3>2. PICK old : old = InMemory(current)
      OBVIOUS
    <3>3. old = mem[s]
      BY <1>3, <3>2 DEF InMemory
    <3>4. /\ MarkerKept(old[j], st[j]) => MarkerKept(disk[j], st[j])
          /\ svc[current].enabled /\ Marked(old[j]) => UnderWay(j)
      BY <3>2, InMemoryIsCopy
    <3> QED BY <1>2, <1>3, <1>4, <2>2, <3>1, <3>3, <3>4 DEF Allowed
  <2>4. Followed(st)
    BY <2>3 DEF Followed
  <2> QED BY <1>2, <2>1, <2>4, SectionTraces
<1> QED BY <1>5, <1>6, <1>7

\* A section that leaves nothing but maintenance.
LEMMA MaintenanceTraces ==
    ASSUME Setting, now' = now, NEW old \in {disk, InMemory(current)}, NEW x \in BOOLEAN,
           NEW st, st = Maintained(old, x), mem'[current] = st, disk' = st,
           \A j \in Jobs : UnderWay(j) => UnderWay(j)'
    PROVE  Traced
<1>1. now \in Time /\ Records /\ Valid(disk, now) /\ current \in Services
  BY CurrentService DEF Setting, IInv, Records
<1>2. Valid(old, now)
  BY <1>1, InMemoryIsValid
<1>3. ASSUME NEW j \in Jobs
      PROVE  /\ svc[current].enabled /\ Marked(st[j]) => UnderWay(j)'
             /\ MarkerKept(disk[j], st[j])
             /\ NextKept(disk[j], st[j])
  <2>1. Carried(old[j], st[j])
    BY <1>1, <1>2, MaintenanceCarries
  <2>2. MarkerKept(old[j], st[j]) /\ NextKept(old[j], st[j]) /\ (Marked(st[j]) => Marked(old[j]))
    BY <2>1, CarriedIsKept
  <2>3. PICK own : own = InMemory(current)
    OBVIOUS
  <2>4. /\ MarkerKept(own[j], st[j]) => MarkerKept(disk[j], st[j])
        /\ NextKept(own[j], st[j]) => NextKept(disk[j], st[j])
        /\ svc[current].enabled /\ Marked(own[j]) => UnderWay(j)
        /\ svc[current].enabled /\ Marked(disk[j]) => UnderWay(j)
    BY <2>3, InMemoryIsCopy
  <2>5. old = disk \/ old = own
    BY <2>3
  <2> QED BY <2>2, <2>4, <2>5
<1>4. Followed(st)
  BY <1>3 DEF Followed
<1> QED BY <1>4, SectionTraces

LEMMA TimerTraces ==
    ASSUME Setting, NEW s \in Services, NEW saved \in BOOLEAN, TimerFires(s, saved)
    PROVE  Traced
<1>1. /\ svc[s].timer /\ ~ svc[s].running /\ UNCHANGED <<now, current>>
      /\ now \in Time /\ IInv /\ Records /\ Executions /\ Valid(disk, now)
  BY DEF TimerFires, Setting, IInv, Records
<1>2. s = current /\ Tick(s) \in Owners /\ work[Tick(s)] = NoWork
  <2>1. svc[s] # Off
    BY <1>1, ServiceFields DEF IInv
  <2>2. work[Tick(s)] = NoWork
    BY <1>1 DEF IInv, Phases, Phase
  <2> QED BY <2>1, <2>2, ActorIsCurrent, OwnersAreApart
<1>3. PICK due \in SUBSET Jobs : due = {j \in Jobs : Runnable(disk[j])}
  OBVIOUS
<1>4. CASE due = {}
  <2>1. PICK st : st = Maintained(disk, TRUE)
    OBVIOUS
  <2>2. Keep(s, st) /\ SaveChanged(disk, st, saved) /\ UNCHANGED work
    BY <1>3, <1>4, <2>1 DEF TimerFires
  <2>3. CASE ~ saved
    BY <2>2, <2>3, UnsavedTraces
  <2>4. CASE saved
    <3>1. disk' = st
      BY <2>2, <2>4 DEF SaveChanged, Save
    <3>2. mem'[current] = st
      BY <1>1, <1>2, <2>2, KeepKeeps
    <3>3. \A j \in Jobs : UnderWay(j) => UnderWay(j)'
      BY <2>2 DEF UnderWay
    <3> QED BY <1>1, <2>1, <3>1, <3>2, <3>3, MaintenanceTraces
  <2> QED BY <2>3, <2>4
<1>5. CASE due # {}
  <2>1. PICK st : st = Marking(disk, due)
    OBVIOUS
  <2>2. Keep(s, st) /\ Save(st, saved) /\ (saved => Queued(Tick(s), due))
    BY <1>3, <1>5, <2>1 DEF TimerFires
  <2>3. CASE ~ saved
    BY <2>2, <2>3, UnsavedTraces
  <2>4. CASE saved
    <3>1. disk' = st /\ mem'[current] = st
      BY <1>1, <1>2, <2>2, <2>4, KeepKeeps DEF Save
    <3>2. /\ \A j \in Jobs : work'[Tick(s)][j] = IF j \in due THEN Waiting ELSE NoExecution
          /\ \A p \in Owners \ {Tick(s)} : work'[p] = work[p]
      BY <1>1, <1>2, <2>2, <2>4, QueuedWork
    <3>3. \A j \in due : disk[j] # None
      BY <1>3 DEF Runnable
    <3>4. ASSUME NEW j \in Jobs
          PROVE  /\ svc[current].enabled /\ Marked(st[j]) => UnderWay(j)'
                 /\ MarkerKept(disk[j], st[j])
                 /\ NextKept(disk[j], st[j])
      <4>1. /\ MarkerKept(disk[j], st[j]) /\ NextKept(disk[j], st[j])
            /\ Marked(st[j]) => j \in due \/ Marked(disk[j])
        BY <1>1, <2>1, <3>3, MarkingIsKept
      <4>2. PICK own : own = InMemory(current)
        OBVIOUS
      <4>3. svc[current].enabled /\ Marked(disk[j]) => UnderWay(j)
        BY <4>2, InMemoryIsCopy
      <4>4. j \in due => UnderWay(j)'
        BY <1>2, <3>2, ConstantRecords DEF UnderWay
      <4>5. UnderWay(j) => UnderWay(j)'
        BY <1>2, <3>2, StillUnderWay, ConstantRecords
      <4> QED BY <4>1, <4>3, <4>4, <4>5
    <3>5. Followed(st)
      BY <3>4 DEF Followed
    <3> QED BY <1>1, <3>1, <3>5, SectionTraces
  <2> QED BY <2>3, <2>4
<1> QED BY <1>4, <1>5

LEMMA ApplyTickTraces ==
    ASSUME Setting, NEW s \in Services, NEW saved \in BOOLEAN, ApplyTick(s, saved)
    PROVE  Traced
<1>1. PICK ran : ran = With(disk, Tick(s))
  OBVIOUS
<1>2. PICK st : st = Maintained(ran, FALSE)
  OBVIOUS
<1>3. /\ svc[s].running /\ UNCHANGED <<now, current>> /\ now \in Time
      /\ ~ Busy(Tick(s)) /\ Dropped(Tick(s)) /\ Keep(s, st) /\ Save(st, saved)
      /\ IInv /\ Records /\ Executions /\ Tick(s) \in Owners /\ Valid(disk, now)
  BY <1>1, <1>2, OwnersAreApart DEF ApplyTick, Setting, IInv, Records
<1>4. s = current
  <2>1. svc[s] # Off
    BY <1>3, ServiceFields DEF IInv
  <2> QED BY <2>1, ActorIsCurrent
<1>5. \A i \in Jobs : work[Tick(s)][i] \in Execution /\ Prompt(work[Tick(s)][i], now)
  BY <1>3 DEF Executions
<1>6. Valid(ran, now)
  BY <1>1, <1>3, <1>5, WithIsValid
<1>7. CASE ~ saved
  BY <1>3, <1>7, UnsavedTraces
<1>8. CASE saved
  <2>1. disk' = st /\ mem'[current] = st
    BY <1>3, <1>4, <1>8, KeepKeeps DEF Save
  <2>2. ASSUME NEW j \in Jobs
        PROVE  /\ svc[current].enabled /\ Marked(st[j]) => UnderWay(j)'
               /\ MarkerKept(disk[j], st[j]) \/ Relieved(j)
               /\ NextKept(disk[j], st[j]) \/ Relieved(j)
    <3>1. /\ work[Tick(s)][j].at # "ended" => ran[j] = disk[j]
          /\ work[Tick(s)][j].at = "ended" => ~ Marked(ran[j])
      BY <1>1, <1>3, <1>5, WithIsValid
    <3>2. Carried(ran[j], st[j])
      BY <1>2, <1>3, <1>6, MaintenanceCarries
    <3>3. MarkerKept(ran[j], st[j]) /\ NextKept(ran[j], st[j]) /\ (Marked(st[j]) => Marked(ran[j]))
      BY <3>2, CarriedIsKept
    <3>4. CASE work[Tick(s)][j].at = "ended"
      BY <1>3, <3>1, <3>3, <3>4, Dropping
    <3>5. CASE work[Tick(s)][j].at # "ended"
      <4>1. work[Tick(s)][j].at = "none"
        BY <1>3, <1>5, <3>5, ExecutionFields DEF Busy
      <4>2. PICK own : own = InMemory(current)
        OBVIOUS
      <4>3. svc[current].enabled /\ Marked(disk[j]) => UnderWay(j)
        BY <4>2, InMemoryIsCopy
      <4>4. UnderWay(j) => UnderWay(j)'
        BY <1>3, <4>1, Dropping
      <4> QED BY <3>1, <3>3, <3>5, <4>3, <4>4
    <3> QED BY <3>4, <3>5
  <2>3. Followed(st)
    BY <2>2 DEF Followed
  <2> QED BY <1>3, <2>1, <2>3, SectionTraces
<1> QED BY <1>7, <1>8

LEMMA ClockTraces ==
    ASSUME Setting, ClockTicks
    PROVE  Traced
<1>1. UNCHANGED <<disk, mem, work>> /\ now' = now + 1 /\ now \in Nat
  BY TimesAreNaturals DEF ClockTicks, Setting, IInv, Records
<1>2. now' \in Nat /\ now <= now'
  BY <1>1
<1>3. \A j \in Jobs : UnderWay(j) => UnderWay(j)'
  BY <1>1 DEF UnderWay
<1> QED BY <1>1, <1>2, <1>3, SameStoresTrace

\* An execution that begins or ends stays one.
LEMMA ExecutionStays ==
    ASSUME Setting, now' = now, NEW o \in Owners, NEW j \in Jobs,
           \/ work[o][j].at = "waiting" /\ Started(o, j)
           \/ \E status \in Outcomes[j] : Ends(o, j, status)
    PROVE  UnderWay(j) /\ \A i \in Jobs : UnderWay(i) => UnderWay(i)'
<1>1. /\ work'[o][j].at \in {"running", "ended"} /\ work[o][j].at \in {"waiting", "running"}
      /\ \A i \in Jobs \ {j} : work'[o][i] = work[o][i]
      /\ \A p \in Owners \ {o} : work'[p] = work[p]
  BY ExecutionGoesOn DEF Setting, IInv, Records
<1>2. UnderWay(j)
  BY <1>1 DEF UnderWay
<1>3. UnderWay(j)'
  BY <1>1 DEF UnderWay
<1>4. ASSUME NEW i \in Jobs \ {j}, UnderWay(i) PROVE UnderWay(i)'
  <2>1. \A p \in Owners : work'[p][i] = work[p][i]
    BY <1>1
  <2> QED BY <1>4, <2>1 DEF UnderWay
<1> QED BY <1>2, <1>3, <1>4

LEMMA ExecutionTraces ==
    ASSUME Setting, UNCHANGED <<now, disk, mem>>, NEW o \in Owners, NEW j \in Jobs,
           \/ work[o][j].at = "waiting" /\ Started(o, j)
           \/ \E status \in Outcomes[j] : Ends(o, j, status)
    PROVE  Traced
<1>1. \A i \in Jobs : UnderWay(i) => UnderWay(i)'
  BY ExecutionStays
<1>2. now' \in Nat /\ now <= now'
  BY TimesAreNaturals DEF Setting, IInv, Records
<1> QED BY <1>1, <1>2, SameStoresTrace

\* runDueJob marks the copy in memory, which is then newer than the file.
LEMMA StartDueTraces ==
    ASSUME Setting, NEW s \in Services, NEW j \in Jobs, StartDue(s, j)
    PROVE  Traced
<1>1. /\ work[Tick(s)][j].at = "waiting" /\ Started(Tick(s), j) /\ Tick(s) \in Owners
      /\ UNCHANGED <<now, disk, svc, current, faults>>
      /\ now \in Time /\ IInv /\ Records /\ Executions
  BY OwnersAreApart DEF StartDue, Setting, IInv, Records
<1>2. s = current /\ mem[s] # None
  <2>1. work[Tick(s)] # NoWork
    BY <1>1, ConstantRecords
  <2>2. svc[s] # Off /\ mem[s] # None
    BY <1>1, <2>1, ServiceFields DEF IInv, Phase
  <2> QED BY <2>2, ActorIsCurrent
<1>3. CASE ~ (svc[s].bound /\ mem[s][j] # None)
  <2>1. mem' = mem
    BY <1>3 DEF StartDue
  <2> QED BY <1>1, <2>1, ExecutionTraces
<1>4. CASE svc[s].bound /\ mem[s][j] # None
  <2>1. PICK st : st = [mem[s] EXCEPT ![j].running = now]
    OBVIOUS
  <2>2. mem' = [mem EXCEPT ![s] = st]
    BY <1>4, <2>1 DEF StartDue
  <2>3. mem'[s] = st
    BY <1>1, <2>2, KeepKeeps DEF Keep
  <2>4. Valid(mem[s], now) /\ now <= now /\ Valid(disk, now)
    BY <1>1, <1>2, TimesAreNaturals DEF Records
  <2>5. /\ st[j] # None /\ st[j].running = now
        /\ st[j].enabled = mem[s][j].enabled /\ st[j].next = mem[s][j].next
        /\ \A i \in Jobs \ {j} : st[i] = mem[s][i]
    <3>1. PICK old : old = mem[s]
      OBVIOUS
    <3>2. /\ now \in Time /\ now <= now /\ Valid(old, now) /\ old[j] # None
          /\ SetsMarker(old, j, now, st)
      BY <1>1, <1>4, <2>1, <2>4, <3>1 DEF SetsMarker
    <3>3. MarkedSince(old[j], st[j], now) /\ \A i \in Jobs \ {j} : st[i] = old[i]
      BY <3>2, MarkedAt
    <3> QED BY <3>1, <3>3 DEF MarkedSince
  <2>6. UnderWay(j) /\ \A i \in Jobs : UnderWay(i) => UnderWay(i)'
    BY <1>1, ExecutionStays
  <2>7. ASSUME NEW i \in Jobs
        PROVE  /\ Copy(disk[i], st[i], now)
               /\ svc[current].enabled /\ (Marked(disk[i]) \/ Marked(st[i])) => UnderWay(i)
    <3>1. /\ Copy(disk[i], mem[s][i], now)
          /\ svc[current].enabled /\ (Marked(disk[i]) \/ Marked(mem[s][i])) => UnderWay(i)
      BY <1>2 DEF Setting, Copies
    <3>2. CASE i # j
      BY <2>5, <3>1, <3>2
    <3>3. CASE i = j
      <4>1. disk[j] # None
        BY <1>4, <3>1, <3>3 DEF Copy
      <4>2. disk[j].running # None => disk[j].running <= now
        BY <2>4, <4>1 DEF Valid, Sound
      <4>3. now # None
        BY <1>1, TimesAreNaturals, NoneAssumption
      <4>4. Copy(disk[j], st[j], now)
        BY <1>4, <2>5, <3>1, <3>3, <4>1, <4>2, <4>3 DEF Copy
      <4> QED BY <2>6, <3>3, <4>4
    <3> QED BY <3>2, <3>3
  <2>8. Copies'
    BY <1>1, <1>2, <2>3, <2>6, <2>7 DEF Copies
  <2> QED BY <1>1, <2>8, QuietTraces
<1> QED BY <1>3, <1>4

\* Maintenance in memory alone.
LEMMA CopyCarried ==
    ASSUME now \in Time, NEW d \in Job \cup {None}, NEW m \in Job \cup {None}, Copy(d, m, now),
           NEW q, Carried(m, q)
    PROVE  Copy(d, q, now)
<1>1. CASE m = None
  BY <1>1 DEF Copy, Carried
<1>2. CASE m # None
  <2>1. d # None /\ q # None /\ q.enabled = m.enabled /\ m.enabled = d.enabled
          /\ (m.enabled => q.next = m.next)
          /\ (\/ q.running = m.running
              \/ q.running = None /\ m.running # None
                   /\ (~ m.enabled \/ m.running + StuckRun < now))
    BY <1>2 DEF Copy, Carried, Tended
  <2>2. now \in Nat /\ (d.running # None => d.running \in Nat) /\ StuckRun \in Nat
          /\ (m.running # None => m.running \in Nat)
    BY <1>2, <2>1, JobFields, TimesAreNaturals
  <2>3. CASE q.running = m.running
    BY <1>2, <2>1, <2>3 DEF Copy
  <2>4. CASE q.running # m.running /\ d.enabled /\ d.running # None
    <3>1. q.running = None /\ m.running # None /\ m.running + StuckRun < now
      BY <2>1, <2>4
    <3>2. d.running <= m.running
      BY <2>1, <2>4, <3>1 DEF Copy
    <3>3. d.running + StuckRun < now
      BY <2>2, <2>4, <3>1, <3>2
    <3> QED BY <1>2, <2>1, <3>1, <3>3 DEF Copy
  <2>5. CASE ~ (d.enabled /\ d.running # None)
    BY <1>2, <2>1, <2>5 DEF Copy
  <2> QED BY <2>3, <2>4, <2>5
<1> QED BY <1>1, <1>2

LEMMA LookingTraces ==
    ASSUME Setting, UNCHANGED <<now, disk, svc, work>>,
           Keep(current, Maintained(InMemory(current), FALSE))
    PROVE  Traced
<1>1. current \in Services /\ now \in Time /\ Records /\ IInv
  BY CurrentService DEF Setting, IInv, Records
<1>2. PICK old : old = InMemory(current)
  OBVIOUS
<1>3. PICK st : st = Maintained(old, FALSE)
  OBVIOUS
<1>4. mem'[current] = st
  BY <1>1, <1>2, <1>3, KeepKeeps
<1>5. Valid(old, now)
  BY <1>1, <1>2, InMemoryIsValid
<1>6. ASSUME NEW j \in Jobs
      PROVE  /\ Copy(disk[j], st[j], now)
             /\ svc[current].enabled /\ (Marked(disk[j]) \/ Marked(st[j])) => UnderWay(j)
  <2>1. Carried(old[j], st[j])
    BY <1>1, <1>3, <1>5, MaintenanceCarries
  <2>2. /\ old[j] \in Job \cup {None} /\ disk[j] \in Job \cup {None}
        /\ Copy(disk[j], old[j], now)
        /\ svc[current].enabled /\ Marked(old[j]) => UnderWay(j)
        /\ svc[current].enabled /\ Marked(disk[j]) => UnderWay(j)
    BY <1>2, InMemoryIsCopy
  <2> QED BY <1>1, <2>1, <2>2, CopyCarried, CarriedIsKept
<1>7. \A j \in Jobs : UnderWay(j)' <=> UnderWay(j)
  BY DEF UnderWay
<1>8. Copies'
  BY <1>4, <1>6, <1>7 DEF Copies, Setting
<1> QED BY <1>8, QuietTraces

LEMMA ReserveTraces ==
    ASSUME Setting, NEW c \in Calls, NEW saved \in BOOLEAN, Reserve(c, saved)
    PROVE  Traced
<1>1. /\ call[c] \in Call /\ Request(c) /\ call[c].at = "reserving"
      /\ UNCHANGED <<now, svc, current>> /\ Manual(c) \in Owners
      /\ now \in Time /\ now \in Nat /\ IInv /\ Records
  BY OwnersAreApart, TimesAreNaturals DEF Reserve, Setting, IInv, Requests, Records
<1>2. PICK s \in Services : s = call[c].svc /\ mem[s] # None /\ svc[s] # Off
  BY <1>1 DEF Request
<1>3. PICK j \in Jobs : j = call[c].job
  BY <1>1 DEF Request
<1>4. PICK t \in Time : t = call[c].now /\ t <= now
  BY <1>1 DEF Request, Call
<1>5. s = current
  BY <1>2, ActorIsCurrent
<1>6. CASE ~ MayReserve(mem[s][j])
  <2>1. UNCHANGED <<mem, disk, work>>
    BY <1>2, <1>3, <1>6 DEF Reserve
  <2>2. \A i \in Jobs : UnderWay(i) => UnderWay(i)'
    BY <2>1 DEF UnderWay
  <2> QED BY <1>1, <2>1, <2>2, SameStoresTrace
<1>7. CASE MayReserve(mem[s][j])
  <2>1. PICK st : st = [mem[s] EXCEPT ![j].running = t]
    OBVIOUS
  <2>2. /\ Keep(s, st) /\ Save(st, saved)
        /\ saved => work' = [work EXCEPT ![Manual(c)][j] =
                                [Waiting EXCEPT !.at = "running", !.started = t]]
    BY <1>2, <1>3, <1>4, <1>7, <2>1 DEF Reserve
  <2>3. CASE ~ saved
    BY <2>2, <2>3, UnsavedTraces
  <2>4. CASE saved
    <3>1. disk' = st /\ mem'[current] = st
      BY <1>1, <1>5, <2>2, <2>4, KeepKeeps DEF Save
    <3>2. Valid(mem[s], now) /\ mem[s][j] # None
      BY <1>1, <1>2, <1>7 DEF Records, MayReserve
    <3>3. /\ st[j] # None /\ st[j].running = t
          /\ st[j].enabled = mem[s][j].enabled /\ st[j].next = mem[s][j].next
          /\ \A i \in Jobs \ {j} : st[i] = mem[s][i]
      <4>1. PICK old : old = mem[s]
        OBVIOUS
      <4>2. now \in Time /\ Valid(old, now) /\ old[j] # None /\ SetsMarker(old, j, t, st)
        BY <1>1, <2>1, <3>2, <4>1 DEF SetsMarker
      <4>3. MarkedSince(old[j], st[j], t) /\ \A i \in Jobs \ {j} : st[i] = old[i]
        BY <1>4, <4>2, MarkedAt
      <4> QED BY <4>1, <4>3 DEF MarkedSince
    <3>4. PICK e : e = [Waiting EXCEPT !.at = "running", !.started = t]
      OBVIOUS
    <3>5. e.at = "running"
      <4>1. \A w \in Execution : [w EXCEPT !.at = "running", !.started = t].at = "running"
        BY DEF Execution
      <4> QED BY <3>4, <4>1, ConstantRecords
    <3>6. work' = [work EXCEPT ![Manual(c)][j] = e] /\ work \in [Owners -> [Jobs -> Execution]]
      BY <1>1, <2>2, <2>4, <3>4 DEF IInv, Executions
    <3>7. /\ work'[Manual(c)][j] = e
          /\ \A i \in Jobs \ {j}, o \in Owners : work'[o][i] = work[o][i]
      BY <1>1, <3>6
    <3>8. ASSUME NEW i \in Jobs
          PROVE  /\ svc[current].enabled /\ Marked(st[i]) => UnderWay(i)'
                 /\ MarkerKept(disk[i], st[i])
                 /\ NextKept(disk[i], st[i])
      <4>1. PICK old : old = InMemory(current)
        OBVIOUS
      <4>2. old = mem[s]
        BY <1>2, <1>5, <4>1 DEF InMemory
      <4>3. /\ MarkerKept(old[i], st[i]) => MarkerKept(disk[i], st[i])
            /\ NextKept(old[i], st[i]) => NextKept(disk[i], st[i])
            /\ svc[current].enabled /\ Marked(old[i]) => UnderWay(i)
        BY <4>1, InMemoryIsCopy
      <4>4. CASE i = j
        <5>1. UnderWay(j)'
          BY <1>1, <3>5, <3>7 DEF UnderWay
        <5>2. t # None
          BY <1>4, TimesAreNaturals, NoneAssumption
        <5>3. MarkerKept(mem[s][j], st[j]) /\ NextKept(mem[s][j], st[j])
          BY <3>2, <3>3, <5>2 DEF MarkerKept, NextKept, Marked
        <5> QED BY <4>2, <4>3, <4>4, <5>1, <5>3
      <4>5. CASE i # j
        <5>1. MarkerKept(mem[s][i], st[i]) /\ NextKept(mem[s][i], st[i])
          BY <3>3, <4>5 DEF MarkerKept, NextKept
        <5>2. UnderWay(i) => UnderWay(i)'
          BY <3>7, <4>5 DEF UnderWay
        <5> QED BY <3>3, <4>2, <4>3, <4>5, <5>1, <5>2
      <4> QED BY <4>4, <4>5
    <3>9. Followed(st)
      BY <3>8 DEF Followed
    <3> QED BY <1>1, <3>1, <3>9, SectionTraces
  <2> QED BY <2>3, <2>4
<1> QED BY <1>6, <1>7

LEMMA FinishManualTraces ==
    ASSUME Setting, NEW c \in Calls, NEW saved \in BOOLEAN, FinishManual(c, saved)
    PROVE  Traced
<1>1. /\ call[c] \in Call /\ Request(c) /\ call[c].at = "running"
      /\ work[Manual(c)][call[c].job].at = "ended"
      /\ UNCHANGED <<now, current>> /\ Dropped(Manual(c)) /\ Manual(c) \in Owners
      /\ now \in Time /\ now \in Nat /\ IInv /\ Records
  BY OwnersAreApart, TimesAreNaturals DEF FinishManual, Setting, IInv, Requests, Records
<1>2. PICK s \in Services : s = call[c].svc /\ mem[s] # None /\ svc[s] # Off
  BY <1>1 DEF Request
<1>3. PICK j \in Jobs : j = call[c].job
  BY <1>1 DEF Request
<1>4. s = current
  BY <1>2, ActorIsCurrent
<1>5. \A i \in Jobs \ {j} : UnderWay(i) => UnderWay(i)'
  <2> SUFFICES ASSUME NEW i \in Jobs \ {j}, UnderWay(i) PROVE UnderWay(i)'
    OBVIOUS
  <2>1. work[Manual(c)][i].at = "none"
    BY <1>1, <1>3 DEF Request
  <2> QED BY <1>1, <2>1, Dropping
<1>6. CASE mem[s][j] = None
  <2>1. UNCHANGED <<mem, disk>>
    BY <1>2, <1>3, <1>6 DEF FinishManual
  <2>2. disk[j] = None
    BY <1>2, <1>4, <1>6 DEF Setting, Copies, Copy
  <2>3. ~ Marked(disk[j]) /\ ~ Marked(mem[s][j])
    BY <1>6, <2>2 DEF Marked
  <2> QED BY <1>1, <1>4, <1>5, <2>1, <2>3, SameStoresTrace
<1>7. CASE mem[s][j] # None
  <2>1. PICK st : st = FinishedStore(c)
    OBVIOUS
  <2>2. Keep(s, st) /\ Save(st, saved)
    BY <1>2, <1>3, <1>7, <2>1 DEF FinishManual, FinishedStore
  <2>3. CASE ~ saved
    BY <2>2, <2>3, UnsavedTraces
  <2>4. CASE saved
    <3>1. disk' = st /\ mem'[current] = st
      BY <1>1, <1>4, <2>2, <2>4, KeepKeeps DEF Save
    <3>2. /\ ~ Marked(st[j])
          /\ \A i \in Jobs : i # j =>
                /\ st[i] = None <=> disk[i] = None
                /\ disk[i] # None =>
                      /\ Tended(disk[i], st[i], now)
                      /\ disk[i].enabled => st[i].next = disk[i].next
      BY <1>1, <1>2, <1>3, <1>7, <2>1, FinishedStoreIsValid
    <3>3. Relieved(j)
      BY <1>1, <1>3, Dropping
    <3>4. ASSUME NEW i \in Jobs \ {j}
          PROVE  /\ svc[current].enabled /\ Marked(st[i]) => UnderWay(i)'
                 /\ MarkerKept(disk[i], st[i])
                 /\ NextKept(disk[i], st[i])
      <4>1. Carried(disk[i], st[i])
        BY <3>2 DEF Carried
      <4>2. PICK own : own = InMemory(current)
        OBVIOUS
      <4>3. svc[current].enabled /\ Marked(disk[i]) => UnderWay(i)
        BY <4>2, InMemoryIsCopy
      <4> QED BY <1>5, <4>1, <4>3, CarriedIsKept
    <3>5. Followed(st)
      BY <3>2, <3>3, <3>4 DEF Followed
    <3> QED BY <1>1, <3>1, <3>5, SectionTraces
  <2> QED BY <2>3, <2>4
<1> QED BY <1>6, <1>7

LEMMA EditTraces ==
    ASSUME Setting, NEW saved \in BOOLEAN, NEW st, Edit(current, st, saved), saved => Followed(st)
    PROVE  Traced
<1>1. Keep(current, st) /\ Save(st, saved) /\ now' = now
  BY DEF Edit
<1>2. CASE ~ saved
  BY <1>1, <1>2, UnsavedTraces
<1>3. CASE saved
  <2>1. current \in Services /\ IInv
    BY CurrentService DEF Setting
  <2>2. disk' = st /\ mem'[current] = st
    BY <1>1, <1>3, <2>1, KeepKeeps DEF Save
  <2> QED BY <1>1, <1>3, <2>2, SectionTraces
<1> QED BY <1>2, <1>3

\* The addition of a job touches no marker, but may advance any past next run.
LEMMA AddTraces ==
    ASSUME Setting, NEW j \in Jobs, NEW saved \in BOOLEAN, Add(j, saved)
    PROVE  Traced
<1>1. PICK own : own = InMemory(current)
  OBVIOUS
<1>2. PICK new : new = [own EXCEPT ![j] = NewJob(j)]
  OBVIOUS
<1>3. PICK st : st = Recomputed(new)
  OBVIOUS
<1>4. /\ j \notin known /\ known' = known \cup {j} /\ Edit(current, st, saved)
      /\ IInv /\ Records /\ now \in Time /\ current \in Services
  BY <1>1, <1>2, <1>3, CurrentService DEF Add, Setting, IInv, Records
<1>5. Valid(own, now)
  BY <1>1, <1>4, InMemoryIsValid
<1>6. NewJob(j) \in Job /\ Sound(j, NewJob(j), now) /\ ~ Marked(NewJob(j))
  BY <1>4, NewJobIsSound
<1>7. own \in [Jobs -> Job \cup {None}]
  BY <1>5 DEF Valid, Store
<1>8. new \in Store /\ new[j] = NewJob(j) /\ \A i \in Jobs \ {j} : new[i] = own[i]
  BY <1>2, <1>6, <1>7 DEF Store
<1>9. Valid(new, now)
  BY <1>5, <1>6, <1>8 DEF Valid
<1>10. disk[j] = None
  BY <1>4 DEF Records, Owned
<1>11. \A i \in Jobs : UnderWay(i) => UnderWay(i)'
  <2>1. work' = work
    BY <1>4 DEF Edit
  <2> QED BY <2>1 DEF UnderWay
<1>12. ASSUME NEW i \in Jobs
       PROVE  /\ svc[current].enabled /\ Marked(st[i]) => UnderWay(i)'
              /\ MarkerKept(disk[i], st[i]) /\ Allowed(i)
  <2>1. MarkerKept(new[i], st[i]) /\ (Marked(st[i]) => Marked(new[i]))
    BY <1>3, <1>4, <1>9, RecomputedIsKept
  <2>2. Allowed(i)
    BY <1>4 DEF Allowed
  <2>3. CASE i = j
    BY <1>6, <1>8, <1>10, <2>1, <2>2, <2>3 DEF MarkerKept, Marked
  <2>4. CASE i # j
    <3>1. /\ MarkerKept(own[i], st[i]) => MarkerKept(disk[i], st[i])
          /\ svc[current].enabled /\ Marked(own[i]) => UnderWay(i)
      BY <1>1, InMemoryIsCopy
    <3> QED BY <1>8, <1>11, <2>1, <2>2, <2>4, <3>1
  <2> QED BY <2>3, <2>4
<1>13. Followed(st)
  BY <1>12 DEF Followed
<1> QED BY <1>4, <1>13, EditTraces

LEMMA UpdateTraces ==
    ASSUME Setting, NEW j \in Jobs, NEW patch \in {"enable", "disable", "schedule", "other"},
           NEW saved \in BOOLEAN, Update(j, patch, saved)
    PROVE  Traced
<1>1. PICK own : own = InMemory(current)
  OBVIOUS
<1>2. PICK st : st = [own EXCEPT ![j] = Patched(j, @, patch)]
  OBVIOUS
<1>3. /\ own[j] # None /\ Edit(current, st, saved) /\ Valid(st, now)
      /\ IInv /\ Records /\ now \in Time /\ current \in Services
  BY <1>1, <1>2, UpdatedStore DEF Setting, IInv, Records
<1>4. Valid(own, now)
  BY <1>1, <1>3, InMemoryIsValid
<1>5. PICK r \in Job : r = own[j] /\ Sound(j, r, now)
  BY <1>3, <1>4, StoreOf DEF Valid
<1>6. PICK q : q = Patched(j, r, patch)
  OBVIOUS
<1>7. /\ q.enabled => q.running = r.running
      /\ q.running \in {r.running, None}
      /\ patch = "disable" => ~ q.enabled
      /\ patch = "other" /\ q.enabled => r.enabled /\ q.next = r.next
  BY <1>3, <1>5, <1>6, PatchedIsSound
<1>8. own \in [Jobs -> Job \cup {None}]
  BY <1>4 DEF Valid, Store
<1>9. st[j] = q /\ \A i \in Jobs \ {j} : st[i] = own[i]
  BY <1>2, <1>5, <1>6, <1>8
<1>10. \A i \in Jobs : UnderWay(i) => UnderWay(i)'
  <2>1. work' = work
    BY <1>3 DEF Edit
  <2> QED BY <2>1 DEF UnderWay
<1>11. ASSUME saved, NEW i \in Jobs
       PROVE  /\ svc[current].enabled /\ Marked(st[i]) => UnderWay(i)'
              /\ MarkerKept(disk[i], st[i])
              /\ NextKept(disk[i], st[i]) \/ Allowed(i)
  <2>1. /\ MarkerKept(own[i], st[i]) => MarkerKept(disk[i], st[i])
        /\ NextKept(own[i], st[i]) => NextKept(disk[i], st[i])
        /\ svc[current].enabled /\ Marked(own[i]) => UnderWay(i)
    BY <1>1, InMemoryIsCopy
  <2>2. CASE i # j
    <3>1. MarkerKept(own[i], st[i]) /\ NextKept(own[i], st[i])
      BY <1>9, <2>2 DEF MarkerKept, NextKept
    <3> QED BY <1>9, <1>10, <2>1, <2>2, <3>1
  <2>3. CASE i = j
    <3>1. Marked(q) => Marked(r)
      BY <1>3, <1>5, <1>7 DEF Marked
    <3>2. MarkerKept(r, q)
      BY <1>7 DEF MarkerKept, Marked
    <3>3. CASE patch \in {"enable", "schedule"}
      <4>1. Update(j, patch, TRUE)
        <5>1. saved = TRUE
          BY <1>11
        <5> QED BY <5>1
      <4>2. Allowed(j)
        BY <3>3, <4>1 DEF Allowed
      <4> QED BY <1>5, <1>9, <1>10, <2>1, <2>3, <3>1, <3>2, <4>2
    <3>4. CASE patch \in {"disable", "other"}
      <4>1. NextKept(r, q)
        BY <1>7, <3>4 DEF NextKept
      <4> QED BY <1>5, <1>9, <1>10, <2>1, <2>3, <3>1, <3>2, <4>1
    <3> QED BY <3>3, <3>4
  <2> QED BY <2>2, <2>3
<1>12. saved => Followed(st)
  BY <1>11 DEF Followed
<1> QED BY <1>3, <1>12, EditTraces

LEMMA RemoveTraces ==
    ASSUME Setting, NEW j \in Jobs, NEW saved \in BOOLEAN, Remove(j, saved)
    PROVE  Traced
<1>1. PICK old : old = IF mem[current] = None THEN Recomputed(disk) ELSE mem[current]
  OBVIOUS
<1>2. PICK st : st = [old EXCEPT ![j] = None]
  OBVIOUS
<1>3. /\ Edit(current, st, saved) /\ IInv /\ Records /\ Valid(disk, now)
      /\ now \in Time /\ current \in Services
  BY <1>1, <1>2, CurrentService DEF Remove, Setting, IInv, Records
<1>4. Valid(old, now)
  <2>1. CASE mem[current] = None
    BY <1>1, <1>3, <2>1, RecomputedIsValid
  <2>2. CASE mem[current] # None
    BY <1>1, <1>3, <2>2 DEF Records
  <2> QED BY <2>1, <2>2
<1>5. old \in [Jobs -> Job \cup {None}]
  BY <1>4 DEF Valid, Store
<1>6. st[j] = None /\ \A i \in Jobs \ {j} : st[i] = old[i]
  BY <1>2, <1>5
<1>7. \A i \in Jobs : UnderWay(i) => UnderWay(i)'
  <2>1. work' = work
    BY <1>3 DEF Edit
  <2> QED BY <2>1 DEF UnderWay
<1>8. ASSUME NEW i \in Jobs
      PROVE  /\ svc[current].enabled /\ Marked(st[i]) => UnderWay(i)'
             /\ MarkerKept(disk[i], st[i])
             /\ svc[current].enabled => NextKept(disk[i], st[i])
  <2>1. CASE i = j
    BY <1>6, <2>1 DEF MarkerKept, NextKept, Marked
  <2>2. CASE i # j /\ mem[current] = None
    <3>1. ~ svc[current].enabled
      BY <1>3, <2>2, ServiceFields DEF IInv
    <3>2. MarkerKept(disk[i], old[i])
      BY <1>1, <1>3, <2>2, RecomputedIsKept
    <3> QED BY <1>6, <2>2, <3>1, <3>2
  <2>3. CASE i # j /\ mem[current] # None
    <3>1. PICK own : own = InMemory(current)
      OBVIOUS
    <3>2. own = old
      BY <1>1, <2>3, <3>1 DEF InMemory
    <3>3. /\ MarkerKept(own[i], st[i]) => MarkerKept(disk[i], st[i])
          /\ NextKept(own[i], st[i]) => NextKept(disk[i], st[i])
          /\ svc[current].enabled /\ Marked(own[i]) => UnderWay(i)
      BY <3>1, InMemoryIsCopy
    <3>4. MarkerKept(old[i], st[i]) /\ NextKept(old[i], st[i])
      BY <1>6, <2>3 DEF MarkerKept, NextKept
    <3> QED BY <1>6, <1>7, <2>3, <3>2, <3>3, <3>4
  <2> QED BY <2>1, <2>2, <2>3
<1>9. Followed(st)
  BY <1>8 DEF Followed
<1> QED BY <1>3, <1>9, EditTraces

LEMMA ReadTraces ==
    ASSUME Setting, NEW saved \in BOOLEAN, Read(saved)
    PROVE  Traced
<1>1. PICK old : old = InMemory(current)
  OBVIOUS
<1>2. PICK st : st = Maintained(old, FALSE)
  OBVIOUS
<1>3. /\ Keep(current, st) /\ SaveChanged(old, st, saved)
      /\ UNCHANGED <<now, svc, work>> /\ IInv /\ current \in Services
  BY <1>1, <1>2, CurrentService DEF Read, Setting
<1>4. CASE ~ saved
  BY <1>3, <1>4, UnsavedTraces
<1>5. CASE saved /\ st = old
  <2>1. disk' = disk
    BY <1>3, <1>5 DEF SaveChanged
  <2> QED BY <1>1, <1>2, <1>3, <2>1, LookingTraces
<1>6. CASE saved /\ st # old
  <2>1. disk' = st /\ mem'[current] = st
    BY <1>3, <1>6, KeepKeeps DEF SaveChanged, Save
  <2>2. \A j \in Jobs : UnderWay(j) => UnderWay(j)'
    BY <1>3 DEF UnderWay
  <2> QED BY <1>1, <1>2, <1>3, <2>1, <2>2, MaintenanceTraces
<1> QED BY <1>4, <1>5, <1>6

\* Every step in the life of one service.
LEMMA StepTraces ==
    ASSUME Setting, Step
    PROVE  Traced
<1>1. ClockTicks => Traced
  BY ClockTraces
<1>2. Crash => FALSE
  BY DEF Crash, Setting
<1>3. ASSUME NEW s \in Services, NEW on \in BOOLEAN, NEW saved \in BOOLEAN,
             Boot(s, on, saved) \/ Reload(s, on, saved)
      PROVE  FALSE
  <2>1. svc[s] = Off /\ current' = s
    BY <1>3 DEF Boot, Reload, Start, Setting
  <2>2. svc[current] # Off
    BY CurrentService DEF Setting
  <2> QED BY <2>1, <2>2 DEF Setting
<1>4. \A s \in Services, saved \in BOOLEAN : ServiceStep(s, saved) => Traced
  BY PlanTraces, ApplyCatchupTraces, ArmTraces, TimerTraces, ApplyTickTraces DEF ServiceStep
<1>5. \A c \in Calls, saved \in BOOLEAN : CallStep(c, saved) => Traced
  BY ReserveTraces, FinishManualTraces DEF CallStep
<1>6. CASE Execute
  <2>1. ASSUME NEW s \in Services, NEW j \in Jobs, StartDue(s, j) PROVE Traced
    BY <2>1, StartDueTraces
  <2>2. ASSUME NEW s \in Services, NEW j \in Jobs, StartMissed(s, j) PROVE Traced
    <3>1. /\ work[Catchup(s)][j].at = "waiting" /\ Started(Catchup(s), j)
          /\ UNCHANGED <<now, disk, mem>> /\ Catchup(s) \in Owners
      BY <2>2, OwnersAreApart DEF StartMissed
    <3> QED BY <3>1, ExecutionTraces
  <2>3. ASSUME NEW o \in Owners, NEW j \in Jobs, NEW status \in Outcomes[j], Ends(o, j, status)
        PROVE  Traced
    <3>1. UNCHANGED <<now, disk, mem>>
      BY <2>3 DEF Ends
    <3> QED BY <2>3, <3>1, ExecutionTraces
  <2> QED BY <1>6, <2>1, <2>2, <2>3 DEF Execute
<1>7. CASE Ask
  <2>1. UNCHANGED <<now, disk, svc, work>> /\ Keep(current, Maintained(InMemory(current), FALSE))
    BY <1>7 DEF Ask, Preflight, PreflightRefused
  <2> QED BY <2>1, LookingTraces
<1>8. \A saved \in BOOLEAN : Change(saved) => Traced
  BY AddTraces, UpdateTraces, RemoveTraces, ReadTraces DEF Change
<1> QED BY <1>1, <1>2, <1>3, <1>4, <1>5, <1>6, <1>7, <1>8 DEF Step

-----------------------------------------------------------------------------
(* The copy in memory accompanies the file *)

\* A save that has failed stays on record.
LEMMA FaultsRemain ==
    ASSUME IInv, Step
    PROVE  faults' = 0 => faults = 0
<1>1. Counted
  BY DEF IInv
<1>2. ClockTicks \/ Crash \/ Execute \/ Ask => faults' = faults
  <2>1. ClockTicks \/ Crash => faults' = faults
    BY DEF ClockTicks, Crash
  <2>2. Execute => faults' = faults
    BY DEF Execute, StartDue, StartMissed, Ends
  <2>3. Ask => faults' = faults
    BY DEF Ask, Preflight, PreflightRefused
  <2> QED BY <2>1, <2>2, <2>3
<1>3. ASSUME NEW s \in Services, NEW on \in BOOLEAN, NEW saved \in BOOLEAN,
             Boot(s, on, saved) \/ Reload(s, on, saved)
      PROVE  faults' = 0 => faults = 0
  <2>1. PICK before : Start(s, on, before, saved)
    BY <1>3, StartOf
  <2>2. SaveChanged(disk, Unmarked(disk), saved) \/ faults' = faults
    BY <2>1 DEF Start
  <2> QED BY <1>1, <2>2, FaultsStay
<1>4. ASSUME NEW s \in Services, NEW saved \in BOOLEAN, ServiceStep(s, saved)
      PROVE  faults' = 0 => faults = 0
  <2>1. CASE PlanCatchup(s, saved)
    <3>1. PICK missed \in SUBSET Jobs : missed = {j \in Jobs \ svc[s].aside : Missed(j, mem[s][j])}
      OBVIOUS
    <3>2. faults' = faults \/ \E js \in SUBSET missed : Save(Marking(mem[s], js), saved)
      BY <2>1, <3>1 DEF PlanCatchup
    <3> QED BY <1>1, <3>2, FaultsStay
  <2>2. CASE ApplyCatchup(s, saved)
    <3>1. \E put \in Store : Save(Maintained(put, FALSE), saved)
      BY <2>2, CatchupStore
    <3> QED BY <1>1, <3>1, FaultsStay
  <2>3. CASE ArmScheduler(s, saved)
    <3>1. SaveChanged(mem[s], Recomputed(mem[s]), saved)
      BY <2>3 DEF ArmScheduler
    <3> QED BY <1>1, <3>1, FaultsStay
  <2>4. CASE TimerFires(s, saved)
    <3>1. PICK due : due = {j \in Jobs : Runnable(disk[j])}
      OBVIOUS
    <3>2. SaveChanged(disk, Maintained(disk, TRUE), saved) \/ Save(Marking(disk, due), saved)
      BY <2>4, <3>1 DEF TimerFires
    <3> QED BY <1>1, <3>2, FaultsStay
  <2>5. CASE ApplyTick(s, saved)
    <3>1. Save(Maintained(With(disk, Tick(s)), FALSE), saved)
      BY <2>5 DEF ApplyTick
    <3> QED BY <1>1, <3>1, FaultsStay
  <2> QED BY <1>4, <2>1, <2>2, <2>3, <2>4, <2>5 DEF ServiceStep
<1>5. ASSUME NEW c \in Calls, NEW saved \in BOOLEAN, CallStep(c, saved)
      PROVE  faults' = 0 => faults = 0
  <2>1. CASE Reserve(c, saved)
    <3>1. PICK st : st = [mem[call[c].svc] EXCEPT ![call[c].job].running = call[c].now]
      OBVIOUS
    <3>2. faults' = faults \/ Save(st, saved)
      BY <2>1, <3>1 DEF Reserve
    <3> QED BY <1>1, <3>2, FaultsStay
  <2>2. CASE FinishManual(c, saved)
    <3>1. faults' = faults \/ Save(FinishedStore(c), saved)
      BY <2>2 DEF FinishManual, FinishedStore
    <3> QED BY <1>1, <3>1, FaultsStay
  <2> QED BY <1>5, <2>1, <2>2 DEF CallStep
<1>6. ASSUME NEW saved \in BOOLEAN, Change(saved) PROVE faults' = 0 => faults = 0
  <2>1. ASSUME NEW st, Edit(current, st, saved) PROVE faults' = 0 => faults = 0
    <3>1. Save(st, saved)
      BY <2>1 DEF Edit
    <3> QED BY <1>1, <3>1, FaultsStay
  <2>2. ASSUME NEW j \in Jobs, Add(j, saved) \/ Remove(j, saved) PROVE faults' = 0 => faults = 0
    BY <2>1, <2>2 DEF Add, Remove
  <2>3. ASSUME NEW j \in Jobs, NEW patch \in {"enable", "disable", "schedule", "other"},
               Update(j, patch, saved)
        PROVE  faults' = 0 => faults = 0
    BY <2>1, <2>3, UpdatedStore
  <2>4. ASSUME Read(saved) PROVE faults' = 0 => faults = 0
    <3>1. SaveChanged(InMemory(current), Maintained(InMemory(current), FALSE), saved)
      BY <2>4 DEF Read
    <3> QED BY <1>1, <3>1, FaultsStay
  <2> QED BY <1>6, <2>2, <2>3, <2>4 DEF Change
<1> QED BY <1>2, <1>3, <1>4, <1>5, <1>6 DEF Step

\* A start leaves no marker, in the file or in its copy, or has no copy at all.
LEMMA StartCopies ==
    ASSUME IInv, NEW s \in Services, NEW on \in BOOLEAN, NEW before, NEW saved \in BOOLEAN,
           svc[s] = Off, Start(s, on, before, saved)
    PROVE  /\ faults' = 0 => Copies'
           /\ \A j \in Jobs : NextKept(disk[j], disk'[j])
<1>1. PICK st : st = Unmarked(disk)
  OBVIOUS
<1>2. /\ current' = s /\ now' = now /\ now \in Time /\ Records /\ Valid(disk, now)
      /\ IF on THEN Keep(s, st) /\ SaveChanged(disk, st, saved) ELSE UNCHANGED <<mem, disk, faults>>
  BY <1>1 DEF Start, IInv, Records
<1>3. CASE ~ on
  <2>1. mem'[s] = None
    BY <1>2, <1>3 DEF IInv, Phases, Phase
  <2> QED BY <1>2, <1>3, <2>1 DEF Copies, NextKept
<1>4. CASE on
  <2>1. /\ Valid(st, now)
        /\ \A j \in Jobs : /\ ~ Marked(st[j])
                           /\ disk[j] # None => st[j].enabled = disk[j].enabled
                                                  /\ st[j].next = disk[j].next
    BY <1>1, <1>2, UnmarkedIsValid
  <2>2. disk' \in {disk, st} /\ (saved => disk' = st)
    BY <1>2, <1>4 DEF SaveChanged, Save
  <2>3. \A j \in Jobs : NextKept(disk[j], disk'[j])
    BY <2>1, <2>2 DEF NextKept
  <2>4. ASSUME faults' = 0 PROVE Copies'
    <3>1. disk' = st
      BY <1>2, <1>4, <2>2, <2>4, FaultsStay DEF IInv
    <3>2. mem'[s] = st
      BY <1>2, <1>4, KeepKeeps
    <3>3. \A j \in Jobs : Copy(st[j], st[j], now)
      BY <2>1, StoreOf, SelfCopy DEF Valid
    <3> QED BY <1>2, <2>1, <3>1, <3>2, <3>3 DEF Copies
  <2> QED BY <2>3, <2>4
<1> QED BY <1>3, <1>4

\* In a step of one service, whose saves have gone well, everything is as StepTraces says.
LEMMA CalmTraces ==
    ASSUME IInv, IInv', Accompanied, Calm, Step, current # None, current' = current
    PROVE  Traced
<1>1. Steady
  BY StepAttends
<1>2. Setting
  BY <1>1 DEF Setting, Accompanied
<1> QED BY <1>2, StepTraces

LEMMA AccompaniedKeeps == IInv /\ IInv' /\ Accompanied /\ [Next]_vars => Accompanied'
<1> SUFFICES ASSUME IInv, IInv', Accompanied, [Next]_vars PROVE Accompanied'
  OBVIOUS
<1>1. CASE UNCHANGED vars
  BY <1>1 DEF vars, Accompanied, Calm, Alone, Copies, UnderWay
<1>2. CASE Step
  <2> SUFFICES ASSUME Calm', current' # None PROVE Copies'
    BY DEF Accompanied
  <2>1. faults' = 0 /\ faults = 0
    BY <1>2, FaultsRemain DEF Calm
  <2>2. CASE current' = current
    <3>1. current # None /\ Steady
      BY <1>2, <2>2, StepAttends
    <3>2. Alone
      BY <2>2, <3>1 DEF Calm, Alone, Steady
    <3>3. Calm
      BY <2>1, <3>2 DEF Calm
    <3>4. Traced
      BY <1>2, <2>2, <3>1, <3>3, CalmTraces
    <3> QED BY <2>1, <3>4 DEF Traced
  <2>3. CASE current' # current
    <3>1. PICK s \in Services, on \in BOOLEAN, saved \in BOOLEAN :
             Boot(s, on, saved) \/ Reload(s, on, saved)
      BY <1>2, <2>3, CurrentStays
    <3>2. svc[s] = Off /\ \E before : Start(s, on, before, saved)
      BY <3>1, StartOf
    <3> QED BY <2>1, <3>2, StartCopies
  <2> QED BY <2>2, <2>3
<1> QED BY <1>1, <1>2 DEF Next

LEMMA AccompaniedInvariance == Spec => [](IInv /\ Marks /\ Solo /\ Accompanied)
<1>1. Init => Accompanied
  BY DEF Init, Accompanied
<1>2. IInv /\ Accompanied /\ [Next]_vars => Accompanied'
  BY StepKeeps, AccompaniedKeeps
<1> QED BY <1>1, <1>2, Invariance, SoloInvariance, PTL DEF Spec

\* Within one service and while every save succeeds, a marker on disk is that of an
\* execution that is under way for a tick, a catch-up or a manual run, whose result will
\* take it away: no section that marks fails to queue, and none that drops a result
\* leaves the marker, whichever of the two copies it works on.
THEOREM MarkersAreOwned == Spec => []MarkersHaveOwners
<1>1. IInv /\ Accompanied => MarkersHaveOwners
  <2> SUFFICES ASSUME IInv, Accompanied, Calm, current # None, svc[current].enabled,
                      NEW j \in Jobs, Marked(disk[j])
               PROVE  UnderWay(j)
    BY DEF MarkersHaveOwners
  <2>1. mem[current] # None
    BY CurrentService, ServiceFields DEF IInv
  <2> QED BY <2>1 DEF Accompanied, Copies
<1> QED BY <1>1, AccompaniedInvariance, PTL

\* Within one service, an execution's marker stays on disk until its result is: maintenance,
\* edits of other jobs, and sections that write back a copy in memory do not take it away.
THEOREM MarkersAreKept == Spec => MarkersStay
<1>1. ASSUME IInv, IInv', Solo, Accompanied, Step, Calm, NEW j \in Jobs,
             Marked(disk[j]), UnderWay(j), UnderWay(j)', ~ Marked(disk'[j]), current' = current
      PROVE  \/ disk'[j] = None \/ ~ disk'[j].enabled \/ ~ disk[j].enabled
             \/ disk[j].running + StuckRun < now
             \/ j \in disowned
  <2>1. current # None
    BY <1>1, ConstantRecords DEF IInv, Presence, UnderWay
  <2>2. Traced
    BY <1>1, <2>1, CalmTraces
  <2>3. CASE MarkerKept(disk[j], disk'[j])
    BY <1>1, <2>3 DEF MarkerKept
  <2>4. CASE Relieved(j)
    <3>1. PICK o \in Owners :
             /\ work[o][j].at = "ended" /\ work'[o][j].at = "none"
             /\ \A p \in Owners : work'[p][j].at # "none" => work[p][j].at # "none"
      BY <2>4 DEF Relieved
    <3>2. PICK p \in Owners : work'[p][j].at # "none"
      BY <1>1 DEF UnderWay
    <3>3. p # o /\ work[p][j].at # "none" /\ work[o][j].at # "none"
      BY <3>1, <3>2
    <3> QED BY <1>1, <3>3 DEF Solo
  <2> QED BY <2>2, <2>3, <2>4 DEF Traced
<1>2. IInv /\ IInv' /\ Solo /\ Accompanied /\ [Next]_vars =>
         [Calm => \A j \in Jobs :
            Marked(disk[j]) /\ UnderWay(j) /\ UnderWay(j)' /\ ~ Marked(disk'[j]) =>
               \/ disk'[j] = None \/ ~ disk'[j].enabled \/ ~ disk[j].enabled
               \/ current' # current
               \/ disk[j].running + StuckRun < now
               \/ j \in disowned]_vars
  BY <1>1 DEF Next
<1> QED BY <1>2, AccompaniedInvariance, PTL DEF Spec, MarkersStay

\* Within one service, the past next run of a job is not advanced unless the job has run:
\* ticks, reads, manual runs and edits of other jobs leave it.  An addition, the last
\* sections of a start, and an update of the job itself may.
THEOREM NothingIsSkipped == Spec => NoSilentSkip
<1>1. ASSUME IInv, IInv', Accompanied, Step, Calm, current # None, svc[current].enabled,
             NEW j \in Jobs, disk[j] # None, disk[j].enabled,
             disk'[j] # None, disk'[j].enabled, disk'[j].next # disk[j].next
      PROVE  \/ Reported(j)
             \/ known' # known
             \/ svc' # svc /\ svc[current].startup \in {"run", "arm"}
             \/ \E patch \in {"enable", "schedule"} : Update(j, patch, TRUE)
  <2>1. CASE current' = current
    <3>1. Traced
      BY <1>1, <2>1, CalmTraces
    <3>2. ~ NextKept(disk[j], disk'[j])
      BY <1>1 DEF NextKept
    <3>3. Relieved(j) \/ Allowed(j)
      BY <1>1, <3>1, <3>2 DEF Traced
    <3>4. Relieved(j) => Reported(j)
      BY DEF Relieved, Reported
    <3> QED BY <3>3, <3>4 DEF Allowed
  <2>2. CASE current' # current /\ current' = None
    <3>1. disk' = disk
      <4>1. Crash => disk' = disk
        BY DEF Crash
      <4>2. ASSUME NEW s \in Services, NEW on \in BOOLEAN, NEW saved \in BOOLEAN, current' = s
            PROVE  FALSE
        BY <2>2, <4>2, NoneAssumption
      <4> QED BY <1>1, <2>2, <4>1, <4>2, CurrentStays
    <3> QED BY <1>1, <3>1
  <2>3. CASE current' # current /\ current' # None
    <3>1. PICK s \in Services, on \in BOOLEAN, saved \in BOOLEAN :
             Boot(s, on, saved) \/ Reload(s, on, saved)
      BY <1>1, <2>3, CurrentStays
    <3>2. svc[s] = Off /\ \E before : Start(s, on, before, saved)
      BY <1>1, <3>1, StartOf
    <3>3. NextKept(disk[j], disk'[j])
      BY <1>1, <3>2, StartCopies
    <3> QED BY <1>1, <3>3 DEF NextKept
  <2> QED BY <2>1, <2>2, <2>3
<1>2. IInv /\ IInv' /\ Accompanied /\ [Next]_vars =>
         [Calm /\ current # None /\ svc[current].enabled => \A j \in Jobs :
            /\ disk[j] # None /\ disk[j].enabled /\ PastDue(disk[j])
            /\ disk'[j] # None /\ disk'[j].enabled /\ disk'[j].next # disk[j].next
            => \/ Reported(j)
               \/ known' # known
               \/ svc' # svc /\ svc[current].startup \in {"run", "arm"}
               \/ \E patch \in {"enable", "schedule"} : Update(j, patch, TRUE)]_vars
  BY <1>1 DEF Next
<1> QED BY <1>2, AccompaniedInvariance, PTL DEF Spec, NoSilentSkip

=============================================================================
