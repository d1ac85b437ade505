---------------------------- MODULE TimelineProofs ----------------------------
(***************************************************************************)
(* Theorems about TaskTimeline, for all schedules, policies, intervals,    *)
(* timeouts, margins and numbers of workers.                               *)
(***************************************************************************)
EXTENDS TaskTimeline, TLAPS

-----------------------------------------------------------------------------
(* The inductive invariant.                                                *)

Row == [status      : {"Scheduled", "Queued", "Executing", "Completed", "Dead"},
        next        : Date,
        scheduledAt : Date,
        lockedUntil : Date,
        attempt     : Nat,
        policy      : {Written(task.policy), Written(DefaultPolicy)},
        version     : Nat]

WorkerState == [pc      : {"idle", "begun", "calling"},
                kind    : Kind,
                began   : Nat,
                asked   : Nat,
                version : Nat,
                planned : Date]

Shapes ==
  /\ task \in Description /\ now \in 0..Horizon
  /\ row \in Row
  /\ worker \in [Worker -> WorkerState]
  /\ runs \in [DOMAIN runs -> Nat]
  /\ DOMAIN runs \subseteq Int

\* A task has a date while it waits and a lock while it runs; the dates that have
\* been acted on are in the past.
DatesOK ==
  /\ row.status \in {"Scheduled", "Queued"} <=> row.next # NoDate
  /\ row.status = "Executing" <=> row.lockedUntil # NoDate
  /\ row.status = "Queued" => row.next <= now
  /\ row.status = "Executing" /\ task.type # "Polling" =>
       row.scheduledAt # NoDate /\ row.scheduledAt <= now

\* A handler keeps to its time, and if its copy has the row's version, the task is
\* still captured as the copy says.
WorkerOK(w) ==
  /\ worker[w].pc # "idle" /\ worker[w].kind = "check" => task.type = "Polling"
  /\ worker[w].pc = "begun" =>
       worker[w].began <= now /\ now <= worker[w].began + Waits(worker[w].kind)
  /\ worker[w].pc = "calling" =>
       /\ worker[w].began <= worker[w].asked
       /\ worker[w].asked <= worker[w].began + Waits(worker[w].kind)
       /\ worker[w].asked <= now /\ now <= worker[w].asked + task.timeout
       /\ worker[w].version <= row.version
       /\ Holds(w) =>
            /\ row.status = "Executing"
            /\ row.lockedUntil = LockUntil(worker[w].kind, worker[w].began)
            /\ worker[w].planned = row.scheduledAt
            /\ worker[w].kind = "message" =>
                 row.scheduledAt \in Int /\ row.scheduledAt <= worker[w].asked

\* The policy that is read back has five intervals, whatever was written.
AttemptsOK ==
  /\ row.attempt <= 5
  /\ row.status = "Dead" <=> row.attempt = 5

OnGrid(d) == (d - GetNextOccurrence(0)) % task.period = 0

\* Until an attempt fails, every date of a periodic task is on its schedule's grid.
GridOK ==
  row.attempt = 0 /\ task.type = "Periodic" =>
    /\ \A d \in DOMAIN runs : OnGrid(d)
    /\ row.next # NoDate => OnGrid(row.next)
    /\ row.status = "Executing" => OnGrid(row.scheduledAt)

TimelineInv ==
  /\ Shapes
  /\ DatesOK
  /\ \A w \in Worker : WorkerOK(w)
  /\ AttemptsOK
  /\ GridOK

-----------------------------------------------------------------------------
(* The operators.                                                          *)

LEMMA Numbers ==
  /\ {Interval, DefaultTimeout, DefaultInterval} \subseteq Nat \ {0}
  /\ {Margin, MaxJitter, Slack, Before, Horizon} \subseteq Nat
  /\ NoDate \notin Int
BY TimelineAssumption

LEMMA TaskFacts ==
  ASSUME Shapes
  PROVE  /\ task.type \in {"OneTime", "Periodic", "Polling"}
         /\ task.mode \in {"offset", "cron", "absolute"}
         /\ task.period \in Nat \ {0} /\ task.timeout \in Nat \ {0}
BY TimelineAssumption DEF Shapes

LEMMA Kinds ==
  /\ Kind = {"message", "check"}
  /\ \A kind \in Kind : Waits(kind) \in Nat
  /\ Waits("message") = Slack
BY Numbers DEF Kind, Waits

\* Every task is read back with the default policy: the name the repository
\* writes is not the name the converter looks for.
LEMMA ReadIsDefault ==
  ASSUME NEW policy
  PROVE  Read(Written(policy)) = DefaultPolicy
<1>1. DOMAIN Written(policy) = {"IntervalsSeconds"}
  BY DEF Written
<1>2. "intervalsSeconds" \notin DOMAIN Written(policy)
  BY <1>1
<1> QED
  BY <1>2 DEF Read

LEMMA DefaultPolicyFacts ==
  /\ MaxAttempts(DefaultPolicy) = 5
  /\ \A attempt \in 1..5 : GetRetryDelay(DefaultPolicy, attempt) = DefaultInterval
BY Numbers DEF DefaultPolicy, MaxAttempts, GetRetryDelay

LEMMA MultipleOfPeriod ==
  ASSUME NEW p \in Nat \ {0}, NEW m \in Int
  PROVE  (p * m) % p = 0
OBVIOUS

\* One period further is on the grid as well.
LEMMA OnePeriodOn ==
  ASSUME NEW p \in Nat \ {0}, NEW x \in Int, x % p = 0
  PROVE  (x + p) % p = 0
<1>1. x \div p \in Int /\ x = p * (x \div p)
  OBVIOUS
<1>2. PICK m \in Int : x = p * m
  BY <1>1
<1>3. x + p = p * (m + 1) /\ m + 1 \in Int
  BY <1>2
<1> QED
  BY <1>3, MultipleOfPeriod

LEMMA NextOccurrenceDate ==
  ASSUME Shapes, NEW base \in Int
  PROVE  GetNextOccurrence(base) \in Int
<1>1. task.period \in Nat \ {0} /\ task.period \in Int
  BY TaskFacts
<1>2. NextFitting(base) \in Int
  BY <1>1 DEF NextFitting
<1>3. CASE task.mode = "absolute"
  BY <1>1, <1>3 DEF GetNextOccurrence
<1>4. CASE task.mode = "offset"
  BY <1>1, <1>4 DEF GetNextOccurrence
<1>5. CASE task.mode = "cron"
  BY <1>2, <1>5 DEF GetNextOccurrence
<1> QED
  BY <1>3, <1>4, <1>5, TaskFacts

\* The date after a date of the grid is a date of the grid, and so is the first.
LEMMA GridGoesOn ==
  ASSUME Shapes
  PROVE  /\ OnGrid(GetNextOccurrence(0))
         /\ \A base \in Int : OnGrid(base) => OnGrid(GetNextOccurrence(base))
<1> DEFINE first == GetNextOccurrence(0)
           p == task.period
<1>1. p \in Nat \ {0} /\ first \in Int
  BY TaskFacts, NextOccurrenceDate
<1>2. 0 % p = 0
  <2>1. 0 = p * 0
    BY <1>1
  <2> QED
    BY <1>1, <2>1, MultipleOfPeriod
<1>3. OnGrid(GetNextOccurrence(0))
  <2>1. first - first = 0
    BY <1>1
  <2> QED
    BY <1>2, <2>1 DEF OnGrid
<1>4. ASSUME NEW base \in Int, OnGrid(base)
      PROVE  OnGrid(GetNextOccurrence(base))
  <2>1. CASE task.mode = "absolute"
    <3>1. GetNextOccurrence(base) = first
      BY <2>1 DEF GetNextOccurrence
    <3> QED
      BY <1>3, <3>1
  <2>2. CASE task.mode = "offset"
    <3>1. GetNextOccurrence(base) = base + p
      BY <2>2 DEF GetNextOccurrence
    <3>2. (base - first) % p = 0 /\ base - first \in Int
      BY <1>1, <1>4 DEF OnGrid
    <3>3. ((base - first) + p) % p = 0
      BY <1>1, <3>2, OnePeriodOn
    <3>4. (base + p) - first = (base - first) + p
      BY <1>1
    <3> QED
      BY <3>1, <3>3, <3>4 DEF OnGrid
  <2>3. CASE task.mode = "cron"
    <3>1. GetNextOccurrence(base) = NextFitting(base) /\ first = NextFitting(0)
      BY <2>3 DEF GetNextOccurrence
    <3>2. PICK m \in Int : NextFitting(base) = p * m
      <4>1. (base + p - 1) \div p \in Int
        BY <1>1
      <4> QED
        BY <4>1 DEF NextFitting
    <3>3. PICK k \in Int : NextFitting(0) = p * k
      <4>1. (0 + p - 1) \div p \in Int
        BY <1>1
      <4> QED
        BY <4>1 DEF NextFitting
    <3>4. p * m - p * k = p * (m - k) /\ m - k \in Int
      BY <1>1
    <3>5. (p * m - p * k) % p = 0
      BY <1>1, <3>4, MultipleOfPeriod
    <3> QED
      BY <3>1, <3>2, <3>3, <3>5 DEF OnGrid
  <2> QED
    BY <2>1, <2>2, <2>3, TaskFacts
<1> QED
  BY <1>3, <1>4

LEMMA LockIsDate ==
  ASSUME NEW kind, NEW began \in Nat
  PROVE  LockUntil(kind, began) \in Int /\ LockUntil(kind, began) # NoDate
BY Numbers DEF LockUntil

-----------------------------------------------------------------------------
(* What the transitions make of the row, by field.                         *)

LEMMA RowFacts ==
  ASSUME TimelineInv
  PROVE  /\ Shapes /\ row \in Row /\ now \in Nat /\ now \in Int
         /\ row.attempt \in Nat /\ row.version \in Nat
         /\ {row.next, row.scheduledAt, row.lockedUntil} \subseteq Date
         /\ row.next # NoDate => row.next \in Int
         /\ Read(row.policy) = DefaultPolicy
<1>1. Shapes /\ row \in Row /\ now \in 0..Horizon
  BY DEF TimelineInv, Shapes
<1>2. now \in Nat
  BY <1>1, Numbers
<1>3. row.policy \in {Written(task.policy), Written(DefaultPolicy)}
  BY <1>1 DEF Row
<1>4. Read(row.policy) = DefaultPolicy
  BY <1>3, ReadIsDefault
<1> QED
  BY <1>1, <1>2, <1>4 DEF Row, Date

\* What is saved is what was read, with the policy that was read.
LEMMA SavedFields ==
  ASSUME NEW r \in Row
  PROVE  /\ Saved(r) \in Row
         /\ Saved(r).status = r.status /\ Saved(r).next = r.next
         /\ Saved(r).scheduledAt = r.scheduledAt /\ Saved(r).lockedUntil = r.lockedUntil
         /\ Saved(r).attempt = r.attempt /\ Saved(r).version = r.version + 1
<1> DEFINE policy == Written(Read(r.policy))
           number == r.version + 1
<1>1. r.policy \in {Written(task.policy), Written(DefaultPolicy)} /\ number \in Nat
  BY DEF Row
<1>2. policy = Written(DefaultPolicy)
  BY <1>1, ReadIsDefault
<1>3. Saved(r) = [r EXCEPT !.policy = policy, !.version = number]
  BY DEF Saved, Row
<1> HIDE DEF policy, number
<1>4. Saved(r) \in Row
  BY <1>1, <1>2, <1>3 DEF Row
<1>5. /\ Saved(r).status = r.status /\ Saved(r).next = r.next
      /\ Saved(r).scheduledAt = r.scheduledAt /\ Saved(r).lockedUntil = r.lockedUntil
      /\ Saved(r).attempt = r.attempt /\ Saved(r).version = number
  BY <1>3 DEF Row
<1> QED
  BY <1>4, <1>5 DEF number

LEMMA CallerFacts ==
  ASSUME TimelineInv, NEW w \in Worker
  PROVE  /\ worker[w] \in WorkerState
         /\ worker[w].began \in Nat /\ worker[w].asked \in Nat /\ worker[w].version \in Nat
         /\ worker[w].planned \in Date
         /\ worker[w].pc \in {"idle", "begun", "calling"} /\ worker[w].kind \in Kind
         /\ WorkerOK(w)
BY DEF TimelineInv, Shapes, WorkerState

LEMMA FailedRowFields ==
  ASSUME TimelineInv, row.status = "Executing", NEW utcNow \in Nat, NEW jitter \in 0..MaxJitter
  PROVE  LET failed == FailedRow(utcNow, jitter)
         IN  /\ failed \in Row
             /\ failed.attempt = row.attempt + 1 /\ failed.attempt <= 5
             /\ failed.version = row.version + 1
             /\ failed.lockedUntil = NoDate
             /\ \/ failed.status = "Dead" /\ failed.attempt = 5 /\ failed.next = NoDate
                \/ /\ failed.status = "Scheduled" /\ failed.attempt < 5
                   /\ failed.next = utcNow + DefaultInterval + jitter
                   /\ failed.next \in Int
<1>1. Read(row.policy) = DefaultPolicy
  BY RowFacts
<1>2. row.attempt < 5 /\ row.next = NoDate /\ row.attempt \in Nat
  BY RowFacts DEF TimelineInv, DatesOK, AttemptsOK
<1> DEFINE base == [row EXCEPT !.attempt = row.attempt + 1, !.lockedUntil = NoDate]
           date == utcNow + DefaultInterval + jitter
<1>3. /\ base \in Row /\ base.attempt = row.attempt + 1 /\ base.version = row.version
      /\ base.lockedUntil = NoDate /\ base.next = NoDate
  <2>1. row \in Row /\ row.attempt + 1 \in Nat /\ NoDate \in Date
    BY RowFacts DEF Date
  <2>2. base \in Row
    BY <2>1 DEF Row
  <2> QED
    BY <1>2, <2>1, <2>2 DEF Row
<1>4. date \in Int
  BY Numbers
<1>5. CASE row.attempt + 1 >= 5
  <2> DEFINE dead == [base EXCEPT !.status = "Dead"]
  <2>1. FailedRow(utcNow, jitter) = Saved(dead)
    BY <1>1, <1>5, DefaultPolicyFacts DEF FailedRow
  <2>2. /\ dead \in Row /\ dead.status = "Dead" /\ dead.attempt = row.attempt + 1
        /\ dead.version = row.version /\ dead.lockedUntil = NoDate /\ dead.next = NoDate
    <3> HIDE DEF base
    <3> QED
      BY <1>3 DEF Row
  <2> HIDE DEF dead
  <2> QED
    BY <1>2, <1>5, <2>1, <2>2, SavedFields
<1>6. CASE ~(row.attempt + 1 >= 5)
  <2> DEFINE retried == [base EXCEPT !.status = "Scheduled", !.next = date]
  <2>1. row.attempt + 1 \in 1..5
    BY <1>2, <1>6
  <2>2. FailedRow(utcNow, jitter) = Saved(retried)
    BY <1>1, <1>6, <2>1, DefaultPolicyFacts DEF FailedRow
  <2>3. /\ retried \in Row /\ retried.status = "Scheduled" /\ retried.attempt = row.attempt + 1
        /\ retried.version = row.version /\ retried.lockedUntil = NoDate /\ retried.next = date
    <3> HIDE DEF base, date
    <3> QED
      BY <1>3, <1>4 DEF Row, Date
  <2> HIDE DEF retried
  <2>4. /\ FailedRow(utcNow, jitter) \in Row
        /\ FailedRow(utcNow, jitter).status = "Scheduled"
        /\ FailedRow(utcNow, jitter).next = date
        /\ FailedRow(utcNow, jitter).attempt = row.attempt + 1
        /\ FailedRow(utcNow, jitter).version = row.version + 1
        /\ FailedRow(utcNow, jitter).lockedUntil = NoDate
    BY <2>2, <2>3, SavedFields
  <2> QED
    BY <1>2, <1>4, <1>6, <2>4 DEF date
<1> QED
  BY <1>5, <1>6

LEMMA CapturedFields ==
  ASSUME TimelineInv, NEW kind \in Kind, NEW utcNow \in Nat
  PROVE  LET captured == Captured(kind, utcNow)
         IN  /\ captured \in Row
             /\ captured.status = "Executing"
             /\ captured.lockedUntil = LockUntil(kind, utcNow)
             /\ captured.next = NoDate /\ captured.attempt = row.attempt
             /\ captured.scheduledAt = IF kind = "check" THEN row.scheduledAt ELSE row.next
             /\ captured.version = row.version + 1
<1> DEFINE planned == IF kind = "check" THEN row.scheduledAt ELSE row.next
           until   == LockUntil(kind, utcNow)
           captured == Captured(kind, utcNow)
<1>1. row \in Row /\ row.version + 1 \in Nat /\ NoDate \in Date /\ until \in Date /\ planned \in Date
  BY RowFacts, LockIsDate DEF Date
<1>2. captured = [row EXCEPT !.status = "Executing", !.lockedUntil = until, !.next = NoDate,
                             !.scheduledAt = planned, !.version = row.version + 1]
  BY <1>1 DEF Captured
<1> HIDE DEF planned, until, captured
<1>3. captured \in Row
  BY <1>1, <1>2 DEF Row
<1>4. /\ captured.status = "Executing" /\ captured.lockedUntil = until
      /\ captured.next = NoDate /\ captured.attempt = row.attempt
      /\ captured.scheduledAt = planned /\ captured.version = row.version + 1
  BY <1>1, <1>2 DEF Row
<1> QED
  BY <1>3, <1>4 DEF planned, until, captured

LEMMA PutBackFields ==
  ASSUME TimelineInv, NEW w \in Worker
  PROVE  /\ PutBack(w) \in Row
         /\ PutBack(w).status = "Scheduled" /\ PutBack(w).lockedUntil = NoDate
         /\ PutBack(w).next \in Int
         /\ PutBack(w).attempt = row.attempt /\ PutBack(w).version = row.version + 1
<1> DEFINE date == worker[w].began + Interval
           back == [row EXCEPT !.status = "Scheduled", !.next = date, !.lockedUntil = NoDate]
<1>1. row \in Row /\ NoDate \in Date /\ date \in Int /\ date \in Date
  BY RowFacts, CallerFacts, Numbers DEF Date
<1>2. PutBack(w) = Saved(back)
  BY DEF PutBack
<1> HIDE DEF date
<1>3. /\ back \in Row /\ back.status = "Scheduled" /\ back.lockedUntil = NoDate
      /\ back.next = date /\ back.attempt = row.attempt /\ back.version = row.version
  BY <1>1 DEF Row
<1> HIDE DEF back
<1> QED
  BY <1>1, <1>2, <1>3, SavedFields

LEMMA ReplannedFields ==
  ASSUME TimelineInv, NEW w \in Worker, worker[w].planned \in Int
  PROVE  /\ Replanned(w) \in Row
         /\ Replanned(w).status = "Scheduled" /\ Replanned(w).lockedUntil = NoDate
         /\ Replanned(w).next = GetNextOccurrence(worker[w].planned)
         /\ Replanned(w).next \in Int
         /\ Replanned(w).attempt = row.attempt /\ Replanned(w).version = row.version + 1
<1> DEFINE date == GetNextOccurrence(worker[w].planned)
           anew == [row EXCEPT !.status = "Scheduled", !.next = date,
                               !.lockedUntil = NoDate, !.scheduledAt = NoDate]
<1>1. row \in Row /\ NoDate \in Date /\ date \in Int /\ date \in Date
  BY RowFacts, NextOccurrenceDate DEF Date
<1>2. Replanned(w) = Saved(anew)
  BY DEF Replanned
<1> HIDE DEF date
<1>3. /\ anew \in Row /\ anew.status = "Scheduled" /\ anew.lockedUntil = NoDate
      /\ anew.next = date /\ anew.attempt = row.attempt /\ anew.version = row.version
  BY <1>1 DEF Row
<1> HIDE DEF anew
<1> QED
  BY <1>1, <1>2, <1>3, SavedFields DEF date

LEMMA EndedFields ==
  ASSUME TimelineInv
  PROVE  /\ Ended \in Row /\ Ended.status = "Completed" /\ Ended.lockedUntil = NoDate
         /\ Ended.next = row.next /\ Ended.attempt = row.attempt
         /\ Ended.version = row.version + 1
<1> DEFINE done == [row EXCEPT !.status = "Completed", !.lockedUntil = NoDate]
<1>1. row \in Row /\ NoDate \in Date
  BY RowFacts DEF Date
<1>2. /\ done \in Row /\ done.status = "Completed" /\ done.lockedUntil = NoDate
      /\ done.next = row.next /\ done.attempt = row.attempt /\ done.version = row.version
  BY <1>1 DEF Row
<1>3. Ended = Saved(done)
  BY DEF Ended
<1> HIDE DEF done
<1> QED
  BY <1>2, <1>3, SavedFields

-----------------------------------------------------------------------------
(* Every step keeps the invariant.                                         *)

\* A worker that takes no part: its copy is of the row as it was.
LEMMA OthersOK ==
  ASSUME TimelineInv, task' = task, now' = now,
         row' = row \/ row'.version = row.version + 1,
         NEW v \in Worker, worker'[v] = worker[v]
  PROVE  WorkerOK(v)'
<1>1. WorkerOK(v) /\ worker[v].version \in Nat /\ row.version \in Nat
  BY CallerFacts, RowFacts
<1>2. CASE row' = row
  BY <1>1, <1>2 DEF WorkerOK, Holds, Waits, LockUntil
<1>3. CASE row'.version = row.version + 1
  <2>1. worker[v].pc = "calling" => worker[v].version # row'.version
    BY <1>1, <1>3 DEF WorkerOK
  <2> QED
    BY <1>1, <1>3, <2>1 DEF WorkerOK, Holds, Waits
<1> QED
  BY <1>2, <1>3

\* A row that another one replaces, its task and its successful runs as they were.
LEMMA RowReplaced ==
  ASSUME TimelineInv, task' = task, now' = now,
         row' \in Row, row'.version = row.version + 1,
         worker' \in [Worker -> WorkerState],
         runs' \in [DOMAIN runs' -> Nat], DOMAIN runs' \subseteq Int
  PROVE  Shapes'
BY DEF TimelineInv, Shapes, Row, WorkerState, Date

LEMMA IdleShape == Idle \in WorkerState /\ Idle.pc = "idle"
BY Kinds DEF Idle, WorkerState, Date

LEMMA IdleOK ==
  ASSUME NEW w \in Worker, worker'[w] = Idle
  PROVE  WorkerOK(w)'
<1>1. worker'[w].pc = "idle"
  BY IdleShape
<1> QED
  BY <1>1 DEF WorkerOK

LEMMA TickKeeps ==
  ASSUME TimelineInv, Tick
  PROVE  TimelineInv'
<1>1. now' = now + 1 /\ now + 1 \in 0..Horizon /\ UNCHANGED <<task, row, worker, runs>>
  BY Numbers DEF Tick, TimelineInv, Shapes
<1>2. Shapes'
  BY <1>1 DEF TimelineInv, Shapes, Row, WorkerState, Date
<1>3. DatesOK'
  <2>1. /\ row.status = "Queued" => row.next \in Int
        /\ row.status = "Executing" /\ task.type # "Polling" => row.scheduledAt \in Int
    BY RowFacts DEF TimelineInv, DatesOK, Date
  <2> QED
    BY <1>1, <2>1, RowFacts DEF TimelineInv, DatesOK
<1>4. ASSUME NEW w \in Worker
      PROVE  WorkerOK(w)'
  <2>1. WorkerOK(w) /\ InTime(w) /\ worker'[w] = worker[w]
    BY <1>1, CallerFacts DEF Tick
  <2>2. /\ worker[w].pc = "begun" => now < worker[w].began + Waits(worker[w].kind)
        /\ worker[w].pc = "calling" => now < worker[w].asked + task.timeout
    <3>1. CASE worker[w].pc = "begun"
      BY <2>1, <3>1 DEF InTime
    <3>2. CASE worker[w].pc = "calling"
      BY <2>1, <3>2 DEF InTime
    <3> QED
      BY <3>1, <3>2
  <2>3. Waits(worker[w].kind) \in Nat /\ task.timeout \in Nat
    BY RowFacts, TaskFacts, CallerFacts, Kinds
  <2>4. /\ Waits(worker[w].kind)' = Waits(worker[w].kind) /\ (Holds(w)' <=> Holds(w))
        /\ LockUntil(worker[w].kind, worker[w].began)' = LockUntil(worker[w].kind, worker[w].began)
    BY <1>1 DEF Waits, Holds, LockUntil
  <2> QED
    BY <1>1, <2>1, <2>2, <2>3, <2>4, CallerFacts, RowFacts DEF WorkerOK
<1>5. AttemptsOK' /\ GridOK'
  BY <1>1 DEF TimelineInv, AttemptsOK, GridOK, OnGrid, GetNextOccurrence, NextFitting
<1> QED
  BY <1>2, <1>3, <1>4, <1>5 DEF TimelineInv

LEMMA GridSame ==
  ASSUME task' = task
  PROVE  /\ \A base : GetNextOccurrence(base)' = GetNextOccurrence(base)
         /\ \A d : OnGrid(d)' <=> OnGrid(d)
BY DEF OnGrid, GetNextOccurrence, NextFitting

LEMMA RunSchedulingFields ==
  ASSUME TimelineInv, RunScheduling
  PROVE  /\ row.status = "Scheduled" /\ row.next <= now
         /\ row' \in Row /\ row'.version = row.version + 1 /\ row'.status = "Queued"
         /\ row'.next = row.next /\ row'.lockedUntil = row.lockedUntil
         /\ row'.attempt = row.attempt /\ row'.scheduledAt = row.scheduledAt
         /\ UNCHANGED <<task, now, worker, runs>>
<1> DEFINE queued == [row EXCEPT !.status = "Queued"]
<1>1. /\ row.status = "Scheduled" /\ row.next <= now /\ row' = Saved(queued)
      /\ UNCHANGED <<task, now, worker, runs>>
  BY DEF RunScheduling
<1>2. /\ queued \in Row /\ queued.version = row.version /\ queued.status = "Queued"
      /\ queued.next = row.next /\ queued.lockedUntil = row.lockedUntil
      /\ queued.attempt = row.attempt /\ queued.scheduledAt = row.scheduledAt
  BY RowFacts DEF Row
<1> HIDE DEF queued
<1> QED
  BY <1>1, <1>2, SavedFields

LEMMA RunSchedulingKeeps ==
  ASSUME TimelineInv, RunScheduling
  PROVE  TimelineInv'
<1>1. /\ row.status = "Scheduled" /\ row.next <= now
      /\ UNCHANGED <<task, now, worker, runs>>
  BY RunSchedulingFields
<1>2. /\ row' \in Row /\ row'.version = row.version + 1 /\ row'.status = "Queued"
      /\ row'.next = row.next /\ row'.lockedUntil = row.lockedUntil
      /\ row'.attempt = row.attempt /\ row'.scheduledAt = row.scheduledAt
  BY RunSchedulingFields
<1>3. Shapes'
  BY <1>1, <1>2, RowReplaced DEF TimelineInv, Shapes
<1>4. DatesOK'
  BY <1>1, <1>2 DEF TimelineInv, DatesOK
<1>5. \A w \in Worker : WorkerOK(w)'
  BY <1>1, <1>2, OthersOK
<1>6. AttemptsOK' /\ GridOK'
  BY <1>1, <1>2, GridSame DEF TimelineInv, AttemptsOK, GridOK
<1> QED
  BY <1>3, <1>4, <1>5, <1>6 DEF TimelineInv

\* A worker gives up, or skips a message: the task is as it was.
LEMMA BackToIdleKeeps ==
  ASSUME TimelineInv, NEW w \in Worker, worker' = [worker EXCEPT ![w] = Idle],
         UNCHANGED <<task, now, row, runs>>
  PROVE  TimelineInv'
<1>1. \A v \in Worker : worker'[v] = IF v = w THEN Idle ELSE worker[v]
  BY DEF TimelineInv, Shapes
<1>2. Shapes'
  BY IdleShape DEF TimelineInv, Shapes, Row, WorkerState, Date
<1>3. \A v \in Worker : WorkerOK(v)'
  BY <1>1, IdleOK, OthersOK
<1>4. DatesOK' /\ AttemptsOK' /\ GridOK'
  BY GridSame DEF TimelineInv, DatesOK, AttemptsOK, GridOK
<1> QED
  BY <1>2, <1>3, <1>4 DEF TimelineInv

LEMMA BeginKeeps ==
  ASSUME TimelineInv, NEW w \in Worker, Begin(w)
  PROVE  TimelineInv'
<1>1. PICK kind \in Kind :
        /\ kind = "check" => CanAcquire(kind, now)
        /\ worker' = [worker EXCEPT ![w] = Begun(kind)]
  BY DEF Begin
<1> DEFINE begun == Begun(kind)
<1>0. UNCHANGED <<task, now, row, runs>>
  BY DEF Begin
<1>2. begun \in WorkerState /\ begun.pc = "begun" /\ begun.began = now /\ begun.kind = kind
  BY RowFacts DEF Begun, Idle, WorkerState, Date
<1> HIDE DEF begun
<1>3. \A v \in Worker : worker'[v] = IF v = w THEN begun ELSE worker[v]
  BY <1>1 DEF TimelineInv, Shapes, begun
<1>4. Shapes'
  <2>1. worker' \in [Worker -> WorkerState]
    BY <1>1, <1>2 DEF TimelineInv, Shapes, begun
  <2> QED
    BY <1>0, <2>1 DEF TimelineInv, Shapes, Row, WorkerState, Date
<1>5. WorkerOK(w)'
  <2>1. Waits(kind) \in Nat /\ Waits(kind)' = Waits(kind)
    BY Kinds DEF Waits
  <2>2. kind = "check" => task.type = "Polling"
    BY <1>1 DEF CanAcquire
  <2>3. worker'[w] = begun
    BY <1>3
  <2>4. Waits(worker'[w].kind) = Waits(kind)
    BY <1>2, <2>3
  <2> QED
    BY <1>0, <1>2, <2>1, <2>2, <2>3, <2>4, RowFacts DEF WorkerOK
<1>6. \A v \in Worker : WorkerOK(v)'
  BY <1>0, <1>3, <1>5, OthersOK
<1>7. DatesOK' /\ AttemptsOK' /\ GridOK'
  BY <1>0, GridSame DEF TimelineInv, DatesOK, AttemptsOK, GridOK
<1> QED
  BY <1>4, <1>6, <1>7 DEF TimelineInv

\* The capture, by field.
LEMMA TryAcquireFields ==
  ASSUME TimelineInv, NEW w \in Worker, TryAcquire(w)
  PROVE  /\ row' \in Row /\ row'.status = "Executing" /\ row'.next = NoDate
         /\ row'.lockedUntil = LockUntil(worker[w].kind, worker[w].began)
         /\ row'.attempt = row.attempt
         /\ row'.scheduledAt = IF worker[w].kind = "check" THEN row.scheduledAt ELSE row.next
         /\ row'.version = row.version + 1
         /\ worker' \in [Worker -> WorkerState]
         /\ \A v \in Worker \ {w} : worker'[v] = worker[v]
         /\ worker'[w].pc = "calling" /\ worker'[w].kind = worker[w].kind
         /\ worker'[w].began = worker[w].began
         /\ worker'[w].asked = now /\ worker'[w].version = row'.version
         /\ worker'[w].planned = row'.scheduledAt
         /\ UNCHANGED <<task, now, runs>>
         /\ worker[w].pc = "begun"
         /\ IF worker[w].kind = "check" THEN task.type = "Polling" /\ row.status = "Scheduled"
                                        ELSE row.status = "Queued"
<1> DEFINE captured == Captured(worker[w].kind, worker[w].began)
           ver  == captured.version
           plan == captured.scheduledAt
           mine == [worker[w] EXCEPT !.pc = "calling", !.asked = now,
                                     !.version = ver, !.planned = plan]
<1>1. /\ row' = captured /\ UNCHANGED <<task, now, runs>>
      /\ worker' = [worker EXCEPT ![w] = mine]
      /\ worker[w].pc = "begun" /\ CanAcquire(worker[w].kind, worker[w].began)
  BY DEF TryAcquire, TimelineInv, Shapes
<1>2. worker[w].kind \in Kind /\ worker[w].began \in Nat
  BY CallerFacts
<1>3. /\ captured \in Row /\ captured.status = "Executing" /\ captured.next = NoDate
      /\ captured.lockedUntil = LockUntil(worker[w].kind, worker[w].began)
      /\ captured.attempt = row.attempt
      /\ captured.scheduledAt = IF worker[w].kind = "check" THEN row.scheduledAt ELSE row.next
      /\ captured.version = row.version + 1
  BY <1>2, CapturedFields
<1>4. ver \in Nat /\ plan \in Date /\ now \in Nat /\ worker[w] \in WorkerState
  <2> HIDE DEF captured
  <2> QED
    BY <1>3, RowFacts, CallerFacts DEF Row
<1>5. /\ mine \in WorkerState /\ mine.pc = "calling" /\ mine.kind = worker[w].kind
      /\ mine.began = worker[w].began
      /\ mine.asked = now /\ mine.version = ver /\ mine.planned = plan
  <2> HIDE DEF ver, plan
  <2>1. mine \in WorkerState
    BY <1>4 DEF WorkerState
  <2> QED
    BY <1>4, <2>1 DEF WorkerState
<1>6. IF worker[w].kind = "check" THEN task.type = "Polling" /\ row.status = "Scheduled"
                                  ELSE row.status = "Queued"
  BY <1>1, <1>2, Kinds DEF CanAcquire
<1> HIDE DEF captured, mine
<1>7. /\ worker' \in [Worker -> WorkerState] /\ worker'[w] = mine
      /\ \A v \in Worker \ {w} : worker'[v] = worker[v]
  BY <1>1, <1>5 DEF TimelineInv, Shapes
<1> QED
  BY <1>1, <1>3, <1>5, <1>6, <1>7

LEMMA TryAcquireKeeps ==
  ASSUME TimelineInv, NEW w \in Worker, TryAcquire(w)
  PROVE  TimelineInv'
<1> DEFINE kind == worker[w].kind
<1>1. Shapes'
  BY TryAcquireFields, RowReplaced DEF TimelineInv, Shapes
<1>2. /\ worker[w].pc = "begun" /\ worker[w].kind \in Kind /\ WorkerOK(w)
      /\ worker[w].began \in Nat
  BY TryAcquireFields, CallerFacts
<1>3. kind = "message" => row.next \in Int /\ row.next <= now
  <2>1. kind = "message" => row.status = "Queued"
    BY TryAcquireFields
  <2> QED
    BY <2>1, RowFacts DEF TimelineInv, DatesOK
<1>4. task.type # "Polling" => kind = "message"
  BY <1>2, Kinds DEF WorkerOK
<1>5. DatesOK'
  <2>1. LockUntil(kind, worker[w].began) # NoDate
    BY <1>2, LockIsDate
  <2>2. /\ row'.status = "Executing" /\ row'.next = NoDate
        /\ row'.lockedUntil = LockUntil(kind, worker[w].began)
        /\ row'.scheduledAt = IF kind = "check" THEN row.scheduledAt ELSE row.next
        /\ task' = task /\ now' = now
    BY TryAcquireFields
  <2> HIDE DEF kind
  <2> QED
    BY <1>3, <1>4, <2>1, <2>2, Numbers DEF DatesOK
<1>6. WorkerOK(w)'
  <2>1. /\ worker[w].began <= now /\ now <= worker[w].began + Waits(kind)
        /\ kind = "check" => task.type = "Polling"
        /\ task.timeout \in Nat /\ now \in Nat
    BY <1>2, RowFacts, TaskFacts DEF WorkerOK
  <2>2. /\ worker'[w].pc = "calling" /\ worker'[w].kind = kind
        /\ worker'[w].began = worker[w].began /\ worker'[w].asked = now
        /\ worker'[w].version = row'.version /\ worker'[w].planned = row'.scheduledAt
        /\ row'.status = "Executing"
        /\ row'.lockedUntil = LockUntil(kind, worker[w].began)
        /\ row'.scheduledAt = IF kind = "check" THEN row.scheduledAt ELSE row.next
        /\ row'.version \in Nat /\ task' = task /\ now' = now
    <3>1. row' \in Row
      BY TryAcquireFields
    <3> QED
      BY <3>1, TryAcquireFields DEF Row
  <2>3. /\ Waits(worker'[w].kind) = Waits(kind)
        /\ LockUntil(worker'[w].kind, worker'[w].began) = LockUntil(kind, worker[w].began)
    BY <2>2
  <2>4. /\ worker'[w].planned = row'.scheduledAt
        /\ kind = "message" => row'.scheduledAt \in Int /\ row'.scheduledAt <= worker'[w].asked
    BY <1>3, <2>2
  <2> HIDE DEF kind
  <2> QED
    BY <2>1, <2>2, <2>3, <2>4 DEF WorkerOK
<1>7. \A v \in Worker : WorkerOK(v)'
  BY <1>6, TryAcquireFields, OthersOK
<1>8. AttemptsOK'
  BY TryAcquireFields DEF TimelineInv, AttemptsOK
<1>9. GridOK'
  <2>1. task.type = "Periodic" => row'.scheduledAt = row.next /\ row.next # NoDate
    BY <1>3, <1>4, TryAcquireFields, Numbers
  <2>2. /\ row'.status = "Executing" /\ row'.next = NoDate /\ row'.attempt = row.attempt
        /\ UNCHANGED <<task, now, runs>>
    BY TryAcquireFields
  <2> QED
    BY <2>1, <2>2, GridSame DEF TimelineInv, GridOK
<1> QED
  BY <1>1, <1>5, <1>7, <1>8, <1>9 DEF TimelineInv

\* The heartbeat and a worker's failure: one more attempt counts.
LEMMA FailureKeeps ==
  ASSUME TimelineInv, row.status = "Executing", NEW utcNow \in Nat, NEW jitter \in 0..MaxJitter,
         row' = FailedRow(utcNow, jitter), UNCHANGED <<task, now, runs>>,
         worker' \in [Worker -> WorkerState], \A w \in Worker : worker'[w] \in {worker[w], Idle}
  PROVE  TimelineInv'
<1> DEFINE failed == FailedRow(utcNow, jitter)
<1>1. /\ failed \in Row
      /\ failed.attempt = row.attempt + 1 /\ failed.attempt <= 5
      /\ failed.version = row.version + 1
      /\ failed.lockedUntil = NoDate
      /\ \/ failed.status = "Dead" /\ failed.attempt = 5 /\ failed.next = NoDate
         \/ /\ failed.status = "Scheduled" /\ failed.attempt < 5
            /\ failed.next = utcNow + DefaultInterval + jitter
            /\ failed.next \in Int
  BY FailedRowFields
<1> HIDE DEF failed
<1>2. row' = failed
  BY DEF failed
<1>3. Shapes'
  BY <1>1, <1>2, RowReplaced DEF TimelineInv, Shapes
<1>4. DatesOK'
  BY <1>1, <1>2, Numbers DEF DatesOK
<1>5. \A w \in Worker : WorkerOK(w)'
  BY <1>1, <1>2, IdleOK, OthersOK
<1>6. AttemptsOK'
  BY <1>1, <1>2, RowFacts DEF AttemptsOK
<1>7. GridOK'
  <2>1. row'.attempt # 0
    BY <1>1, <1>2, RowFacts
  <2> QED
    BY <2>1 DEF TimelineInv, GridOK
<1> QED
  BY <1>3, <1>4, <1>5, <1>6, <1>7 DEF TimelineInv

\* A check of a polling task, whether it has succeeded or failed.
LEMMA PutBackKeeps ==
  ASSUME TimelineInv, NEW w \in Worker,
         worker[w].pc = "calling", worker[w].kind = "check", Holds(w),
         row' = PutBack(w), worker' = [worker EXCEPT ![w] = Idle],
         UNCHANGED <<task, now, runs>>
  PROVE  TimelineInv'
<1>1. /\ row' \in Row /\ row'.status = "Scheduled" /\ row'.lockedUntil = NoDate
      /\ row'.next \in Int /\ row'.attempt = row.attempt /\ row'.version = row.version + 1
  BY PutBackFields
<1>2. row.status = "Executing" /\ task.type = "Polling"
  BY CallerFacts DEF WorkerOK
<1>3. /\ worker' \in [Worker -> WorkerState]
      /\ \A v \in Worker : worker'[v] = IF v = w THEN Idle ELSE worker[v]
  BY IdleShape DEF TimelineInv, Shapes
<1>4. Shapes'
  BY <1>1, <1>3, RowReplaced DEF TimelineInv, Shapes
<1>5. DatesOK'
  BY <1>1, Numbers DEF DatesOK
<1>6. \A v \in Worker : WorkerOK(v)'
  BY <1>1, <1>3, IdleOK, OthersOK
<1>7. AttemptsOK'
  BY <1>1, <1>2 DEF TimelineInv, AttemptsOK
<1>8. GridOK'
  BY <1>2 DEF GridOK
<1> QED
  BY <1>4, <1>5, <1>6, <1>7, <1>8 DEF TimelineInv

\* A run recorded as a success, by field.
LEMMA SuccessFields ==
  ASSUME TimelineInv, NEW w \in Worker, RecordSuccess(w), worker[w].kind = "message"
  PROVE  LET d == worker[w].planned
         IN  /\ row.status = "Executing" /\ d = row.scheduledAt /\ d \in Int /\ d <= now
             /\ row.scheduledAt <= worker[w].asked
             /\ DOMAIN runs' = DOMAIN runs \cup {d} /\ runs' \in [DOMAIN runs' -> Nat]
             /\ \A e \in DOMAIN runs \ {d} : runs'[e] = runs[e]
             /\ runs'[d] = IF d \in DOMAIN runs THEN runs[d] + 1 ELSE 1
             /\ row' \in Row /\ row'.version = row.version + 1
             /\ row'.attempt = row.attempt /\ row'.lockedUntil = NoDate
             /\ \/ /\ task.type # "Periodic" /\ row'.status = "Completed" /\ row'.next = NoDate
                \/ /\ task.type = "Periodic" /\ row'.status = "Scheduled"
                   /\ row'.next = GetNextOccurrence(d) /\ row'.next \in Int
             /\ UNCHANGED <<task, now>>
             /\ worker' \in [Worker -> WorkerState]
             /\ \A v \in Worker : worker'[v] = IF v = w THEN Idle ELSE worker[v]
<1> DEFINE d == worker[w].planned
<1>1. /\ worker[w].pc = "calling" /\ Holds(w) /\ UNCHANGED <<task, now>>
      /\ row' = Succeeded(w) /\ worker' = [worker EXCEPT ![w] = Idle]
      /\ runs' = [e \in DOMAIN runs \cup {d} |->
                    IF e # d THEN runs[e] ELSE IF d \in DOMAIN runs THEN runs[d] + 1 ELSE 1]
  BY DEF RecordSuccess
<1>2. /\ row.status = "Executing" /\ d = row.scheduledAt
      /\ row.scheduledAt \in Int /\ row.scheduledAt <= worker[w].asked
      /\ worker[w].asked \in Nat /\ worker[w].asked <= now
  BY <1>1, CallerFacts DEF WorkerOK
<1>3. d \in Int /\ d <= now /\ row.next = NoDate
  BY <1>2, RowFacts DEF TimelineInv, DatesOK
<1>4. /\ DOMAIN runs' = DOMAIN runs \cup {d}
      /\ \A e \in DOMAIN runs \ {d} : runs'[e] = runs[e]
      /\ runs'[d] = IF d \in DOMAIN runs THEN runs[d] + 1 ELSE 1
  BY <1>1
<1>5. runs' \in [DOMAIN runs' -> Nat]
  <2>1. \A e \in DOMAIN runs : runs[e] \in Nat
    BY DEF TimelineInv, Shapes
  <2>2. \A e \in DOMAIN runs' : runs'[e] \in Nat
    BY <1>4, <2>1
  <2> QED
    BY <1>1, <2>2
<1>6. /\ worker' \in [Worker -> WorkerState]
      /\ \A v \in Worker : worker'[v] = IF v = w THEN Idle ELSE worker[v]
  BY <1>1, IdleShape DEF TimelineInv, Shapes
<1>7. CASE task.type # "Periodic"
  <2>1. row' = Ended
    BY <1>1, <1>7 DEF Succeeded
  <2> QED
    BY <1>1, <1>2, <1>3, <1>4, <1>5, <1>6, <1>7, <2>1, EndedFields
<1>8. CASE task.type = "Periodic"
  <2>1. row' = Replanned(w)
    BY <1>1, <1>8 DEF Succeeded
  <2> QED
    BY <1>1, <1>2, <1>3, <1>4, <1>5, <1>6, <1>8, <2>1, ReplannedFields
<1> QED
  BY <1>7, <1>8

LEMMA SuccessKeeps ==
  ASSUME TimelineInv, NEW w \in Worker, RecordSuccess(w), worker[w].kind = "message"
  PROVE  TimelineInv'
<1> DEFINE d == worker[w].planned
<1>1. Shapes'
  <2>1. /\ row' \in Row /\ row'.version = row.version + 1 /\ task' = task /\ now' = now
        /\ worker' \in [Worker -> WorkerState]
        /\ runs' \in [DOMAIN runs' -> Nat] /\ d \in Int
        /\ DOMAIN runs' = DOMAIN runs \cup {d}
    BY SuccessFields
  <2>2. DOMAIN runs' \subseteq Int
    BY <2>1 DEF TimelineInv, Shapes
  <2> QED
    BY <2>1, <2>2, RowReplaced
<1>2. DatesOK'
  <2>1. /\ row'.lockedUntil = NoDate
        /\ \/ row'.status = "Completed" /\ row'.next = NoDate
           \/ row'.status = "Scheduled" /\ row'.next \in Int
    BY SuccessFields
  <2> QED
    BY <2>1, Numbers DEF DatesOK
<1>3. \A v \in Worker : WorkerOK(v)'
  BY SuccessFields, IdleOK, OthersOK
<1>4. AttemptsOK'
  BY SuccessFields DEF TimelineInv, AttemptsOK
<1>5. GridOK'
  <2>1. /\ row.status = "Executing" /\ d = row.scheduledAt /\ d \in Int
        /\ DOMAIN runs' = DOMAIN runs \cup {d}
        /\ row'.attempt = row.attempt /\ task' = task
        /\ row'.status # "Executing"
        /\ row'.next # NoDate => row'.next = GetNextOccurrence(d)
    BY SuccessFields
  <2> HIDE DEF d
  <2>2. ASSUME row'.attempt = 0, task.type = "Periodic"
        PROVE  /\ \A e \in DOMAIN runs' : OnGrid(e)
               /\ row'.next # NoDate => OnGrid(row'.next)
    <3>1. OnGrid(d) /\ \A e \in DOMAIN runs : OnGrid(e)
      BY <2>1, <2>2 DEF TimelineInv, GridOK
    <3>2. OnGrid(GetNextOccurrence(d))
      BY <2>1, <3>1, RowFacts, GridGoesOn
    <3> QED
      BY <2>1, <3>1, <3>2
  <2> QED
    BY <2>1, <2>2, GridSame DEF GridOK
<1> QED
  BY <1>1, <1>2, <1>3, <1>4, <1>5 DEF TimelineInv

LEMMA RecordSuccessKeeps ==
  ASSUME TimelineInv, NEW w \in Worker, RecordSuccess(w)
  PROVE  TimelineInv'
<1>1. CASE worker[w].kind = "check"
  <2>1. /\ worker[w].pc = "calling" /\ Holds(w) /\ row' = PutBack(w)
        /\ worker' = [worker EXCEPT ![w] = Idle] /\ UNCHANGED <<task, now, runs>>
    BY <1>1 DEF RecordSuccess, Succeeded
  <2> QED
    BY <1>1, <2>1, PutBackKeeps
<1>2. CASE worker[w].kind = "message"
  BY <1>2, SuccessKeeps
<1> QED
  BY <1>1, <1>2, CallerFacts, Kinds

LEMMA RecordFailureKeeps ==
  ASSUME TimelineInv, NEW w \in Worker, RecordFailure(w)
  PROVE  TimelineInv'
<1>1. /\ worker[w].pc = "calling" /\ Holds(w) /\ UNCHANGED <<task, now, runs>>
      /\ worker' = [worker EXCEPT ![w] = Idle]
  BY DEF RecordFailure
<1>2. CASE worker[w].kind = "check"
  <2>1. row' = PutBack(w)
    BY <1>2 DEF RecordFailure
  <2> QED
    BY <1>1, <1>2, <2>1, PutBackKeeps
<1>3. CASE worker[w].kind # "check"
  <2>1. PICK jitter \in 0..MaxJitter : row' = FailedRow(worker[w].began, jitter)
    BY <1>3 DEF RecordFailure
  <2>2. row.status = "Executing" /\ worker[w].began \in Nat
    BY <1>1, CallerFacts DEF WorkerOK
  <2>3. /\ worker' \in [Worker -> WorkerState]
        /\ \A v \in Worker : worker'[v] \in {worker[v], Idle}
    BY <1>1, IdleShape DEF TimelineInv, Shapes
  <2> QED
    BY <1>1, <2>1, <2>2, <2>3, FailureKeeps
<1> QED
  BY <1>2, <1>3

LEMMA RunHeartbeatKeeps ==
  ASSUME TimelineInv, RunHeartbeat
  PROVE  TimelineInv'
<1>1. row.status = "Executing" /\ UNCHANGED <<task, now, worker, runs>>
  BY DEF RunHeartbeat
<1>2. PICK jitter \in 0..MaxJitter : row' = FailedRow(now, jitter)
  BY DEF RunHeartbeat
<1>3. worker' \in [Worker -> WorkerState] /\ now \in Nat
  BY <1>1, RowFacts DEF TimelineInv, Shapes
<1> QED
  BY <1>1, <1>2, <1>3, FailureKeeps

LEMMA NextKeeps ==
  ASSUME TimelineInv, [Next]_vars
  PROVE  TimelineInv'
<1>1. CASE UNCHANGED vars
  <2>1. UNCHANGED <<task, now, row, worker, runs>>
    BY <1>1 DEF vars
  <2>2. \A w \in Worker : WorkerOK(w)'
    BY <2>1, OthersOK
  <2>3. Shapes' /\ DatesOK' /\ AttemptsOK' /\ GridOK'
    BY <2>1, GridSame
    DEF TimelineInv, Shapes, Row, WorkerState, Date, DatesOK, AttemptsOK, GridOK
  <2> QED
    BY <2>2, <2>3 DEF TimelineInv
<1>2. ASSUME NEW w \in Worker, Skip(w) \/ Drop(w)
      PROVE  TimelineInv'
  BY <1>2, BackToIdleKeeps DEF Skip, Drop
<1> QED
  BY <1>1, <1>2, TickKeeps, RunSchedulingKeeps, BeginKeeps, TryAcquireKeeps,
     RecordSuccessKeeps, RecordFailureKeeps, RunHeartbeatKeeps DEF Next

LEMMA InitTimelineInv == Init => TimelineInv
<1> SUFFICES ASSUME Init PROVE TimelineInv
  OBVIOUS
<1>1. task \in Description /\ now = 0 /\ now \in 0..Horizon
  BY Numbers DEF Init
<1>2. task.type \in {"OneTime", "Periodic", "Polling"} /\ task.period \in Nat \ {0}
  BY <1>1, TimelineAssumption
<1> DEFINE first == GetNextOccurrence(0)
<1>3. first \in Int
  <2>1. NextFitting(0) \in Int
    BY <1>2 DEF NextFitting
  <2>2. task.mode \in {"offset", "cron", "absolute"}
    BY <1>1, TimelineAssumption
  <2>3. CASE task.mode = "absolute"
    BY <1>2, <2>3 DEF GetNextOccurrence
  <2>4. CASE task.mode = "offset"
    BY <1>2, <2>4 DEF GetNextOccurrence
  <2>5. CASE task.mode = "cron"
    BY <2>1, <2>5 DEF GetNextOccurrence
  <2> QED
    BY <2>2, <2>3, <2>4, <2>5
<1>4. row = [status |-> "Scheduled", next |-> first, scheduledAt |-> NoDate,
             lockedUntil |-> NoDate, attempt |-> 0, policy |-> Written(task.policy),
             version |-> 1]
  BY DEF Init, NewRow
<1> HIDE DEF first
<1>5. /\ row \in Row /\ row.status = "Scheduled" /\ row.next = first
      /\ row.lockedUntil = NoDate /\ row.attempt = 0
  BY <1>3, <1>4 DEF Row, Date
<1>6. DOMAIN runs = {} /\ runs \in [DOMAIN runs -> Nat]
  BY DEF Init
<1>7. worker = [w \in Worker |-> Idle] /\ worker \in [Worker -> WorkerState]
  BY IdleShape DEF Init
<1>8. Shapes
  BY <1>1, <1>5, <1>6, <1>7 DEF Shapes
<1>9. DatesOK /\ AttemptsOK
  BY <1>3, <1>5, Numbers DEF DatesOK, AttemptsOK
<1>10. \A w \in Worker : WorkerOK(w)
  BY <1>7, IdleShape DEF WorkerOK
<1>11. GridOK
  <2>1. OnGrid(first)
    BY <1>8, GridGoesOn DEF first
  <2> QED
    BY <1>5, <1>6, <2>1 DEF GridOK
<1> QED
  BY <1>8, <1>9, <1>10, <1>11 DEF TimelineInv

-----------------------------------------------------------------------------
(* Captures.                                                               *)

\* One handler holds the task at most, and one that has lost it has used its time up.
Captures ==
  /\ \A v, w \in Calling : Holds(v) /\ Holds(w) => v = w
  /\ \A w \in Calling : Holds(w) \/ now >= Reserved(w)

\* The lock lasts as long as the handler has its task to itself.
LEMMA LockIsReserved ==
  ASSUME TimelineInv, NEW w \in Calling
  PROVE  /\ LockUntil(worker[w].kind, worker[w].began) = Reserved(w)
         /\ Reserved(w) \in Int
<1>1. worker[w].kind \in {"message", "check"} /\ worker[w].began \in Nat
  BY CallerFacts, Kinds DEF Calling
<1>2. CASE worker[w].kind = "message"
  BY <1>1, <1>2, Numbers DEF LockUntil, Reserved
<1>3. CASE worker[w].kind = "check"
  BY <1>1, <1>3, Numbers DEF LockUntil, Reserved
<1> QED
  BY <1>1, <1>2, <1>3

LEMMA HolderFacts ==
  ASSUME TimelineInv, NEW w \in Calling, Holds(w)
  PROVE  row.status = "Executing" /\ row.lockedUntil = Reserved(w)
<1>1. w \in Worker /\ worker[w].pc = "calling" /\ WorkerOK(w)
  BY CallerFacts DEF Calling
<1> QED
  BY <1>1, LockIsReserved DEF WorkerOK

\* Nobody's copy has a version that is still to come.
LEMMA VersionsPast ==
  ASSUME TimelineInv, NEW w \in Calling
  PROVE  worker[w].version # row.version + 1
<1>1. /\ w \in Worker /\ worker[w].pc = "calling" /\ WorkerOK(w)
      /\ worker[w].version \in Nat /\ row.version \in Nat
  BY CallerFacts, RowFacts DEF Calling
<1> QED
  BY <1>1 DEF WorkerOK

\* What a result makes of the row, whichever it is.
LEMMA RecordFields ==
  ASSUME TimelineInv, NEW w \in Worker, RecordSuccess(w) \/ RecordFailure(w)
  PROVE  /\ row'.version = row.version + 1
         /\ (RecordSuccess(w) \/ worker[w].kind = "check") => row'.attempt = row.attempt
<1>1. worker[w].pc = "calling" /\ Holds(w)
  BY DEF RecordSuccess, RecordFailure
<1>2. row.status = "Executing" /\ worker[w].began \in Nat
  BY <1>1, CallerFacts DEF WorkerOK
<1>3. CASE worker[w].kind = "check"
  <2>1. row' = PutBack(w)
    BY <1>3 DEF RecordSuccess, RecordFailure, Succeeded
  <2> QED
    BY <2>1, PutBackFields
<1>4. CASE worker[w].kind # "check" /\ RecordSuccess(w)
  <2>1. worker[w].kind = "message"
    BY <1>4, CallerFacts, Kinds
  <2> QED
    BY <1>4, <2>1, SuccessFields
<1>5. CASE worker[w].kind # "check" /\ ~RecordSuccess(w)
  <2>1. PICK jitter \in 0..MaxJitter : row' = FailedRow(worker[w].began, jitter)
    BY <1>5 DEF RecordFailure
  <2>2. row'.version = row.version + 1
    BY <1>2, <2>1, FailedRowFields
  <2> QED
    BY <1>5, <2>2
<1> QED
  BY <1>3, <1>4, <1>5

LEMMA CapturesKept ==
  ASSUME TimelineInv, Captures, [Next]_vars
  PROVE  Captures'
<1> USE DEF Captures
<1>1. ASSUME Calling' \subseteq Calling, row' = row, now' \in Int, now' >= now,
             \A w \in Calling' : worker'[w] = worker[w]
      PROVE  Captures'
  <2>1. ASSUME NEW w \in Calling'
        PROVE  (Holds(w)' <=> Holds(w)) /\ Reserved(w)' = Reserved(w) /\ Reserved(w) \in Int
    BY <1>1, <2>1, LockIsReserved DEF Holds, Reserved
  <2>2. now \in Int
    BY RowFacts
  <2> QED
    BY <1>1, <2>1, <2>2
\* Nobody holds the task any more, and who did has used its time up.
<1>2. ASSUME Calling' \subseteq Calling, row'.version = row.version + 1, now' = now,
             \A w \in Calling' : worker'[w] = worker[w] /\ (Holds(w) => now >= Reserved(w))
      PROVE  Captures'
  <2>1. ASSUME NEW w \in Calling'
        PROVE  ~Holds(w)' /\ Reserved(w)' = Reserved(w)
    BY <1>2, <2>1, VersionsPast DEF Holds, Reserved
  <2> QED
    BY <1>2, <2>1
<1>3. ASSUME NEW w \in Worker, NEW state, state.pc # "calling", worker' = [worker EXCEPT ![w] = state]
      PROVE  /\ Calling' = Calling \ {w}
             /\ \A v \in Calling' : worker'[v] = worker[v]
  <2>1. \A v \in Worker : worker'[v] = IF v = w THEN state ELSE worker[v]
    BY <1>3 DEF TimelineInv, Shapes
  <2> QED
    BY <1>3, <2>1 DEF Calling
<1>4. now \in Int /\ now >= now
  BY RowFacts
<1>5. CASE Tick
  BY <1>1, <1>4, <1>5 DEF Tick, Calling
<1>6. CASE UNCHANGED vars
  BY <1>1, <1>4, <1>6 DEF vars, Calling
<1>7. CASE RunScheduling
  <2>1. /\ row.status = "Scheduled" /\ row'.version = row.version + 1
        /\ UNCHANGED <<now, worker>>
    BY <1>7, RunSchedulingFields
  <2>2. \A w \in Calling : ~Holds(w)
    BY <2>1, HolderFacts
  <2> QED
    BY <1>2, <2>1, <2>2 DEF Calling
<1>8. ASSUME NEW w \in Worker, Begin(w)
      PROVE  Captures'
  <2>1. PICK kind \in Kind : worker' = [worker EXCEPT ![w] = Begun(kind)]
    BY <1>8 DEF Begin
  <2>2. Begun(kind).pc # "calling" /\ UNCHANGED <<now, row>>
    BY <1>8 DEF Begun, Idle, Begin
  <2>3. Calling' \subseteq Calling /\ \A v \in Calling' : worker'[v] = worker[v]
    BY <1>3, <2>1, <2>2
  <2> QED
    BY <1>1, <1>4, <2>2, <2>3
<1>9. ASSUME NEW w \in Worker, Skip(w) \/ Drop(w)
      PROVE  Captures'
  <2>1. worker' = [worker EXCEPT ![w] = Idle] /\ UNCHANGED <<now, row>>
    BY <1>9 DEF Skip, Drop
  <2>2. Calling' \subseteq Calling /\ \A v \in Calling' : worker'[v] = worker[v]
    BY <1>3, <2>1, IdleShape
  <2> QED
    BY <1>1, <1>4, <2>1, <2>2
<1>10. ASSUME NEW w \in Worker, TryAcquire(w)
       PROVE  Captures'
  <2>1. /\ \A v \in Worker \ {w} : worker'[v] = worker[v]
        /\ worker'[w].version = row'.version /\ row'.version = row.version + 1
        /\ row.status # "Executing" /\ now' = now
    BY <1>10, TryAcquireFields
  <2>2. \A v \in Calling : ~Holds(v) /\ now >= Reserved(v) /\ worker[v].version # row.version + 1
    BY <2>1, HolderFacts, VersionsPast
  <2>3. ASSUME NEW v \in Calling', v # w
        PROVE  ~Holds(v)' /\ now' >= Reserved(v)'
    <3>1. worker'[v] = worker[v] /\ v \in Calling
      BY <2>1, <2>3 DEF Calling
    <3> QED
      BY <2>1, <2>2, <3>1 DEF Holds, Reserved
  <2>4. Holds(w)'
    BY <2>1 DEF Holds
  <2> QED
    BY <2>3, <2>4
<1>11. ASSUME NEW w \in Worker, RecordSuccess(w) \/ RecordFailure(w)
       PROVE  Captures'
  <2>1. /\ w \in Calling /\ Holds(w) /\ worker' = [worker EXCEPT ![w] = Idle] /\ now' = now
    BY <1>11 DEF RecordSuccess, RecordFailure, Calling
  <2>2. Calling' = Calling \ {w} /\ \A v \in Calling' : worker'[v] = worker[v]
    BY <1>3, <2>1, IdleShape
  <2>3. \A v \in Calling' : ~Holds(v)
    BY <2>1, <2>2
  <2>4. row'.version = row.version + 1
    BY <1>11, RecordFields
  <2> QED
    BY <1>2, <2>1, <2>2, <2>3, <2>4
<1>12. CASE RunHeartbeat
  <2>1. PICK jitter \in 0..MaxJitter : row' = FailedRow(now, jitter)
    BY <1>12 DEF RunHeartbeat
  <2>2. row.status = "Executing" /\ row.lockedUntil <= now /\ UNCHANGED <<now, worker>>
    BY <1>12 DEF RunHeartbeat
  <2>3. row'.version = row.version + 1
    BY <2>1, <2>2, RowFacts, FailedRowFields
  <2>4. \A w \in Calling : Holds(w) => now >= Reserved(w)
    BY <1>4, <2>2, HolderFacts, LockIsReserved
  <2> QED
    BY <1>2, <2>2, <2>3, <2>4 DEF Calling
<1> QED
  BY <1>5, <1>6, <1>7, <1>8, <1>9, <1>10, <1>11, <1>12 DEF Next

-----------------------------------------------------------------------------
(* Failures.                                                               *)

\* The steps that count an attempt: the heartbeat's and a message's failure.
LEMMA AttemptCounted ==
  ASSUME TimelineInv, [Next]_vars, row'.attempt > row.attempt
  PROVE  \/ RunHeartbeat
         \/ \E w \in Worker : RecordFailure(w) /\ worker[w].kind = "message"
<1>0. ~(row.attempt > row.attempt)
  BY RowFacts
<1>1. ~(Tick \/ UNCHANGED vars)
  BY <1>0 DEF Tick, vars
<1>2. ~RunScheduling
  BY <1>0, RunSchedulingFields
<1>3. \A w \in Worker : ~(Begin(w) \/ Skip(w) \/ Drop(w))
  BY <1>0 DEF Begin, Skip, Drop
<1>4. \A w \in Worker : ~TryAcquire(w)
  BY <1>0, TryAcquireFields
<1>5. \A w \in Worker : ~RecordSuccess(w)
  BY <1>0, RecordFields
<1>6. \A w \in Worker : RecordFailure(w) => worker[w].kind = "message"
  BY <1>0, RecordFields, CallerFacts, Kinds
<1> QED
  BY <1>1, <1>2, <1>3, <1>4, <1>5, <1>6 DEF Next

LEMMA IdleBefore ==
  ASSUME TimelineInv, NEW w \in Worker, RecordFailure(w)
  PROVE  worker' # worker
<1>1. worker[w].pc = "calling" /\ worker' = [worker EXCEPT ![w] = Idle]
  BY DEF RecordFailure
<1>2. worker'[w].pc = "idle"
  BY <1>1, IdleShape DEF TimelineInv, Shapes
<1> QED
  BY <1>1, <1>2

\* A retry is late by what its handler spent, at most.
LEMMA RetryLate ==
  ASSUME TimelineInv, [Next]_vars, row'.attempt > row.attempt, row'.status = "Scheduled"
  PROVE  row'.next >= now + GetRetryDelay(Read(row.policy), row'.attempt) - (Slack + task.timeout)
<1>1. now \in Nat /\ task.timeout \in Nat /\ Slack \in Nat /\ DefaultInterval \in Nat
  BY RowFacts, TaskFacts, Numbers
<1>2. ASSUME NEW utcNow \in Nat, NEW jitter \in 0..MaxJitter, row.status = "Executing",
             row' = FailedRow(utcNow, jitter), utcNow >= now - (Slack + task.timeout)
      PROVE  row'.next >= now + GetRetryDelay(Read(row.policy), row'.attempt)
                              - (Slack + task.timeout)
  <2>1. /\ row'.attempt = row.attempt + 1 /\ row'.attempt <= 5
        /\ row'.next = utcNow + DefaultInterval + jitter
    BY <1>2, FailedRowFields
  <2>2. row'.attempt \in 1..5 /\ Read(row.policy) = DefaultPolicy
    BY <2>1, RowFacts
  <2>3. GetRetryDelay(Read(row.policy), row'.attempt) = DefaultInterval
    BY <2>2, DefaultPolicyFacts
  <2>4. jitter \in Nat
    BY Numbers
  <2> QED
    BY <1>1, <1>2, <2>1, <2>3, <2>4
<1>3. CASE RunHeartbeat
  <2>1. PICK jitter \in 0..MaxJitter : row' = FailedRow(now, jitter)
    BY <1>3 DEF RunHeartbeat
  <2>2. row.status = "Executing" /\ now >= now - (Slack + task.timeout)
    BY <1>1, <1>3 DEF RunHeartbeat
  <2> QED
    BY <1>1, <1>2, <2>1, <2>2
<1>4. ASSUME NEW w \in Worker, RecordFailure(w), worker[w].kind = "message"
      PROVE  row'.next >= now + GetRetryDelay(Read(row.policy), row'.attempt)
                              - (Slack + task.timeout)
  <2>1. PICK jitter \in 0..MaxJitter : row' = FailedRow(worker[w].began, jitter)
    BY <1>4 DEF RecordFailure
  <2>2. worker[w].pc = "calling" /\ Holds(w)
    BY <1>4 DEF RecordFailure
  <2>3. /\ row.status = "Executing" /\ worker[w].began \in Nat /\ worker[w].asked \in Nat
        /\ worker[w].asked <= worker[w].began + Slack
        /\ now <= worker[w].asked + task.timeout
    BY <1>4, <2>2, CallerFacts, Kinds DEF WorkerOK
  <2>4. worker[w].began >= now - (Slack + task.timeout)
    BY <1>1, <2>3
  <2> QED
    BY <1>2, <2>1, <2>3, <2>4
<1> QED
  BY <1>3, <1>4, AttemptCounted

-----------------------------------------------------------------------------
(* One run per date.                                                       *)

\* The date of the next run is later than that of every run so far.
Ahead ==
  \A d \in DOMAIN runs :
    /\ runs[d] = 1
    /\ d <= now
    /\ row.status \in {"Scheduled", "Queued"} => d < row.next
    /\ row.status = "Executing" => d < row.scheduledAt

\* A periodic task on an offset schedule is ahead until an attempt fails, and after it
\* if no capture waits for longer than the retry; other tasks have one run in all.
DatesGoOn ==
  /\ task.type = "Periodic" /\ task.mode = "offset"
       /\ (row.attempt = 0 \/ Slack <= DefaultInterval) => Ahead
  /\ task.type # "Periodic" =>
       \A d \in DOMAIN runs : runs[d] = 1 /\ row.status = "Completed"

LEMMA AheadFailure ==
  ASSUME TimelineInv, Ahead, row.status = "Executing", task.type = "Periodic",
         NEW utcNow \in Nat, row.scheduledAt <= utcNow + DefaultInterval,
         NEW jitter \in 0..MaxJitter, row' = FailedRow(utcNow, jitter),
         UNCHANGED <<task, now, runs>>
  PROVE  Ahead'
<1>1. row.scheduledAt \in Int
  BY RowFacts DEF TimelineInv, DatesOK, Date
<1>2. \/ row'.status = "Dead"
      \/ row'.status = "Scheduled" /\ row'.next = utcNow + DefaultInterval + jitter
  BY FailedRowFields
<1>3. \A d \in DOMAIN runs : d \in Int /\ d < row.scheduledAt /\ runs[d] = 1 /\ d <= now
  BY DEF Ahead, TimelineInv, Shapes
<1>4. \A d \in DOMAIN runs : d < utcNow + DefaultInterval + jitter
  <2>1. DefaultInterval \in Int /\ jitter \in Nat
    BY Numbers
  <2> QED
    BY <1>1, <1>3, <2>1
<1> QED
  BY <1>2, <1>3, <1>4 DEF Ahead

LEMMA OtherTasks ==
  ASSUME TimelineInv, DatesGoOn, [Next]_vars, task.type # "Periodic"
  PROVE  DatesGoOn'
<1>1. \A d \in DOMAIN runs : runs[d] = 1 /\ row.status = "Completed"
  BY DEF DatesGoOn
<1>2. ASSUME UNCHANGED <<task, row, runs>>
      PROVE  DatesGoOn'
  BY <1>1, <1>2 DEF DatesGoOn
<1>3. ASSUME row.status # "Completed", UNCHANGED <<task, runs>>
      PROVE  DatesGoOn'
  BY <1>1, <1>3 DEF DatesGoOn
<1>4. CASE Tick \/ UNCHANGED vars
  BY <1>2, <1>4 DEF Tick, vars
<1>5. CASE RunScheduling
  BY <1>3, <1>5 DEF RunScheduling
<1>6. ASSUME NEW w \in Worker, Begin(w) \/ Skip(w) \/ Drop(w)
      PROVE  DatesGoOn'
  BY <1>2, <1>6 DEF Begin, Skip, Drop
<1>7. ASSUME NEW w \in Worker, TryAcquire(w)
      PROVE  DatesGoOn'
  BY <1>3, <1>7, TryAcquireFields
<1>8. ASSUME NEW w \in Worker, RecordSuccess(w), worker[w].kind = "message"
      PROVE  DatesGoOn'
  <2> DEFINE d == worker[w].planned
  <2>1. /\ row.status = "Executing" /\ DOMAIN runs' = DOMAIN runs \cup {d}
        /\ runs'[d] = IF d \in DOMAIN runs THEN runs[d] + 1 ELSE 1
        /\ row'.status = "Completed" /\ task' = task
    BY <1>8, SuccessFields
  <2> HIDE DEF d
  <2>2. DOMAIN runs = {}
    BY <1>1, <2>1
  <2> QED
    BY <2>1, <2>2 DEF DatesGoOn
<1>9. ASSUME NEW w \in Worker,
             RecordFailure(w) \/ (RecordSuccess(w) /\ worker[w].kind = "check")
      PROVE  DatesGoOn'
  <2>1. worker[w].pc = "calling" /\ Holds(w) /\ UNCHANGED <<task, runs>>
    BY <1>9 DEF RecordFailure, RecordSuccess
  <2>2. row.status = "Executing"
    BY <2>1, CallerFacts DEF WorkerOK
  <2> QED
    BY <1>3, <2>1, <2>2
<1>10. CASE RunHeartbeat
  BY <1>3, <1>10 DEF RunHeartbeat
<1>11. \A w \in Worker : worker[w].kind \in {"message", "check"}
  BY CallerFacts, Kinds
<1>12. \A w \in Worker : RecordSuccess(w) => DatesGoOn'
  BY <1>8, <1>9, <1>11
<1> QED
  BY <1>4, <1>5, <1>6, <1>7, <1>9, <1>10, <1>12 DEF Next

LEMMA PeriodicTasks ==
  ASSUME TimelineInv, Ahead, [Next]_vars, task.type = "Periodic", task.mode = "offset",
         row'.attempt = 0 \/ Slack <= DefaultInterval
  PROVE  Ahead'
<1>0. DOMAIN runs \subseteq Int /\ now \in Int /\ row.attempt \in Nat
  BY RowFacts DEF TimelineInv, Shapes
<1>1. CASE Tick
  BY <1>0, <1>1 DEF Tick, Ahead
<1>2. ASSUME UNCHANGED <<now, row, runs>>
      PROVE  Ahead'
  BY <1>2 DEF Ahead
<1>3. CASE RunScheduling
  <2>1. /\ row'.status = "Queued" /\ row'.next = row.next /\ row.status = "Scheduled"
        /\ UNCHANGED <<now, runs>>
    BY <1>3, RunSchedulingFields
  <2> QED
    BY <2>1 DEF Ahead
<1>4. ASSUME NEW w \in Worker, TryAcquire(w)
      PROVE  Ahead'
  <2>1. /\ row.status = "Queued" /\ row'.status = "Executing" /\ row'.scheduledAt = row.next
        /\ UNCHANGED <<now, runs>>
    BY <1>4, TryAcquireFields
  <2> QED
    BY <2>1 DEF Ahead
<1>5. \A w \in Worker : worker[w].pc = "calling" => worker[w].kind = "message"
  BY CallerFacts, Kinds DEF WorkerOK
<1>6. ASSUME NEW w \in Worker, RecordSuccess(w)
      PROVE  Ahead'
  <2> DEFINE d == worker[w].planned
  <2>0. worker[w].kind = "message"
    BY <1>5, <1>6 DEF RecordSuccess
  <2>1. /\ row.status = "Executing" /\ d = row.scheduledAt /\ d \in Int /\ d <= now
        /\ DOMAIN runs' = DOMAIN runs \cup {d}
        /\ \A e \in DOMAIN runs \ {d} : runs'[e] = runs[e]
        /\ runs'[d] = IF d \in DOMAIN runs THEN runs[d] + 1 ELSE 1
        /\ row'.status = "Scheduled" /\ row'.next = GetNextOccurrence(d)
        /\ now' = now
    BY <1>6, <2>0, SuccessFields
  <2> HIDE DEF d
  <2>2. \A e \in DOMAIN runs : e < d /\ e \in Int /\ runs[e] = 1 /\ e <= now
    BY <1>0, <2>1 DEF Ahead
  <2>3. d \notin DOMAIN runs
    BY <2>1, <2>2
  <2>4. \A e \in DOMAIN runs' : e \in Int /\ e <= d /\ runs'[e] = 1 /\ e <= now'
    BY <2>1, <2>2, <2>3
  <2>5. GetNextOccurrence(d) = d + task.period /\ task.period \in Nat \ {0}
    BY RowFacts, TaskFacts DEF GetNextOccurrence
  <2>6. \A e \in DOMAIN runs' : e < row'.next
    BY <2>1, <2>4, <2>5
  <2> QED
    BY <2>1, <2>4, <2>6 DEF Ahead
<1>7. ASSUME NEW w \in Worker, RecordFailure(w)
      PROVE  Ahead'
  <2>0. worker[w].kind = "message" /\ worker[w].kind # "check"
    BY <1>5, <1>7 DEF RecordFailure
  <2>1. PICK jitter \in 0..MaxJitter : row' = FailedRow(worker[w].began, jitter)
    BY <1>7, <2>0 DEF RecordFailure
  <2>2. /\ worker[w].pc = "calling" /\ Holds(w) /\ UNCHANGED <<task, now, runs>>
    BY <1>7 DEF RecordFailure
  <2>3. /\ row.status = "Executing" /\ worker[w].began \in Nat /\ worker[w].asked \in Nat
        /\ row.scheduledAt \in Int /\ row.scheduledAt <= worker[w].asked
        /\ worker[w].asked <= worker[w].began + Slack
    BY <2>0, <2>2, CallerFacts, Kinds DEF WorkerOK
  <2>4. row'.attempt = row.attempt + 1
    BY <2>1, <2>3, FailedRowFields
  <2>5. row.scheduledAt <= worker[w].began + DefaultInterval
    BY <1>0, <2>3, <2>4, Numbers
  <2> QED
    BY <2>1, <2>2, <2>3, <2>5, AheadFailure
<1>8. CASE RunHeartbeat
  <2>1. PICK jitter \in 0..MaxJitter : row' = FailedRow(now, jitter)
    BY <1>8 DEF RunHeartbeat
  <2>2. row.status = "Executing" /\ UNCHANGED <<task, now, runs>>
    BY <1>8 DEF RunHeartbeat
  <2>3. row.scheduledAt \in Int /\ row.scheduledAt <= now
    BY <2>2, RowFacts DEF TimelineInv, DatesOK, Date
  <2>4. row.scheduledAt <= now + DefaultInterval /\ now \in Nat
    BY <2>3, Numbers, RowFacts
  <2> QED
    BY <2>1, <2>2, <2>4, AheadFailure
<1>9. CASE UNCHANGED vars
  BY <1>2, <1>9 DEF vars
<1>10. ASSUME NEW w \in Worker, Begin(w) \/ Skip(w) \/ Drop(w)
       PROVE  Ahead'
  BY <1>2, <1>10 DEF Begin, Skip, Drop
<1> QED
  BY <1>1, <1>3, <1>4, <1>6, <1>7, <1>8, <1>9, <1>10 DEF Next

\* The description never changes, and attempts are only added to.
LEMMA TaskStays ==
  ASSUME TimelineInv, [Next]_vars
  PROVE  task' = task /\ (row'.attempt = 0 => row.attempt = 0)
<1>1. task' = task
  BY DEF Next, vars, Tick, RunScheduling, Begin, TryAcquire, Skip, RecordSuccess,
         RecordFailure, Drop, RunHeartbeat
<1>2. ASSUME NEW w \in Worker, RecordFailure(w), worker[w].kind # "check"
      PROVE  row'.attempt # 0
  <2>1. PICK jitter \in 0..MaxJitter : row' = FailedRow(worker[w].began, jitter)
    BY <1>2 DEF RecordFailure
  <2>2. worker[w].pc = "calling" /\ Holds(w)
    BY <1>2 DEF RecordFailure
  <2>3. row.status = "Executing" /\ worker[w].began \in Nat
    BY <2>2, CallerFacts DEF WorkerOK
  <2> QED
    BY <2>1, <2>3, FailedRowFields, RowFacts
<1>3. RunHeartbeat => row'.attempt # 0
  <2>1. ASSUME RunHeartbeat
        PROVE  row'.attempt # 0
    <3>1. PICK jitter \in 0..MaxJitter : row' = FailedRow(now, jitter)
      BY <2>1 DEF RunHeartbeat
    <3>2. row.status = "Executing" /\ now \in Nat
      BY <2>1, RowFacts DEF RunHeartbeat
    <3> QED
      BY <3>1, <3>2, FailedRowFields, RowFacts
  <2> QED
    BY <2>1
<1>4. Tick \/ UNCHANGED vars => row'.attempt = row.attempt
  BY DEF Tick, vars
<1>5. RunScheduling => row'.attempt = row.attempt
  BY RunSchedulingFields
<1>6. \A w \in Worker : Begin(w) \/ Skip(w) \/ Drop(w) => row'.attempt = row.attempt
  BY DEF Begin, Skip, Drop
<1>7. \A w \in Worker : TryAcquire(w) => row'.attempt = row.attempt
  BY TryAcquireFields
<1>8. \A w \in Worker : RecordSuccess(w) => row'.attempt = row.attempt
  BY RecordFields
<1>9. \A w \in Worker : RecordFailure(w) => row'.attempt = row.attempt \/ row'.attempt # 0
  BY <1>2, RecordFields
<1>10. row'.attempt = row.attempt \/ row'.attempt # 0
  BY <1>3, <1>4, <1>5, <1>6, <1>7, <1>8, <1>9 DEF Next
<1> QED
  BY <1>1, <1>10

LEMMA DatesGoOnKept ==
  ASSUME TimelineInv, DatesGoOn, [Next]_vars
  PROVE  DatesGoOn'
<1>1. task' = task /\ row.attempt \in Nat /\ (row'.attempt = 0 => row.attempt = 0)
  BY RowFacts, TaskStays
<1>2. CASE task.type # "Periodic"
  BY <1>2, OtherTasks
<1>3. CASE task.type = "Periodic"
  <2>1. task.mode = "offset" /\ (row'.attempt = 0 \/ Slack <= DefaultInterval) => Ahead'
    BY <1>1, <1>3, PeriodicTasks DEF DatesGoOn
  <2> QED
    BY <1>1, <1>3, <2>1 DEF DatesGoOn
<1> QED
  BY <1>2, <1>3

-----------------------------------------------------------------------------
(* The theorems.                                                           *)

LEMMA InitCaptures == Init => Captures
BY IdleShape DEF Init, Captures, Calling

LEMMA InitDatesGoOn == Init => DatesGoOn
BY DEF Init, DatesGoOn, Ahead

\* Whatever the clock, the workers and the heartbeat do, a handler keeps to its time
\* and its copy to its version, the attempts to the default policy, and the dates of
\* a periodic task without a failure to its schedule.
THEOREM TimelineInvariant == Spec => []TimelineInv
BY InitTimelineInv, NextKeeps, PTL DEF Spec

\* A task has a date exactly while it is Scheduled or Queued and a lock exactly while it
\* is Executing: no method of ScheduledTask forgets one of the two.
THEOREM TimelineTypeCorrect == Spec => []TypeOK
<1>1. ASSUME TimelineInv PROVE TypeOK
  BY <1>1 DEF TimelineInv, Shapes, DatesOK, Row, WorkerState, TypeOK
<1> QED
  BY <1>1, TimelineInvariant, PTL

\* Reschedule counts from the planned date: until an attempt fails, the dates of a periodic
\* task's runs stay on the schedule's grid, however late they are carried out.
THEOREM DatesOnGrid == Spec => []NoDrift
<1>1. ASSUME TimelineInv PROVE NoDrift
  BY <1>1 DEF TimelineInv, GridOK, OnGrid, NoDrift
<1> QED
  BY <1>1, TimelineInvariant, PTL

\* Whatever policies clients ask for, the attempts stay within the one that is read back
\* and the task dies of its last attempt: MarkFailed never asks GetRetryDelay for more.
THEOREM FailuresKeepPolicy == Spec => []FailuresFitPolicy
<1>1. ASSUME TimelineInv PROVE FailuresFitPolicy
  <2>1. MaxAttempts(Read(row.policy)) = 5
    BY <1>1, RowFacts, DefaultPolicyFacts
  <2> QED
    BY <1>1, <2>1 DEF TimelineInv, AttemptsOK, FailuresFitPolicy
<1> QED
  BY <1>1, TimelineInvariant, PTL

\* For all timeouts and batches, of two handlers inside a request for the task one has
\* lost it, and lost it after its time: the conditional captures and the heartbeat never
\* give the task away while TryAcquireQueuedTaskAsync's lock lasts.
THEOREM OneRunAtATime == Spec => []NoParallelRuns
<1>1. Captures => NoParallelRuns
  BY DEF Captures, NoParallelRuns
<1>2. TimelineInv /\ Captures /\ [Next]_vars => Captures'
  BY CapturesKept
<1> QED
  BY <1>1, <1>2, InitCaptures, TimelineInvariant, PTL DEF Spec

\* For all timeouts and batches, GetStaleExecutingTasksAsync finds a capture whose holder
\* still waits only where the request may outlast what was left of the holder's time.
THEOREM HungIsHung == Spec => HungOnly
<1>1. ASSUME TimelineInv, [Next]_vars,
             row.status = "Executing", row'.attempt > row.attempt, worker' = worker,
             NEW w \in Calling, Holds(w)
      PROVE  worker[w].asked + task.timeout >= Reserved(w)
  <2>1. RunHeartbeat
    BY <1>1, AttemptCounted, IdleBefore
  <2>2. row.lockedUntil <= now
    BY <2>1 DEF RunHeartbeat
  <2>3. row.lockedUntil = Reserved(w) /\ Reserved(w) \in Int
    BY <1>1, HolderFacts, LockIsReserved
  <2>4. /\ now <= worker[w].asked + task.timeout
        /\ now \in Int /\ worker[w].asked \in Nat /\ task.timeout \in Nat
    BY <1>1, CallerFacts, RowFacts, TaskFacts DEF WorkerOK, Calling
  <2> QED
    BY <2>2, <2>3, <2>4
<1>2. TimelineInv /\ [Next]_vars =>
        [row.status = "Executing" /\ row'.attempt > row.attempt /\ worker' = worker
           => \A w \in Calling : Holds(w) => worker[w].asked + task.timeout >= Reserved(w)]_vars
  BY <1>1
<1> QED
  BY <1>2, TimelineInvariant, PTL DEF Spec, HungOnly

\* For all timeouts, a retry is planned no earlier than its delay after the failure, but
\* for the time the handler of a message may have spent since it was called, which is
\* where RunExecutionCommandHandler counts from.
THEOREM RetriesWait == Spec => RetryNearlyWaits
<1>1. TimelineInv /\ [Next]_vars =>
        [row'.attempt > row.attempt /\ row'.status = "Scheduled"
           => row'.next >= now + GetRetryDelay(Read(row.policy), row'.attempt)
                               - (Slack + task.timeout)]_vars
  BY RetryLate
<1> QED
  BY <1>1, TimelineInvariant, PTL DEF Spec, RetryNearlyWaits

\* Reschedule and MarkFailed always move a task on an offset schedule to a date it has not
\* run at, unless a capture waited for longer than a retry; a task of another type that
\* goes through the queue runs once.
THEOREM OneRunPerDate == Spec => []DatesAdvance
<1>1. ASSUME TimelineInv, DatesGoOn PROVE DatesAdvance
  <2>1. (\A d \in DOMAIN runs : runs[d] = 1) => OncePerDate
    BY DEF OncePerDate
  <2>2. row.attempt \in Nat /\ Slack \in Nat /\ DefaultInterval \in Nat
    BY <1>1, RowFacts, Numbers
  <2>3. \/ task.type # "Periodic"
        \/ task.type = "Periodic" /\ task.mode # "offset"
        \/ row.attempt > 0 /\ Slack > DefaultInterval
        \/ /\ task.type = "Periodic" /\ task.mode = "offset"
           /\ row.attempt = 0 \/ Slack <= DefaultInterval
    BY <2>2
  <2> QED
    BY <1>1, <2>1, <2>3 DEF DatesGoOn, Ahead, DatesAdvance
<1>2. TimelineInv /\ DatesGoOn /\ [Next]_vars => DatesGoOn'
  BY DatesGoOnKept
<1> QED
  BY <1>1, <1>2, InitDatesGoOn, TimelineInvariant, PTL DEF Spec
=============================================================================
