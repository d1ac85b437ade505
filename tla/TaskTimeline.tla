---------------------------- MODULE TaskTimeline ----------------------------
(***************************************************************************)
(* One task against the clock.  TaskEngine knows of a date only whether it *)
(* has been reached; here dates are numbers, and what is looked at is the  *)
(* arithmetic of the system: the next date a schedule gives, the delay of  *)
(* a retry and the policy it is taken from, how long a capture is locked,  *)
(* and how long the request it covers may take.  The queue, the relay and  *)
(* the users are left out: a message may come to a worker at any time.  A  *)
(* polling task is captured by a poller, or queued by the scheduler like   *)
(* any other and captured by a worker.                                     *)
(*                                                                         *)
(* The code's numbers are in seconds, an instance scales them down.        *)
(***************************************************************************)
EXTENDS Integers, Sequences

CONSTANTS
  Description,       \* the tasks a client may ask for
  Interval,          \* PollingConfig.IntervalSeconds
  DefaultTimeout,    \* 30, for a request without a timeout and for a lock
  Margin,            \* 5, what a worker's lock lasts longer than that
  DefaultInterval,   \* 60, of RetryPolicy.Default
  MaxJitter,         \* 15, added to a retry's delay
  Worker,            \* the handlers at work: of a message, or of a poller's batch
  Slack,             \* bound: a handler's own work before its request
  Before,            \* bound: what a poller spends on the batch's tasks before this one
  NoDate,            \* null
  Horizon            \* bound: the clock stops here

ASSUME TimelineAssumption ==
  /\ \A d \in Description :
       /\ d.type \in {"OneTime", "Periodic", "Polling"}
       /\ d.mode \in {"offset", "cron", "absolute"}
       /\ {d.period, d.timeout} \subseteq Nat \ {0}
       /\ d.policy \in Seq(Nat \ {0}) \ {<<>>}
  /\ {Interval, DefaultTimeout, DefaultInterval} \subseteq Nat \ {0}
  /\ {Margin, MaxJitter, Slack, Before, Horizon} \subseteq Nat
  /\ NoDate \notin Int

VARIABLES
  task,    \* the description: type, schedule (mode, period), retry policy, timeout
  now,     \* the clock of the database and of every process
  row,     \* the task
  worker,  \* what each worker is doing
  runs     \* how many successful runs of the queue each planned date has had

vars == <<task, now, row, worker, runs>>

-----------------------------------------------------------------------------
(* The retry policy and its way through the database.                      *)

DefaultPolicy == [i \in 1..5 |-> DefaultInterval]

MaxAttempts(policy) == Len(policy)

\* attempt counts from one.
GetRetryDelay(policy, attempt) == policy[attempt]

\* The repository serialises the property under its own name; the converter,
\* which only the reading side has, looks for the name in camel case.
Written(policy) == [IntervalsSeconds |-> policy]
Read(json) == IF "intervalsSeconds" \in DOMAIN json THEN json.intervalsSeconds
                                                    ELSE DefaultPolicy

-----------------------------------------------------------------------------
(* The schedule.                                                           *)

\* Cron's dates are the multiples of task.period; Cronos is asked for the next one
\* "inclusive", the base itself being one of them if it fits.
NextFitting(base) == task.period * ((base + task.period - 1) \div task.period)

GetNextOccurrence(base) ==
  CASE task.mode = "absolute" -> task.period
    [] task.mode = "offset"   -> base + task.period
    [] task.mode = "cron"     -> NextFitting(base)

-----------------------------------------------------------------------------
(* The data.                                                               *)

NewRow == [status |-> "Scheduled", next |-> GetNextOccurrence(0), scheduledAt |-> NoDate,
           lockedUntil |-> NoDate, attempt |-> 0, policy |-> Written(task.policy), version |-> 1]

\* What a handler works on: a message of the queue, or a task of a poller's batch.
Kind == {"message", "check"}

\* began is the time a handler took when it was called, asked the start of its
\* request, version and planned what its copy of the row says.
Idle        == [pc |-> "idle", kind |-> "message", began |-> 0, asked |-> 0, version |-> 0,
                planned |-> NoDate]
Begun(kind) == [Idle EXCEPT !.pc = "begun", !.kind = kind, !.began = now]

Date == Int \cup {NoDate}

\* A Queued row keeps its date, which the comment on NextExecutionAt denies
\* (NextDateWhenScheduled of TaskEngine).
TypeOK ==
  /\ task \in Description
  /\ now \in 0..Horizon
  /\ row.status \in {"Scheduled", "Queued", "Executing", "Completed", "Dead"}
  /\ {row.next, row.scheduledAt, row.lockedUntil} \subseteq Date
  /\ row.status \in {"Scheduled", "Queued"} <=> row.next # NoDate
  /\ row.status = "Executing" <=> row.lockedUntil # NoDate
  /\ \A w \in Worker : worker[w].pc \in {"idle", "begun", "calling"} /\ worker[w].kind \in Kind
  /\ \A d \in DOMAIN runs : runs[d] \in Nat

Init ==
  /\ task \in Description
  /\ now = 0
  /\ row = NewRow
  /\ worker = [w \in Worker |-> Idle]
  /\ runs = [d \in {} |-> 0]

-----------------------------------------------------------------------------
(* Time passes, but no handler takes longer than it may.                   *)

\* What a handler may spend before its request.
Waits(kind) == Slack + IF kind = "check" THEN Before ELSE 0

InTime(w) ==
  CASE worker[w].pc = "idle"    -> TRUE
    [] worker[w].pc = "begun"   -> now < worker[w].began + Waits(worker[w].kind)
    [] worker[w].pc = "calling" -> now < worker[w].asked + task.timeout

Tick ==
  /\ now < Horizon
  /\ \A w \in Worker : InTime(w)
  /\ now' = now + 1
  /\ UNCHANGED <<task, row, worker, runs>>

-----------------------------------------------------------------------------
(* Scheduler, workers, pollers and heartbeat.                              *)

\* UpdateAsync writes every column, the policy as it was read among them.
Saved(r) == [r EXCEPT !.policy = Written(Read(@)), !.version = @ + 1]

\* The type of the task makes no difference.
RunScheduling ==
  /\ row.status = "Scheduled"
  /\ row.next <= now
  /\ row' = Saved([row EXCEPT !.status = "Queued"])
  /\ UNCHANGED <<task, now, worker, runs>>

\* The condition of the capture, with the time the handler took.
CanAcquire(kind, utcNow) ==
  IF kind = "message" THEN row.status = "Queued"
  ELSE task.type = "Polling" /\ row.status = "Scheduled" /\ row.next <= utcNow

\* A message for the task arrives, be it an old one, or a batch is read that the
\* task is in.
Begin(w) ==
  /\ worker[w].pc = "idle"
  /\ \E kind \in Kind :
       /\ kind = "check" => CanAcquire(kind, now)
       /\ worker' = [worker EXCEPT ![w] = Begun(kind)]
  /\ UNCHANGED <<task, now, row, runs>>

\* Mutant: the lock is as long as the default timeout, without the margin.
LockWithoutMargin(kind, utcNow) == utcNow + DefaultTimeout

\* No caller passes the strategy's timeout on.
LockUntil(kind, utcNow) == utcNow + DefaultTimeout + IF kind = "check" THEN 0 ELSE Margin

\* Only the capture of a queued task remembers the planned date.
Captured(kind, utcNow) ==
  [row EXCEPT !.status = "Executing", !.lockedUntil = LockUntil(kind, utcNow), !.next = NoDate,
              !.scheduledAt = IF kind = "check" THEN @ ELSE row.next, !.version = @ + 1]

TryAcquire(w) ==
  LET captured == Captured(worker[w].kind, worker[w].began)
  IN  /\ worker[w].pc = "begun"
      /\ CanAcquire(worker[w].kind, worker[w].began)
      /\ row' = captured
      /\ worker' = [worker EXCEPT ![w].pc = "calling", ![w].asked = now,
                                  ![w].version = captured.version,
                                  ![w].planned = captured.scheduledAt]
      /\ UNCHANGED <<task, now, runs>>

Skip(w) ==
  /\ worker[w].pc = "begun"
  /\ ~CanAcquire(worker[w].kind, worker[w].began)
  /\ worker' = [worker EXCEPT ![w] = Idle]
  /\ UNCHANGED <<task, now, row, runs>>

\* Mutant: as many retries as intervals, and the first attempt besides.
FailedRowLate(utcNow, jitter) ==
  LET policy  == Read(row.policy)
      attempt == row.attempt + 1
      failed  == [row EXCEPT !.attempt = attempt, !.lockedUntil = NoDate]
  IN  Saved(IF attempt > MaxAttempts(policy)
            THEN [failed EXCEPT !.status = "Dead"]
            ELSE [failed EXCEPT !.status = "Scheduled", !.next = utcNow + 1 + jitter])

\* Mutant: a retry is counted from the planned date, as the next regular run is.
FailedRowPlanned(utcNow, jitter) ==
  LET policy  == Read(row.policy)
      attempt == row.attempt + 1
      failed  == [row EXCEPT !.attempt = attempt, !.lockedUntil = NoDate]
      base    == IF row.scheduledAt = NoDate THEN utcNow ELSE row.scheduledAt
  IN  Saved(IF attempt >= MaxAttempts(policy)
            THEN [failed EXCEPT !.status = "Dead"]
            ELSE [failed EXCEPT !.status = "Scheduled",
                                !.next = base + GetRetryDelay(policy, attempt) + jitter])

\* The attempt counts, and the policy that was read decides what follows.
FailedRow(utcNow, jitter) ==
  LET policy  == Read(row.policy)
      attempt == row.attempt + 1
      failed  == [row EXCEPT !.attempt = attempt, !.lockedUntil = NoDate]
  IN  Saved(IF attempt >= MaxAttempts(policy)
            THEN [failed EXCEPT !.status = "Dead"]
            ELSE [failed EXCEPT !.status = "Scheduled",
                                !.next = utcNow + GetRetryDelay(policy, attempt) + jitter])

\* Mutant: the lock stays on the row.
ReplannedLocked(w) ==
  Saved([row EXCEPT !.status = "Scheduled", !.next = GetNextOccurrence(worker[w].planned),
                    !.scheduledAt = NoDate])

\* Mutant: the next date is counted from the time the run began.
ReplannedFromNow(w) ==
  Saved([row EXCEPT !.status = "Scheduled", !.next = GetNextOccurrence(worker[w].began),
                    !.lockedUntil = NoDate, !.scheduledAt = NoDate])

\* The next date is counted from the planned one, not from now.
Replanned(w) ==
  Saved([row EXCEPT !.status = "Scheduled", !.next = GetNextOccurrence(worker[w].planned),
                    !.lockedUntil = NoDate, !.scheduledAt = NoDate])

Ended == Saved([row EXCEPT !.status = "Completed", !.lockedUntil = NoDate])

PutBack(w) == Saved([row EXCEPT !.status = "Scheduled", !.next = worker[w].began + Interval,
                                !.lockedUntil = NoDate])

Holds(w) == worker[w].version = row.version

\* A check goes back to its place; of the queue's tasks only a periodic one does.
Succeeded(w) ==
  CASE worker[w].kind = "check"                               -> PutBack(w)
    [] worker[w].kind = "message" /\ task.type = "Periodic" -> Replanned(w)
    [] worker[w].kind = "message" /\ task.type # "Periodic" -> Ended

RecordSuccess(w) ==
  LET d == worker[w].planned
  IN  /\ worker[w].pc = "calling"
      /\ Holds(w)
      /\ row' = Succeeded(w)
      /\ runs' = IF worker[w].kind = "check" THEN runs
                 ELSE [e \in DOMAIN runs \cup {d} |->
                         IF e # d THEN runs[e] ELSE IF d \in DOMAIN runs THEN runs[d] + 1 ELSE 1]
      /\ worker' = [worker EXCEPT ![w] = Idle]
      /\ UNCHANGED <<task, now>>

\* A failed check is recorded like any other.
RecordFailure(w) ==
  /\ worker[w].pc = "calling"
  /\ Holds(w)
  /\ IF worker[w].kind = "check" THEN row' = PutBack(w)
     ELSE \E jitter \in 0..MaxJitter : row' = FailedRow(worker[w].began, jitter)
  /\ worker' = [worker EXCEPT ![w] = Idle]
  /\ UNCHANGED <<task, now, runs>>

\* The row is no longer the handler's, or its process dies.
Drop(w) ==
  /\ worker[w].pc = "calling"
  /\ worker' = [worker EXCEPT ![w] = Idle]
  /\ UNCHANGED <<task, now, row, runs>>

RunHeartbeat ==
  /\ row.status = "Executing"
  /\ row.lockedUntil <= now
  /\ \E jitter \in 0..MaxJitter : row' = FailedRow(now, jitter)
  /\ UNCHANGED <<task, now, worker, runs>>

-----------------------------------------------------------------------------
Next ==
  \/ Tick
  \/ RunScheduling
  \/ \E w \in Worker : \/ Begin(w) \/ TryAcquire(w) \/ Skip(w)
                       \/ RecordSuccess(w) \/ RecordFailure(w) \/ Drop(w)
  \/ RunHeartbeat

Spec == Init /\ [][Next]_vars

-----------------------------------------------------------------------------
(* Properties.                                                             *)

Calling == {w \in Worker : worker[w].pc = "calling"}

\* How long a handler has its task to itself, whatever the request may take: 35
\* seconds from its start for a message, 30 for every check of a batch.
Reserved(w) == worker[w].began + DefaultTimeout + IF worker[w].kind = "message" THEN Margin ELSE 0

\* Two requests for one task are under way at the same time only if one of the two
\* handlers has used up its time and lost the task, which may happen to a request
\* with a longer timeout or one late in a batch; never while both are within their
\* time, whatever the scheduler, the heartbeat, retries, old messages and pollers do,
\* and whether a polling task is captured from the table or from the queue
\* (TryAcquireQueuedTaskAsync, TryAcquirePollingTaskAsync).
NoParallelRuns ==
  \A v, w \in Calling : v # w => \E u \in {v, w} : ~Holds(u) /\ now >= Reserved(u)

\* A capture whose handler still waits for its request is failed by the heartbeat only
\* if that request may last longer than what was left of the handler's time when it was
\* made: never a message's request of the default timeout that was made within the
\* margin (GetStaleExecutingTasksAsync, TryAcquireQueuedTaskAsync).
HungOnly ==
  [][row.status = "Executing" /\ row'.attempt > row.attempt /\ worker' = worker
       => \A w \in Calling : Holds(w) => worker[w].asked + task.timeout >= Reserved(w)]_vars

\* However late the workers are, the dates of a periodic task whose runs succeed
\* stay on the grid its schedule set when it was created (ScheduledTask.Reschedule,
\* "Вычисляем следующее время от запланированного, а не от текущего").
NoDrift ==
  task.type = "Periodic" /\ row.attempt = 0
    => \A d \in DOMAIN runs : (d - GetNextOccurrence(0)) % task.period = 0

\* A planned date has one successful run at most: a periodic task moves on to its
\* next date (ScheduledTask.Reschedule, Schedule.GetNextOccurrence).
OncePerDate == \A d \in DOMAIN runs : runs[d] <= 1

\* Where the schedule is an offset a planned date has one successful run at most,
\* whichever workers, retries and heartbeats meet on the way -- a polling task that
\* went through the queue and a one-time task have only one run in all.  What can come
\* between is a cron or absolute schedule (OncePerDate fails), or a retry whose delay
\* was over before the capture: counted from the handler's start, it may be planned
\* before the run that failed (ScheduledTask.Reschedule, RunExecutionCommandHandler).
DatesAdvance ==
  \/ OncePerDate
  \/ task.type = "Periodic" /\ task.mode # "offset"
  \/ row.attempt > 0 /\ Slack > DefaultInterval

\* The attempts stay within the policy that is read back, whose length need not be
\* that of the stored one: the last attempt it has is the one that kills, so that
\* GetRetryDelay is never asked for a delay the policy has not, by the worker or by
\* the heartbeat (ScheduledTask.MarkFailed, RetryPolicy.GetRetryDelay).
FailuresFitPolicy ==
  /\ row.attempt <= MaxAttempts(Read(row.policy))
  /\ row.status = "Dead" <=> row.attempt = MaxAttempts(Read(row.policy))

\* A retry waits for its policy's delay, less what the handler that failed has spent
\* since it was called: its wait for the capture and its request, and no more
\* (RunExecutionCommandHandler and RunHeartbeatCommandHandler, ScheduleRetry).
RetryNearlyWaits ==
  [][row'.attempt > row.attempt /\ row'.status = "Scheduled"
       => row'.next >= now + GetRetryDelay(Read(row.policy), row'.attempt)
                           - (Slack + task.timeout)]_vars

-----------------------------------------------------------------------------
(* What the documentation says, and the code does not do.                  *)

\* ITaskRepository.TryAcquireQueuedTaskAsync locks a task for its timeout and a buffer,
\* "чтобы другие воркеры не попытались выполнить его параллельно".
NeverParallel == \A v, w \in Calling : v = w

\* RunHeartbeatCommand recovers hung tasks ("зависшие"): none whose holder is still
\* waiting for the request.
OnlyHungFail ==
  [][row.status = "Executing" /\ row'.attempt > row.attempt /\ worker' = worker
       => \A w \in Calling : ~Holds(w)]_vars

\* A task dies of its failures exactly when there are as many as the client's policy
\* has intervals: RetryPolicy, "Количество попыток = длине массива интервалов".
DiesByItsPolicy ==
  /\ row.status = "Dead" => row.attempt = Len(task.policy)
  /\ row.attempt >= Len(task.policy) => row.status = "Dead"

\* ScheduledTask.MarkFailed, utcNow: "Время падения" -- the retry's delay is counted
\* from the failure.
RetryWaits ==
  [][row'.attempt > row.attempt /\ row'.status = "Scheduled"
       => row'.next >= now + GetRetryDelay(Read(row.policy), row'.attempt)]_vars
=============================================================================
