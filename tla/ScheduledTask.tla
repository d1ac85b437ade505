---------------------------- MODULE ScheduledTask ----------------------------
(***************************************************************************)
(* The task aggregate (Domain/Entities/ScheduledTask.cs) as a row of the   *)
(* table tasks, and its transitions as functions from row to row.  A date  *)
(* is kept as the fact that it is set: whether it has been reached is the  *)
(* business of the module that owns the clock.  A transition method that   *)
(* throws outside its source statuses has its condition in Can...; the     *)
(* aggregate never touches version, the SQL of the repository does.        *)
(***************************************************************************)
EXTENDS Naturals

CONSTANT MaxAttempts   \* RetryPolicy.MaxAttempts, the number of intervals

ASSUME MaxAttemptsAssumption == MaxAttempts \in Nat \ {0}

\* "Absent" stands for a row that has not been inserted.
StatusTask == {"Absent", "Created", "Scheduled", "Queued", "Executing",
               "Completed", "Failed", "Dead", "Paused", "Cancelled"}

FinalStatuses == {"Completed", "Dead", "Cancelled"}

Row == [status      : StatusTask,
        next        : BOOLEAN,          \* NextExecutionAt is set
        lock        : BOOLEAN,          \* LockedUntil is set
        scheduledAt : BOOLEAN,          \* ScheduledAt is set
        attempt     : Nat,              \* CurrentAttempt
        version     : Nat]

AbsentRow == [status |-> "Absent", next |-> FALSE, lock |-> FALSE,
              scheduledAt |-> FALSE, attempt |-> 0, version |-> 0]

-----------------------------------------------------------------------------
(* The constructor, and the factory that schedules what it constructs.     *)

NewTask == [status |-> "Created", next |-> FALSE, lock |-> FALSE,
            scheduledAt |-> FALSE, attempt |-> 0, version |-> 1]

ScheduleTask(row) == [row EXCEPT !.status = "Scheduled", !.next = TRUE]

BuildTask == ScheduleTask(NewTask)

-----------------------------------------------------------------------------
(* The scheduler's and the execution handler's transitions.                *)

Enqueue(row) == [row EXCEPT !.status = "Queued"]

CompleteSuccessfully(row) ==
  [row EXCEPT !.status = "Completed", !.lock = FALSE]

\* Mutant: the lock of the last execution stays on the row.
RescheduleKeepingLock(row) ==
  [row EXCEPT !.status = "Scheduled", !.next = TRUE, !.scheduledAt = FALSE]

Reschedule(row) ==
  [row EXCEPT !.status = "Scheduled", !.next = TRUE, !.lock = FALSE,
              !.scheduledAt = FALSE]

\* The end of a polling check; unlike Reschedule it leaves ScheduledAt alone.
RescheduleAfterPolling(row) ==
  [row EXCEPT !.status = "Scheduled", !.next = TRUE, !.lock = FALSE]

\* The aggregate counts the attempt and decides between a retry and Dead.
MarkFailed(row) ==
  [row EXCEPT !.attempt = @ + 1, !.lock = FALSE,
              !.status  = IF row.attempt + 1 >= MaxAttempts THEN "Dead" ELSE "Failed"]

ScheduleRetry(row) ==
  [row EXCEPT !.status = "Scheduled", !.next = TRUE, !.lock = FALSE]

\* What both the execution handler and the heartbeat do with a failed attempt.
FailAttempt(row) ==
  LET failed == MarkFailed(row)
  IN  IF failed.status = "Failed" THEN ScheduleRetry(failed) ELSE failed

-----------------------------------------------------------------------------
(* The transitions a user asks for.                                        *)

\* Mutant: a task is paused that is already on its way to a worker.
CanPauseQueued(row) == row.status \in {"Scheduled", "Queued"}

CanPause(row)  == row.status = "Scheduled"
CanResume(row) == row.status = "Paused"
CanCancel(row) == row.status \notin FinalStatuses \cup {"Absent"}

Pause(row)  == [row EXCEPT !.status = "Paused"]
Resume(row) == [row EXCEPT !.status = "Scheduled"]
Cancel(row) == [row EXCEPT !.status = "Cancelled", !.lock = FALSE, !.next = FALSE,
                           !.scheduledAt = FALSE]

-----------------------------------------------------------------------------
(* The statements of the repository that write a row.                      *)

\* Mutant: an update that leaves the version as it was.
SavedSameVersion(row) == row

\* UPDATE tasks SET ..., version = version + 1 WHERE id AND version = expected.
Saved(row) == [row EXCEPT !.version = @ + 1]

\* Mutants: the capture leaves the version as it was, or takes no lock.
AcquireSameVersion(row) ==
  [row EXCEPT !.status = "Executing", !.lock = TRUE,
              !.scheduledAt = row.next, !.next = FALSE]

AcquireWithoutLock(row) ==
  Saved([row EXCEPT !.status = "Executing", !.scheduledAt = row.next, !.next = FALSE])

\* The atomic capture of a queued row: UPDATE ... WHERE status = Queued.
TryAcquireQueuedTask(row) ==
  Saved([row EXCEPT !.status = "Executing", !.lock = TRUE,
                    !.scheduledAt = row.next, !.next = FALSE])

\* Mutant: the capture for a check takes no lock.
AcquirePollingWithoutLock(row) ==
  Saved([row EXCEPT !.status = "Executing", !.next = FALSE])

\* The capture of a polling task: UPDATE ... WHERE status = Scheduled.
TryAcquirePollingTask(row) ==
  Saved([row EXCEPT !.status = "Executing", !.lock = TRUE, !.next = FALSE])
=============================================================================
