-------------------------- MODULE TaskEngineProofs --------------------------
(***************************************************************************)
(* Theorems about TaskEngine, for any number of tasks, workers, relays and *)
(* clients.  The argument: as long as an aggregate in memory that still    *)
(* has the row's version is the row (VersionIdentifiesRow), every update   *)
(* of a row is one of the aggregate's own transitions applied to the row   *)
(* (RowStep), and everything about a single row follows from those.        *)
(***************************************************************************)
EXTENDS TaskEngine, TLAPS

-----------------------------------------------------------------------------
(* The transitions of the aggregate, one row at a time.                    *)

\* Every transition, and the version that saving it adds, yields a row.
LEMMA SavedType ==
  ASSUME NEW row \in Row
  PROVE  Saved(row) \in Row
BY DEF Saved, Row

LEMMA MarkFailedType ==
  ASSUME NEW row \in Row
  PROVE  MarkFailed(row) \in Row
<1> DEFINE n == row.attempt + 1
           s == IF n >= MaxAttempts THEN "Dead" ELSE "Failed"
<1>1. n \in Nat
  BY DEF Row
<1>2. s \in StatusTask
  BY DEF StatusTask
<1>3. ASSUME NEW m \in Nat, NEW z \in StatusTask
      PROVE  [row EXCEPT !.attempt = m, !.lock = FALSE, !.status = z] \in Row
  BY DEF Row
<1>4. MarkFailed(row) = [row EXCEPT !.attempt = n, !.lock = FALSE, !.status = s]
  BY Zenon DEF MarkFailed
<1> HIDE DEF n, s
<1> QED
  BY <1>1, <1>2, <1>3, <1>4

\* A failed attempt is counted; it leaves the row Dead or waiting for a retry.
LEMMA FailAttemptFields ==
  ASSUME NEW row \in Row
  PROVE  /\ FailAttempt(row) \in Row
         /\ FailAttempt(row).attempt = row.attempt + 1
         /\ ~FailAttempt(row).lock
         /\ FailAttempt(row).version = row.version
         /\ row.attempt + 1 >= MaxAttempts =>
              FailAttempt(row).status = "Dead" /\ FailAttempt(row).next = row.next
         /\ row.attempt + 1 < MaxAttempts =>
              FailAttempt(row).status = "Scheduled" /\ FailAttempt(row).next
<1> DEFINE failed == MarkFailed(row)
<1>1. failed \in Row
  BY MarkFailedType
<1>2. /\ failed.attempt = row.attempt + 1
      /\ failed.lock = FALSE
      /\ failed.next = row.next
      /\ failed.version = row.version
      /\ failed.status = IF row.attempt + 1 >= MaxAttempts THEN "Dead" ELSE "Failed"
  BY DEF MarkFailed, Row
<1>3. ASSUME NEW r \in Row
      PROVE  /\ ScheduleRetry(r) \in Row
             /\ ScheduleRetry(r).status = "Scheduled"
             /\ ScheduleRetry(r).next = TRUE
             /\ ScheduleRetry(r).lock = FALSE
             /\ ScheduleRetry(r).attempt = r.attempt
             /\ ScheduleRetry(r).version = r.version
  BY DEF ScheduleRetry, Row, StatusTask
<1>4. FailAttempt(row) = IF failed.status = "Failed" THEN ScheduleRetry(failed) ELSE failed
  BY DEF FailAttempt
<1>5. row.attempt \in Nat /\ MaxAttempts \in Nat
  BY MaxAttemptsAssumption DEF Row
<1> HIDE DEF failed
<1>6. CASE row.attempt + 1 >= MaxAttempts
  <2>1. failed.status = "Dead" /\ FailAttempt(row) = failed
    BY <1>2, <1>4, <1>6
  <2>2. ~(row.attempt + 1 < MaxAttempts)
    BY <1>5, <1>6
  <2> QED
    BY <1>1, <1>2, <2>1, <2>2
<1>7. CASE ~(row.attempt + 1 >= MaxAttempts)
  <2>1. failed.status = "Failed" /\ FailAttempt(row) = ScheduleRetry(failed)
    BY <1>2, <1>4, <1>7
  <2> QED
    BY <1>1, <1>2, <1>3, <1>7, <2>1
<1> QED
  BY <1>6, <1>7

\* What a persisted row looks like, whatever its type.
RowOK(row) ==
  /\ row.lock <=> row.status = "Executing"
  /\ row.next <=> row.status \in {"Scheduled", "Queued", "Paused"}
  /\ row.status \notin {"Created", "Failed"}
  /\ row.attempt <= MaxAttempts
  /\ row.status = "Dead" <=> row.attempt = MaxAttempts
  /\ row.status = "Absent" => row = AbsentRow

\* One update of the row of task t, as the aggregate allows it.
RowStep(t, old, new) ==
  \/ old.status = "Absent" /\ new = BuildTask
  \/ old.status = "Scheduled" /\ new = Saved(Enqueue(old))
  \/ old.status = "Queued" /\ new = TryAcquireQueuedTask(old)
  \/ old.status = "Executing" /\ new = Saved(Finished(t, old))
  \/ old.status = "Executing" /\ new = Saved(FailAttempt(old))
  \/ \E op \in Operation : Allows(op, old) /\ new = Saved(Apply(op, old))

\* An update keeps the row well formed and makes its version grow.
LEMMA RowStepSound ==
  ASSUME NEW t \in Task, NEW old \in Row, NEW new,
         RowOK(old), RowStep(t, old, new)
  PROVE  /\ new \in Row
         /\ RowOK(new)
         /\ old.version < new.version
<1>0. old.version \in Nat /\ old.attempt \in Nat /\ MaxAttempts \in Nat \ {0}
  BY MaxAttemptsAssumption DEF Row
<1>1. CASE old.status = "Absent" /\ new = BuildTask
  <2>1. ASSUME NEW r \in Row
        PROVE  /\ ScheduleTask(r) \in Row
               /\ ScheduleTask(r).status = "Scheduled"
               /\ ScheduleTask(r).next = TRUE
               /\ ScheduleTask(r).lock = r.lock
               /\ ScheduleTask(r).attempt = r.attempt
               /\ ScheduleTask(r).version = r.version
    BY DEF ScheduleTask, Row, StatusTask
  <2>2. /\ NewTask \in Row
        /\ NewTask.lock = FALSE
        /\ NewTask.attempt = 0
        /\ NewTask.version = 1
    BY DEF NewTask, Row, StatusTask
  <2>3. new = ScheduleTask(NewTask)
    BY <1>1 DEF BuildTask
  <2>4. old.version = 0
    BY <1>1 DEF RowOK, AbsentRow
  <2>5. /\ new \in Row /\ new.status = "Scheduled" /\ new.lock = FALSE
        /\ new.next = TRUE /\ new.attempt = 0 /\ new.version = 1
    BY <2>1, <2>2, <2>3
  <2>6. RowOK(new)
    BY <1>0, <2>5 DEF RowOK
  <2> QED
    BY <2>4, <2>5, <2>6
<1>2. CASE old.status = "Scheduled" /\ new = Saved(Enqueue(old))
  <2>1. Enqueue(old) \in Row
    BY DEF Enqueue, Row, StatusTask
  <2>2. new \in Row
    BY <1>2, <2>1, SavedType
  <2>3. /\ new.status = "Queued" /\ new.lock = old.lock /\ new.next = old.next
        /\ new.attempt = old.attempt /\ new.version = old.version + 1
    BY <1>2 DEF Saved, Enqueue, Row
  <2> QED
    BY <1>0, <1>2, <2>2, <2>3 DEF RowOK
<1>3. CASE old.status = "Queued" /\ new = TryAcquireQueuedTask(old)
  <2> DEFINE got == [old EXCEPT !.status = "Executing", !.lock = TRUE,
                                !.scheduledAt = old.next, !.next = FALSE]
  <2>1. got \in Row
    BY DEF Row, StatusTask
  <2>2. new \in Row
    BY <1>3, <2>1, SavedType DEF TryAcquireQueuedTask
  <2>3. /\ new.status = "Executing" /\ new.lock = TRUE /\ new.next = FALSE
        /\ new.scheduledAt = old.next
        /\ new.attempt = old.attempt /\ new.version = old.version + 1
    BY <1>3 DEF TryAcquireQueuedTask, Saved, Row
  <2> QED
    BY <1>0, <1>3, <2>2, <2>3 DEF RowOK
<1>4. CASE old.status = "Executing" /\ new = Saved(Finished(t, old))
  <2>1. CASE t \in Periodic
    <3>1. Reschedule(old) \in Row
      BY DEF Reschedule, Row, StatusTask
    <3>2. new \in Row
      BY <1>4, <2>1, <3>1, SavedType DEF Finished
    <3>3. /\ new.status = "Scheduled" /\ new.lock = FALSE /\ new.next = TRUE
          /\ new.attempt = old.attempt /\ new.version = old.version + 1
      BY <1>4, <2>1 DEF Finished, Saved, Reschedule, Row
    <3> QED
      BY <1>0, <1>4, <3>2, <3>3 DEF RowOK
  <2>2. CASE t \notin Periodic
    <3>1. CompleteSuccessfully(old) \in Row
      BY DEF CompleteSuccessfully, Row, StatusTask
    <3>2. new \in Row
      BY <1>4, <2>2, <3>1, SavedType DEF Finished
    <3>3. /\ new.status = "Completed" /\ new.lock = FALSE /\ new.next = old.next
          /\ new.attempt = old.attempt /\ new.version = old.version + 1
      BY <1>4, <2>2 DEF Finished, Saved, CompleteSuccessfully, Row
    <3> QED
      BY <1>0, <1>4, <3>2, <3>3 DEF RowOK
  <2> QED
    BY <2>1, <2>2
<1>5. CASE old.status = "Executing" /\ new = Saved(FailAttempt(old))
  <2> DEFINE f == FailAttempt(old)
  <2>1. f \in Row
    BY FailAttemptFields
  <2>2. new \in Row
    BY <1>5, <2>1, SavedType
  <2>3. /\ new.status = f.status /\ new.lock = f.lock /\ new.next = f.next
        /\ new.attempt = f.attempt /\ new.version = f.version + 1
    BY <1>5, <2>1 DEF Saved, Row
  <2> HIDE DEF f
  <2>4. old.attempt + 1 <= MaxAttempts
    BY <1>0, <1>5 DEF RowOK
  <2>5. CASE old.attempt + 1 >= MaxAttempts
    BY <1>0, <1>5, <2>2, <2>3, <2>4, <2>5, FailAttemptFields DEF RowOK, f
  <2>6. CASE old.attempt + 1 < MaxAttempts
    BY <1>0, <1>5, <2>2, <2>3, <2>6, FailAttemptFields DEF RowOK, f
  <2> QED
    BY <1>0, <2>5, <2>6
<1>6. ASSUME NEW op \in Operation, Allows(op, old), new = Saved(Apply(op, old))
      PROVE  new \in Row /\ RowOK(new) /\ old.version < new.version
  <2>1. CASE op = "Pause"
    <3>1. new = Saved(Pause(old)) /\ old.status = "Scheduled"
      BY <1>6, <2>1 DEF Allows, Apply, CanPause
    <3>2. Pause(old) \in Row
      BY DEF Pause, Row, StatusTask
    <3>3. new \in Row
      BY <3>1, <3>2, SavedType
    <3>4. /\ new.status = "Paused" /\ new.lock = old.lock /\ new.next = old.next
          /\ new.attempt = old.attempt /\ new.version = old.version + 1
      BY <3>1 DEF Saved, Pause, Row
    <3> QED
      BY <1>0, <3>1, <3>3, <3>4 DEF RowOK
  <2>2. CASE op = "Resume"
    <3>1. new = Saved(Resume(old)) /\ old.status = "Paused"
      BY <1>6, <2>2 DEF Allows, Apply, CanResume
    <3>2. Resume(old) \in Row
      BY DEF Resume, Row, StatusTask
    <3>3. new \in Row
      BY <3>1, <3>2, SavedType
    <3>4. /\ new.status = "Scheduled" /\ new.lock = old.lock /\ new.next = old.next
          /\ new.attempt = old.attempt /\ new.version = old.version + 1
      BY <3>1 DEF Saved, Resume, Row
    <3> QED
      BY <1>0, <3>1, <3>3, <3>4 DEF RowOK
  <2>3. CASE op = "Cancel"
    <3>1. new = Saved(Cancel(old)) /\ old.status \notin FinalStatuses \cup {"Absent"}
      BY <1>6, <2>3 DEF Allows, Apply, CanCancel
    <3>2. Cancel(old) \in Row
      BY DEF Cancel, Row, StatusTask
    <3>3. new \in Row
      BY <3>1, <3>2, SavedType
    <3>4. /\ new.status = "Cancelled" /\ new.lock = FALSE /\ new.next = FALSE
          /\ new.attempt = old.attempt /\ new.version = old.version + 1
      BY <3>1 DEF Saved, Cancel, Row
    <3> QED
      BY <1>0, <3>1, <3>3, <3>4 DEF RowOK, FinalStatuses
  <2> QED
    BY <2>1, <2>2, <2>3 DEF Operation
<1> QED
  BY <1>1, <1>2, <1>3, <1>4, <1>5, <1>6 DEF RowStep

-----------------------------------------------------------------------------
(* The inductive invariant of the table and of the aggregates in memory.   *)

\* The transitions that leave a task alive.
LEMMA AliveStatus ==
  ASSUME NEW row \in Row, NEW t \in Task
  PROVE  /\ Saved(Enqueue(row)).status = "Queued"
         /\ TryAcquireQueuedTask(row).status = "Executing"
         /\ Saved(Finished(t, row)).status \in {"Scheduled", "Completed"}
         /\ Saved(Pause(row)).status = "Paused"
         /\ Saved(Resume(row)).status = "Scheduled"
         /\ Saved(Cancel(row)).status = "Cancelled"
<1>1. Saved(Enqueue(row)).status = "Queued" /\ TryAcquireQueuedTask(row).status = "Executing"
  BY DEF Saved, Enqueue, TryAcquireQueuedTask, Row
<1>2. Saved(Reschedule(row)).status = "Scheduled"
  BY DEF Saved, Reschedule, Row
<1>3. Saved(CompleteSuccessfully(row)).status = "Completed"
  BY DEF Saved, CompleteSuccessfully, Row
<1>4. /\ Saved(Pause(row)).status = "Paused"
      /\ Saved(Resume(row)).status = "Scheduled"
      /\ Saved(Cancel(row)).status = "Cancelled"
  BY DEF Saved, Pause, Resume, Cancel, Row
<1> QED
  BY <1>1, <1>2, <1>3, <1>4 DEF Finished

\* A capture by a worker remembers the date the run was planned for.
LEMMA CaptureKeepsDate ==
  ASSUME NEW t \in Task, NEW old \in Row, NEW new,
         RowOK(old), RowStep(t, old, new), new.status = "Executing"
  PROVE  new.scheduledAt
<1>1. BuildTask.status = "Scheduled"
  BY DEF BuildTask, ScheduleTask, NewTask
<1>2. /\ Saved(Enqueue(old)).status = "Queued"
      /\ Saved(Finished(t, old)).status \in {"Scheduled", "Completed"}
      /\ Saved(Pause(old)).status = "Paused"
      /\ Saved(Resume(old)).status = "Scheduled"
      /\ Saved(Cancel(old)).status = "Cancelled"
  BY AliveStatus
<1>3. ASSUME NEW op \in Operation
      PROVE  Saved(Apply(op, old)).status # "Executing"
  BY <1>2 DEF Operation, Apply
<1>4. Saved(FailAttempt(old)).status # "Executing"
  <2> DEFINE f == FailAttempt(old)
  <2>1. f \in Row /\ f.status \in {"Dead", "Scheduled"}
    BY FailAttemptFields, MaxAttemptsAssumption DEF Row
  <2> HIDE DEF f
  <2>2. Saved(f).status = f.status
    BY <2>1 DEF Saved, Row
  <2> QED
    BY <2>1, <2>2 DEF f
<1>5. old.status = "Queued" /\ new = TryAcquireQueuedTask(old)
  BY <1>1, <1>2, <1>3, <1>4 DEF RowStep
<1> QED
  BY <1>5 DEF TryAcquireQueuedTask, Saved, RowOK, Row

\* What a request has loaded allows what it is about to do.
LoadedAllows ==
  \A c \in Client : client[c].op # "none" => Allows(client[c].op, client[c].copy)

TableInv ==
  /\ TypeOK
  /\ \A t \in Task : RowOK(tasks[t])
  /\ VersionIdentifiesRow
  /\ LoadedAllows

\* The row of every task is left alone or takes one step of the aggregate.
RowsEvolve ==
  /\ tasks' \in [Task -> Row]
  /\ \A t \in Task : tasks'[t] = tasks[t] \/ RowStep(t, tasks[t], tasks'[t])

LEMMA BusyWorker ==
  ASSUME NEW x \in WorkerState, x.pc # "idle"
  PROVE  x.task \in Task /\ x.copy \in Row /\ x.pc \in {"received", "calling", "acking"}
BY DEF WorkerState, IdleWorker

LEMMA BusyClient ==
  ASSUME NEW x \in ClientState, x.op # "none"
  PROVE  x.task \in Task /\ x.copy \in Row /\ x.op \in Operation
BY DEF ClientState, IdleClient

\* What Write leaves in tasks, one row of the table changed or many.
LEMMA WrittenRow ==
  ASSUME TypeOK, \A x \in Task : RowOK(tasks[x]),
         NEW t \in Task, NEW new, NEW late,
         RowStep(t, tasks[t], new), Write([tasks EXCEPT ![t] = new], late)
  PROVE  RowsEvolve
<1>1. tasks \in [Task -> Row]
  BY DEF TypeOK
<1>2. new \in Row
  BY <1>1, RowStepSound
<1>3. tasks' = [tasks EXCEPT ![t] = new]
  BY DEF Write
<1> QED
  BY <1>1, <1>2, <1>3 DEF RowsEvolve

LEMMA WrittenRows ==
  ASSUME TypeOK, \A x \in Task : RowOK(tasks[x]),
         NEW S \in SUBSET Task, NEW new, NEW late,
         \A t \in S : RowStep(t, tasks[t], new[t]), Write(Overwrite(S, new), late)
  PROVE  RowsEvolve
<1>1. tasks \in [Task -> Row]
  BY DEF TypeOK
<1>2. \A t \in S : new[t] \in Row
  BY <1>1, RowStepSound
<1>3. tasks' = [t \in Task |-> IF t \in S THEN new[t] ELSE tasks[t]]
  BY DEF Write, Overwrite
<1>4. tasks' \in [Task -> Row]
  BY <1>1, <1>2, <1>3
<1>5. ASSUME NEW t \in Task
      PROVE  tasks'[t] = tasks[t] \/ RowStep(t, tasks[t], tasks'[t])
  <2>1. CASE t \in S
    BY <1>3, <2>1
  <2>2. CASE t \notin S
    BY <1>3, <2>2
  <2> QED
    BY <2>1, <2>2
<1> QED
  BY <1>4, <1>5 DEF RowsEvolve

\* Every step of the engine makes the rows evolve.
LEMMA StepEvolves ==
  ASSUME TableInv, [Next]_vars
  PROVE  RowsEvolve
<1> USE DEF TableInv
<1>0. /\ tasks \in [Task -> Row] /\ worker \in [Worker -> WorkerState]
      /\ client \in [Client -> ClientState]
  BY DEF TypeOK
<1>1. ASSUME tasks' = tasks PROVE RowsEvolve
  BY <1>0, <1>1 DEF RowsEvolve
<1>2. ASSUME NEW t \in Task, CreateTask(t) PROVE RowsEvolve
  <2>1. RowStep(t, tasks[t], BuildTask)
    BY <1>2 DEF CreateTask, RowStep
  <2>2. PICK late \in SUBSET {t} : Write([tasks EXCEPT ![t] = BuildTask], late)
    BY <1>2 DEF CreateTask
  <2> QED
    BY <2>1, <2>2, WrittenRow
<1>3. ASSUME NEW S \in SUBSET Task, RunScheduling(S) PROVE RowsEvolve
  <2> DEFINE new == [t \in S |-> Saved(Enqueue(tasks[t]))]
  <2>1. \A t \in S : tasks[t].status = "Scheduled" /\ new[t] = Saved(Enqueue(tasks[t]))
    BY <1>3 DEF RunScheduling, ReadyTasks
  <2>2. Write(Overwrite(S, new), {})
    BY <1>3 DEF RunScheduling
  <2> HIDE DEF new
  <2>3. \A t \in S : RowStep(t, tasks[t], new[t])
    BY <2>1 DEF RowStep
  <2> QED
    BY <2>2, <2>3, WrittenRows
<1>4. ASSUME NEW S \in SUBSET Task, RunHeartbeat(S) PROVE RowsEvolve
  <2> DEFINE new == [t \in S |-> Saved(FailAttempt(tasks[t]))]
  <2>1. \A t \in S : tasks[t].status = "Executing" /\ new[t] = Saved(FailAttempt(tasks[t]))
    BY <1>4 DEF RunHeartbeat, StaleTasks
  <2>2. PICK late \in SUBSET S : Write(Overwrite(S, new), late)
    BY <1>4 DEF RunHeartbeat
  <2> HIDE DEF new
  <2>3. \A t \in S : RowStep(t, tasks[t], new[t])
    BY <2>1 DEF RowStep
  <2> QED
    BY <2>2, <2>3, WrittenRows
<1>5. ASSUME NEW w \in Worker, AcquireQueued(w) PROVE RowsEvolve
  <2> DEFINE t == worker[w].task
  <2>1. t \in Task
    BY <1>0, <1>5, BusyWorker DEF AcquireQueued
  <2>2. /\ tasks[t].status = "Queued"
        /\ Write([tasks EXCEPT ![t] = TryAcquireQueuedTask(tasks[t])], {})
    BY <1>5 DEF AcquireQueued
  <2> HIDE DEF t
  <2>3. RowStep(t, tasks[t], TryAcquireQueuedTask(tasks[t]))
    BY <2>2 DEF RowStep
  <2> QED
    BY <2>1, <2>2, <2>3, WrittenRow
<1>6. ASSUME NEW w \in Worker, worker[w].pc = "calling", HoldsVersion(w)
      PROVE  /\ worker[w].task \in Task
             /\ worker[w].copy = tasks[worker[w].task]
             /\ tasks[worker[w].task].status = "Executing"
  BY <1>0, <1>6, BusyWorker DEF VersionIdentifiesRow
<1>7. ASSUME NEW w \in Worker, RecordSuccess(w) PROVE RowsEvolve
  <2> DEFINE t == worker[w].task
             row == Saved(Finished(t, worker[w].copy))
  <2>1. /\ worker[w].pc = "calling" /\ HoldsVersion(w)
        /\ \E late \in SUBSET {t} : Write([tasks EXCEPT ![t] = row], late)
    BY <1>7 DEF RecordSuccess
  <2>2. t \in Task /\ tasks[t].status = "Executing" /\ row = Saved(Finished(t, tasks[t]))
    BY <1>6, <2>1
  <2> HIDE DEF t, row
  <2>3. RowStep(t, tasks[t], row)
    BY <2>2 DEF RowStep
  <2> QED
    BY <2>1, <2>2, <2>3, WrittenRow
<1>8. ASSUME NEW w \in Worker, RecordFailure(w) PROVE RowsEvolve
  <2> DEFINE t == worker[w].task
             row == Saved(FailAttempt(worker[w].copy))
  <2>1. /\ worker[w].pc = "calling" /\ HoldsVersion(w)
        /\ \E late \in SUBSET {t} : Write([tasks EXCEPT ![t] = row], late)
    BY <1>8 DEF RecordFailure
  <2>2. t \in Task /\ tasks[t].status = "Executing" /\ row = Saved(FailAttempt(tasks[t]))
    BY <1>6, <2>1
  <2> HIDE DEF t, row
  <2>3. RowStep(t, tasks[t], row)
    BY <2>2 DEF RowStep
  <2> QED
    BY <2>1, <2>2, <2>3, WrittenRow
<1>9. ASSUME NEW c \in Client, Save(c) PROVE RowsEvolve
  <2> DEFINE t == client[c].task
             op == client[c].op
             row == Saved(Apply(op, client[c].copy))
  <2>1. /\ op # "none" /\ LoadedVersion(c) /\ Write([tasks EXCEPT ![t] = row], {})
    BY <1>9 DEF Save
  <2>2. t \in Task /\ op \in Operation
    BY <1>0, <2>1, BusyClient
  <2>3. client[c].copy = tasks[t] /\ Allows(op, client[c].copy)
    BY <2>1 DEF VersionIdentifiesRow, LoadedAllows
  <2>4. Allows(op, tasks[t]) /\ row = Saved(Apply(op, tasks[t]))
    BY <2>3
  <2> HIDE DEF t, op, row
  <2>5. RowStep(t, tasks[t], row)
    BY <2>2, <2>4 DEF RowStep
  <2> QED
    BY <2>1, <2>2, <2>5, WrittenRow
<1>10. ASSUME NEW r \in Relay, RelayStep(r) PROVE tasks' = tasks
  BY <1>10 DEF RelayStep, PickBatch, PublishToQueue, DeliverResult, SendFails, CommitBatch,
               LoseBatch, rows
<1>11. CASE UNCHANGED vars
  BY <1>1, <1>11 DEF vars, rows
<1>12. CASE \E t \in Task : CreateTask(t) \/ Clock(t)
  BY <1>1, <1>2, <1>12 DEF Clock, NextExecutionArrives, LockExpires
<1>13. CASE Background
  BY <1>3, <1>4, <1>13 DEF Background
<1>14. CASE \E w \in Worker : WorkerStep(w)
  BY <1>1, <1>5, <1>7, <1>8, <1>14
     DEF WorkerStep, Deliver, SkipDelivery, RecordConflicts, Ack, WorkerFails, rows
<1>15. CASE \E c \in Client : ClientStep(c)
  BY <1>1, <1>9, <1>15 DEF ClientStep, Load, SaveConflicts, rows
<1> QED
  BY <1>1, <1>10, <1>11, <1>12, <1>13, <1>14, <1>15 DEF Next

\* An unchanged row keeps its version, a changed one gets a larger one.
LEMMA VersionsGrow ==
  ASSUME TableInv, [Next]_vars, NEW t \in Task
  PROVE  /\ RowOK(tasks'[t])
         /\ tasks[t].version \in Nat /\ tasks'[t].version \in Nat
         /\ tasks'[t] = tasks[t] \/ tasks[t].version < tasks'[t].version
<1>1. RowsEvolve
  BY StepEvolves
<1>2. tasks[t] \in Row /\ tasks'[t] \in Row
  BY <1>1 DEF TableInv, TypeOK, RowsEvolve
<1>3. tasks[t].version \in Nat /\ tasks'[t].version \in Nat
  BY <1>2 DEF Row
<1>4. RowOK(tasks[t])
  BY DEF TableInv
<1>5. CASE tasks'[t] = tasks[t]
  BY <1>3, <1>4, <1>5
<1>6. CASE RowStep(t, tasks[t], tasks'[t])
  BY <1>2, <1>3, <1>4, <1>6, RowStepSound
<1> QED
  BY <1>1, <1>5, <1>6 DEF RowsEvolve

\* A worker that is calling after a step was calling before it with the same
\* copy, or has captured the row in this step.
LEMMA CallingWorker ==
  ASSUME TypeOK, [Next]_vars, NEW w \in Worker, worker'[w].pc = "calling"
  PROVE  worker'[w] = worker[w] \/ AcquireQueued(w)
<1>1. worker \in [Worker -> WorkerState]
  BY DEF TypeOK
<1>2. ASSUME NEW v \in Worker, WorkerStep(v), ~AcquireQueued(v)
      PROVE  \E x : x.pc # "calling" /\ worker' = [worker EXCEPT ![v] = x]
  <2>1. CASE \E t \in Task : Deliver(v, t)
    BY <2>1 DEF Deliver, IdleWorker
  <2>2. CASE SkipDelivery(v)
    <3>1. worker' = [worker EXCEPT ![v] = [worker[v] EXCEPT !.pc = "acking"]]
      BY <2>2 DEF SkipDelivery
    <3>2. worker[v] \in [pc : {"received", "calling", "acking"}, task : Task, copy : Row]
      BY <1>1, <2>2 DEF SkipDelivery, WorkerState, IdleWorker
    <3>3. [worker[v] EXCEPT !.pc = "acking"].pc # "calling"
      BY <3>2
    <3> QED
      BY <3>1, <3>3
  <2>3. CASE RecordSuccess(v) \/ RecordFailure(v)
    BY <2>3 DEF RecordSuccess, RecordFailure, IdleWorker
  <2>4. CASE RecordConflicts(v) \/ Ack(v) \/ WorkerFails(v)
    BY <2>4 DEF RecordConflicts, Ack, WorkerFails, Requeue, IdleWorker
  <2> QED
    BY <1>2, <2>1, <2>2, <2>3, <2>4 DEF WorkerStep
<1>3. CASE \E v \in Worker : WorkerStep(v)
  <2>1. PICK v \in Worker : WorkerStep(v)
    BY <1>3
  <2>2. CASE AcquireQueued(v)
    BY <1>1, <2>2 DEF AcquireQueued
  <2>3. CASE ~AcquireQueued(v)
    BY <1>1, <1>2, <2>1, <2>3
  <2> QED
    BY <2>2, <2>3
<1>4. ASSUME NEW r \in Relay, RelayStep(r) PROVE UNCHANGED worker
  BY <1>4 DEF RelayStep, PickBatch, PublishToQueue, DeliverResult, SendFails, CommitBatch,
              LoseBatch
<1>5. CASE \E t \in Task : CreateTask(t) \/ Clock(t)
  BY <1>5 DEF CreateTask, Clock, NextExecutionArrives, LockExpires
<1>6. CASE Background
  BY <1>6 DEF Background, RunScheduling, RunHeartbeat
<1>7. CASE \E c \in Client : ClientStep(c)
  BY <1>7 DEF ClientStep, Load, Save, SaveConflicts
<1>8. CASE UNCHANGED vars
  BY <1>8 DEF vars
<1> QED
  BY <1>3, <1>4, <1>5, <1>6, <1>7, <1>8 DEF Next

\* A request that is busy after a step was busy with the same copy before it,
\* or has loaded the row in this step.
LEMMA BusyRequest ==
  ASSUME TypeOK, [Next]_vars, NEW c \in Client, client'[c].op # "none"
  PROVE  client'[c] = client[c] \/ \E op \in Operation, t \in Task : Load(c, op, t)
<1>1. client \in [Client -> ClientState]
  BY DEF TypeOK
<1>2. CASE \E d \in Client : ClientStep(d)
  <2>1. PICK d \in Client : ClientStep(d)
    BY <1>2
  <2>2. CASE \E op \in Operation, t \in Task : Load(d, op, t)
    BY <1>1, <2>2 DEF Load
  <2>3. CASE Save(d) \/ SaveConflicts(d)
    BY <1>1, <2>3 DEF Save, SaveConflicts, IdleClient
  <2> QED
    BY <2>1, <2>2, <2>3 DEF ClientStep
<1>3. ASSUME NEW r \in Relay, RelayStep(r) PROVE UNCHANGED client
  BY <1>3 DEF RelayStep, PickBatch, PublishToQueue, DeliverResult, SendFails, CommitBatch,
              LoseBatch
<1>4. CASE \E t \in Task : CreateTask(t) \/ Clock(t)
  BY <1>4 DEF CreateTask, Clock, NextExecutionArrives, LockExpires
<1>5. CASE Background
  BY <1>5 DEF Background, RunScheduling, RunHeartbeat
<1>6. CASE \E w \in Worker : WorkerStep(w)
  BY <1>6 DEF WorkerStep, Deliver, AcquireQueued, SkipDelivery, RecordSuccess, RecordFailure,
              RecordConflicts, Ack, WorkerFails
<1>7. CASE UNCHANGED vars
  BY <1>7 DEF vars
<1> QED
  BY <1>2, <1>3, <1>4, <1>5, <1>6, <1>7 DEF Next

\* What a capture leaves in the row and in the worker.
LEMMA Captured ==
  ASSUME TypeOK, NEW w \in Worker, AcquireQueued(w)
  PROVE  /\ worker[w].task \in Task
         /\ worker'[w].task = worker[w].task
         /\ worker'[w].copy = tasks'[worker[w].task]
         /\ tasks'[worker[w].task].status = "Executing"
         /\ tasks'[worker[w].task].version = tasks[worker[w].task].version + 1
         /\ worker' = [worker EXCEPT ![w] = worker'[w]]
<1> DEFINE t == worker[w].task
           row == TryAcquireQueuedTask(tasks[t])
<1>1. worker \in [Worker -> WorkerState] /\ tasks \in [Task -> Row]
  BY DEF TypeOK
<1>2. t \in Task
  BY <1>1, BusyWorker DEF AcquireQueued
<1>3. row.status = "Executing" /\ row.version = tasks[t].version + 1
  BY <1>1, <1>2 DEF TryAcquireQueuedTask, Saved, Row
<1>4. /\ tasks' = [tasks EXCEPT ![t] = row]
      /\ worker' = [worker EXCEPT ![w] = [pc |-> "calling", task |-> t, copy |-> row]]
  BY DEF AcquireQueued, Write
<1> HIDE DEF t, row
<1> QED
  BY <1>1, <1>2, <1>3, <1>4 DEF t

\* A copy that was the row or of an older version still is after the step: a
\* changed row has a larger version than every copy.
LEMMA VersionIdentifiesRowKept ==
  ASSUME TableInv, [Next]_vars
  PROVE  VersionIdentifiesRow'
<1>0. /\ TypeOK /\ VersionIdentifiesRow
      /\ worker \in [Worker -> WorkerState] /\ client \in [Client -> ClientState]
  BY DEF TableInv, TypeOK
<1>1. ASSUME NEW w \in Worker, worker[w].pc = "calling"
      PROVE  worker[w].task \in Task /\ worker[w].copy.version \in Nat
  BY <1>0, <1>1, BusyWorker DEF Row
<1>2. ASSUME NEW w \in Worker, worker'[w].pc = "calling"
      PROVE  LET row == tasks'[worker'[w].task] IN
               /\ worker'[w].copy.version <= row.version
               /\ row.version = worker'[w].copy.version =>
                    worker'[w].copy = row /\ row.status = "Executing"
  <2> DEFINE t == worker[w].task
  <2>1. CASE worker'[w] = worker[w]
    <3>1. worker[w].pc = "calling" /\ t \in Task /\ worker[w].copy.version \in Nat
      BY <1>1, <1>2, <2>1
    <3>2. /\ worker[w].copy.version <= tasks[t].version
          /\ tasks[t].version = worker[w].copy.version =>
               worker[w].copy = tasks[t] /\ tasks[t].status = "Executing"
      BY <1>0, <3>1 DEF VersionIdentifiesRow, HoldsVersion
    <3>3. /\ tasks[t].version \in Nat /\ tasks'[t].version \in Nat
          /\ tasks'[t] = tasks[t] \/ tasks[t].version < tasks'[t].version
      BY <3>1, VersionsGrow
    <3> HIDE DEF t
    <3>4. CASE tasks'[t] = tasks[t]
      BY <2>1, <3>2, <3>4 DEF t
    <3>5. CASE tasks[t].version < tasks'[t].version
      <4>1. worker[w].copy.version < tasks'[t].version
        BY <3>1, <3>2, <3>3, <3>5
      <4> QED
        BY <2>1, <3>1, <3>3, <4>1 DEF t
    <3> QED
      BY <3>3, <3>4, <3>5
  <2>2. CASE AcquireQueued(w)
    <3>1. /\ t \in Task /\ worker'[w].task = t /\ worker'[w].copy = tasks'[t]
          /\ tasks'[t].status = "Executing"
      BY <1>0, <2>2, Captured
    <3>2. tasks'[t].version \in Nat
      BY <3>1, VersionsGrow
    <3> QED
      BY <3>1, <3>2
  <2> QED
    BY <1>0, <1>2, <2>1, <2>2, CallingWorker
<1>3. ASSUME NEW c \in Client, client'[c].op # "none"
      PROVE  LET row == tasks'[client'[c].task] IN
               /\ client'[c].copy.version <= row.version
               /\ row.version = client'[c].copy.version => client'[c].copy = row
  <2> DEFINE t == client[c].task
  <2>1. CASE client'[c] = client[c]
    <3>1. client[c].op # "none" /\ t \in Task /\ client[c].copy.version \in Nat
      BY <1>0, <1>3, <2>1, BusyClient DEF Row
    <3>2. /\ client[c].copy.version <= tasks[t].version
          /\ tasks[t].version = client[c].copy.version => client[c].copy = tasks[t]
      BY <1>0, <3>1 DEF VersionIdentifiesRow, LoadedVersion
    <3>3. /\ tasks[t].version \in Nat /\ tasks'[t].version \in Nat
          /\ tasks'[t] = tasks[t] \/ tasks[t].version < tasks'[t].version
      BY <3>1, VersionsGrow
    <3> HIDE DEF t
    <3>4. CASE tasks'[t] = tasks[t]
      BY <2>1, <3>2, <3>4 DEF t
    <3>5. CASE tasks[t].version < tasks'[t].version
      <4>1. client[c].copy.version < tasks'[t].version
        BY <3>1, <3>2, <3>3, <3>5
      <4> QED
        BY <2>1, <3>1, <3>3, <4>1 DEF t
    <3> QED
      BY <3>3, <3>4, <3>5
  <2>2. CASE \E op \in Operation, x \in Task : Load(c, op, x)
    <3>1. PICK op \in Operation, x \in Task : Load(c, op, x)
      BY <2>2
    <3>2. client'[c].task = x /\ client'[c].copy = tasks[x] /\ tasks' = tasks
      BY <1>0, <3>1 DEF Load, rows
    <3>3. tasks[x].version \in Nat
      BY VersionsGrow
    <3> QED
      BY <3>2, <3>3
  <2> QED
    BY <1>0, <1>3, <2>1, <2>2, BusyRequest
<1>4. ASSUME NEW v \in Worker, NEW w \in Worker, v # w, AcquireQueued(w),
             worker'[v].pc = "calling", worker'[v].task = worker'[w].task
      PROVE  worker'[v].copy.version # worker'[w].copy.version
  <2> DEFINE t == worker[w].task
  <2>1. /\ t \in Task /\ worker'[w].task = t /\ worker'[w].copy = tasks'[t]
        /\ tasks'[t].version = tasks[t].version + 1
        /\ worker' = [worker EXCEPT ![w] = worker'[w]]
    BY <1>0, <1>4, Captured
  <2>2. worker'[v] = worker[v]
    BY <1>0, <1>4, <2>1
  <2>3. worker[v].pc = "calling" /\ worker[v].task = t
    BY <1>4, <2>1, <2>2
  <2>4. worker[v].copy.version <= tasks[t].version
    BY <1>0, <2>3 DEF VersionIdentifiesRow
  <2>5. worker[v].copy.version \in Nat /\ tasks[t].version \in Nat
    BY <1>1, <2>1, <2>3, VersionsGrow
  <2> HIDE DEF t
  <2> QED
    BY <2>1, <2>2, <2>4, <2>5
<1>5. ASSUME NEW v \in Worker, NEW w \in Worker, v # w,
             worker'[v].pc = "calling", worker'[w].pc = "calling",
             worker'[v].task = worker'[w].task
      PROVE  worker'[v].copy.version # worker'[w].copy.version
  <2>1. CASE worker'[v] = worker[v] /\ worker'[w] = worker[w]
    BY <1>0, <1>5, <2>1 DEF VersionIdentifiesRow
  <2>2. CASE AcquireQueued(w)
    BY <1>4, <1>5, <2>2
  <2>3. CASE AcquireQueued(v)
    BY <1>4, <1>5, <2>3
  <2> QED
    BY <1>0, <1>5, <2>1, <2>2, <2>3, CallingWorker
<1> QED
  BY <1>2, <1>3, <1>5 DEF VersionIdentifiesRow, HoldsVersion, LoadedVersion

LEMMA LoadedAllowsKept ==
  ASSUME TypeOK, LoadedAllows, [Next]_vars
  PROVE  LoadedAllows'
<1>1. client \in [Client -> ClientState]
  BY DEF TypeOK
<1>2. ASSUME NEW c \in Client, client'[c].op # "none"
      PROVE  Allows(client'[c].op, client'[c].copy)
  <2>1. CASE client'[c] = client[c]
    BY <1>2, <2>1 DEF LoadedAllows
  <2>2. CASE \E op \in Operation, t \in Task : Load(c, op, t)
    <3>1. PICK op \in Operation, t \in Task : Load(c, op, t)
      BY <2>2
    <3>2. client'[c].op = op /\ client'[c].copy = tasks[t] /\ Allows(op, tasks[t])
      BY <1>1, <3>1 DEF Load
    <3> QED
      BY <3>2
  <2> QED
    BY <1>2, <2>1, <2>2, BusyRequest
<1> QED
  BY <1>2 DEF LoadedAllows, Allows, CanPause, CanResume, CanCancel

-----------------------------------------------------------------------------
(* Type correctness.                                                       *)

LEMMA NewMessage ==
  ASSUME NEW t \in Task, NEW v \in Nat
  PROVE  QueuedEvent(t, v) \in Message /\ DeliveryRequest(t, v) \in Message
BY EngineAssumption DEF QueuedEvent, DeliveryRequest, OutboxMessage, Message

LEMMA RetriedMessage ==
  ASSUME NEW m \in Message, CanRetry(m)
  PROVE  Retried(m) \in Message
<1>1. m.retries + 1 \in 0..MaxRetries
  BY EngineAssumption DEF Message, CanRetry
<1>2. ASSUME NEW n \in 0..MaxRetries PROVE [m EXCEPT !.retries = n] \in Message
  BY DEF Message
<1> QED
  BY <1>1, <1>2 DEF Retried

LEMMA NewWorkerState ==
  ASSUME NEW t \in Task, NEW p \in {"received", "calling", "acking"}
  PROVE  [IdleWorker EXCEPT !.pc = p, !.task = t] \in WorkerState
<1>1. AbsentRow \in Row
  BY DEF AbsentRow, Row, StatusTask
<1>2. IdleWorker \in [pc : {"idle"}, task : {NoTask}, copy : Row]
  BY <1>1 DEF IdleWorker
<1>3. ASSUME NEW x \in [pc : {"idle"}, task : {NoTask}, copy : Row]
      PROVE  [x EXCEPT !.pc = p, !.task = t]
               \in [pc : {"received", "calling", "acking"}, task : Task, copy : Row]
  OBVIOUS
<1> QED
  BY <1>2, <1>3 DEF WorkerState

LEMMA StepType ==
  ASSUME TableInv, [Next]_vars
  PROVE  TypeOK'
<1> USE DEF TypeOK
<1>0. TypeOK
  BY DEF TableInv
<1>1. tasks' \in [Task -> Row]
  BY StepEvolves DEF RowsEvolve
<1>2. ASSUME NEW table, NEW late, Write(table, late)
      PROVE  due' \subseteq Task /\ expired' \subseteq Task
  BY <1>0, <1>2 DEF Write
<1>3. ASSUME Fault PROVE faults' \in 0..MaxFaults
  BY <1>0, <1>3, EngineAssumption DEF Fault
<1>4. ASSUME NEW r \in Relay PROVE relay[r].picked \subseteq Message
  BY <1>0 DEF Batch
<1>5. ASSUME NEW t \in Task PROVE broker[t] + 1 \in Nat /\ dlq[t] + 1 \in Nat
  BY <1>0
<1>6. ASSUME NEW S, NEW new, BuryDead(S, new) PROVE dlq' \in [Task -> Nat]
  BY <1>0, <1>5, <1>6 DEF BuryDead
<1>7. IdleWorker \in WorkerState /\ IdleClient \in ClientState
  BY DEF WorkerState, ClientState
<1>8. ASSUME NEW w \in Worker, worker[w].pc # "idle"
      PROVE  worker[w].task \in Task /\ worker[w].copy \in Row
  BY <1>0, <1>8, BusyWorker
<1>9. ASSUME NEW w \in Worker, worker[w].pc # "idle", Requeue(w)
      PROVE  broker' \in [Task -> Nat] /\ worker' \in [Worker -> WorkerState]
  BY <1>0, <1>5, <1>7, <1>8, <1>9 DEF Requeue
<1>10. ASSUME NEW t \in Task, CreateTask(t) PROVE TypeOK'
  BY <1>0, <1>1, <1>2, <1>10 DEF CreateTask, relayed
<1>11. ASSUME NEW t \in Task, Clock(t) PROVE TypeOK'
  BY <1>0, <1>11 DEF Clock, NextExecutionArrives, LockExpires, relayed
<1>12. ASSUME NEW S \in SUBSET Task, RunScheduling(S) PROVE TypeOK'
  <2>1. \A t \in S : QueuedEvent(t, tasks[t].version + 1) \in Message
    BY <1>0, NewMessage DEF Row
  <2>2. outbox' \subseteq Message
    BY <1>0, <1>12, <2>1 DEF RunScheduling
  <2> QED
    BY <1>0, <1>1, <1>2, <1>12, <2>2 DEF RunScheduling
<1>13. ASSUME NEW S \in SUBSET Task, RunHeartbeat(S) PROVE TypeOK'
  <2>1. /\ due' \subseteq Task /\ expired' \subseteq Task /\ dlq' \in [Task -> Nat]
    BY <1>2, <1>6, <1>13 DEF RunHeartbeat
  <2> QED
    BY <1>0, <1>1, <1>13, <2>1 DEF RunHeartbeat, relayed
<1>14. ASSUME NEW r \in Relay, NEW b \in Batch, relay' = [relay EXCEPT ![r] = b]
       PROVE  relay' \in [Relay -> Batch]
  BY <1>0, <1>14
<1>15. EmptyBatch \in Batch
  BY DEF EmptyBatch, Batch
<1>16. ASSUME NEW r \in Relay, PickBatch(r) PROVE TypeOK'
  <2>1. [relay[r] EXCEPT !.picked = outbox \ LockedMessages] \in Batch
    BY <1>0 DEF Batch
  <2>2. relay' \in [Relay -> Batch]
    BY <1>0, <1>16, <2>1 DEF PickBatch
  <2> QED
    BY <1>0, <1>16, <2>2 DEF PickBatch, rows
<1>17. ASSUME NEW r \in Relay, NEW m \in relay[r].picked
       PROVE  /\ m \in Message /\ m.task \in Task
              /\ [relay EXCEPT ![r].sent = @ \cup {m}] \in [Relay -> Batch]
              /\ [relay EXCEPT ![r].failed = @ \cup {m}] \in [Relay -> Batch]
              /\ [broker EXCEPT ![m.task] = @ + 1] \in [Task -> Nat]
  <2>1. m \in Message /\ m.task \in Task
    BY <1>4, <1>17 DEF Message
  <2>2. /\ [relay[r] EXCEPT !.sent = @ \cup {m}] \in Batch
        /\ [relay[r] EXCEPT !.failed = @ \cup {m}] \in Batch
    BY <1>0, <2>1 DEF Batch
  <2> QED
    BY <1>0, <1>5, <2>1, <2>2
<1>18. ASSUME NEW r \in Relay, NEW m \in relay[r].picked,
              PublishToQueue(r, m) \/ DeliverResult(r, m)
       PROVE  TypeOK'
  <2>1. relay' = [relay EXCEPT ![r].sent = @ \cup {m}]
    BY <1>18 DEF PublishToQueue, DeliverResult
  <2>2. broker' = broker \/ broker' = [broker EXCEPT ![m.task] = @ + 1]
    BY <1>18 DEF PublishToQueue, DeliverResult
  <2>3. delivered' = delivered \/ delivered' = delivered \cup {m.task}
    BY <1>18 DEF PublishToQueue, DeliverResult
  <2>4. UNCHANGED <<rows, outbox, givenUp, dlq, worker, client, faults>>
    BY <1>18 DEF PublishToQueue, DeliverResult
  <2>5. m.task \in Task
    BY <1>17
  <2>6. delivered' \subseteq Task
    <3>1. delivered \subseteq Task
      BY <1>0
    <3> HIDE DEF TypeOK
    <3> QED
      BY <2>3, <2>5, <3>1
  <2>7. relay' \in [Relay -> Batch]
    BY <1>17, <2>1, Zenon
  <2>8. broker' \in [Task -> Nat]
    <3>1. [broker EXCEPT ![m.task] = @ + 1] \in [Task -> Nat] /\ broker \in [Task -> Nat]
      BY <1>0, <1>17, Zenon
    <3> QED
      BY <2>2, <3>1, Zenon
  <2> QED
    BY <1>0, <2>4, <2>6, <2>7, <2>8 DEF rows
<1>19. ASSUME NEW r \in Relay, NEW m \in relay[r].picked, SendFails(r, m) PROVE TypeOK'
  <2>1. relay' \in [Relay -> Batch]
    BY <1>17, <1>19 DEF SendFails
  <2>2. broker' \in [Task -> Nat]
    BY <1>0, <1>17, <1>19 DEF SendFails
  <2> QED
    BY <1>0, <1>3, <1>19, <2>1, <2>2 DEF SendFails, rows
<1>20. ASSUME NEW r \in Relay, CommitBatch(r) PROVE TypeOK'
  <2>1. \A m \in relay[r].failed : m \in Message
    BY <1>0 DEF Batch
  <2>2. \A m \in {f \in relay[r].failed : CanRetry(f)} : Retried(m) \in Message
    BY <2>1, RetriedMessage
  <2>3. outbox' \subseteq Message /\ givenUp' \subseteq Message
    BY <1>0, <1>20, <2>1, <2>2 DEF CommitBatch
  <2>4. relay' \in [Relay -> Batch]
    BY <1>14, <1>15, <1>20 DEF CommitBatch
  <2> QED
    BY <1>0, <1>20, <2>3, <2>4 DEF CommitBatch, rows
<1>21. ASSUME NEW r \in Relay, LoseBatch(r) PROVE TypeOK'
  BY <1>0, <1>3, <1>14, <1>15, <1>21 DEF LoseBatch, rows
<1>22. ASSUME NEW w \in Worker, NEW t \in Task, Deliver(w, t) PROVE TypeOK'
  <2>1. broker[t] - 1 \in Nat
    BY <1>0, <1>22 DEF Deliver
  <2>2. [IdleWorker EXCEPT !.pc = "received", !.task = t] \in WorkerState
    BY NewWorkerState
  <2> QED
    BY <1>0, <1>22, <2>1, <2>2 DEF Deliver, rows, relayed
<1>23. ASSUME NEW w \in Worker, AcquireQueued(w) PROVE TypeOK'
  <2>1. /\ worker[w].task \in Task
        /\ TryAcquireQueuedTask(tasks[worker[w].task]) = tasks'[worker[w].task]
    BY <1>0, <1>8, <1>23 DEF AcquireQueued, Write
  <2>2. [pc |-> "calling", task |-> worker[w].task,
         copy |-> TryAcquireQueuedTask(tasks[worker[w].task])] \in WorkerState
    BY <1>1, <2>1 DEF WorkerState
  <2>3. worker' \in [Worker -> WorkerState]
    BY <1>0, <1>23, <2>2 DEF AcquireQueued
  <2>4. due' \subseteq Task /\ expired' \subseteq Task
    BY <1>2, <1>23 DEF AcquireQueued
  <2> QED
    BY <1>0, <1>1, <1>23, <2>3, <2>4 DEF AcquireQueued, relayed
<1>24. ASSUME NEW w \in Worker, SkipDelivery(w) PROVE TypeOK'
  <2>1. worker[w] \in [pc : {"received", "calling", "acking"}, task : Task, copy : Row]
    BY <1>0, <1>24 DEF SkipDelivery, WorkerState, IdleWorker
  <2>2. [worker[w] EXCEPT !.pc = "acking"] \in WorkerState
    BY <2>1 DEF WorkerState
  <2> QED
    BY <1>0, <1>24, <2>2 DEF SkipDelivery, rows, relayed
<1>25. ASSUME NEW w \in Worker, worker[w].pc # "idle",
              worker' = [worker EXCEPT ![w] = [IdleWorker EXCEPT !.pc = "acking",
                                                                 !.task = worker[w].task]]
       PROVE  worker' \in [Worker -> WorkerState]
  BY <1>0, <1>8, <1>25, NewWorkerState
<1>26. ASSUME NEW w \in Worker, RecordSuccess(w) PROVE TypeOK'
  <2> DEFINE t == worker[w].task
             v == Saved(Finished(t, worker[w].copy)).version
  <2>1. t \in Task /\ due' \subseteq Task /\ expired' \subseteq Task
    BY <1>2, <1>8, <1>26 DEF RecordSuccess
  <2>2. tasks'[t] = Saved(Finished(t, worker[w].copy))
    BY <1>0, <1>26, <2>1 DEF RecordSuccess, Write
  <2>3. v \in Nat
    BY <1>1, <2>1, <2>2 DEF Row
  <2>4. DeliveryRequest(t, v) \in Message
    BY <2>1, <2>3, NewMessage
  <2>5. outbox' \subseteq Message
    BY <1>0, <1>26, <2>4 DEF RecordSuccess
  <2>6. worker' \in [Worker -> WorkerState]
    BY <1>25, <1>26 DEF RecordSuccess
  <2> HIDE DEF t, v
  <2> QED
    BY <1>0, <1>1, <1>26, <2>1, <2>5, <2>6 DEF RecordSuccess
<1>27. ASSUME NEW w \in Worker, RecordFailure(w) PROVE TypeOK'
  <2>1. due' \subseteq Task /\ expired' \subseteq Task /\ dlq' \in [Task -> Nat]
    BY <1>2, <1>6, <1>27 DEF RecordFailure
  <2>2. worker' \in [Worker -> WorkerState]
    BY <1>25, <1>27 DEF RecordFailure
  <2> QED
    BY <1>0, <1>1, <1>27, <2>1, <2>2 DEF RecordFailure, relayed
<1>28. ASSUME NEW w \in Worker, RecordConflicts(w) PROVE TypeOK'
  BY <1>0, <1>9, <1>28 DEF RecordConflicts, rows, relayed
<1>29. ASSUME NEW w \in Worker, Ack(w) PROVE TypeOK'
  BY <1>0, <1>7, <1>29 DEF Ack, rows, relayed
<1>30. ASSUME NEW w \in Worker, WorkerFails(w) PROVE TypeOK'
  BY <1>0, <1>3, <1>9, <1>30 DEF WorkerFails, rows, relayed
<1>31. ASSUME NEW c \in Client, NEW op \in Operation, NEW t \in Task, Load(c, op, t)
       PROVE  TypeOK'
  <2>1. [op |-> op, task |-> t, copy |-> tasks[t]] \in ClientState
    BY <1>0 DEF ClientState
  <2> QED
    BY <1>0, <1>31, <2>1 DEF Load, rows, relayed
<1>32. ASSUME NEW c \in Client, Save(c) PROVE TypeOK'
  <2>1. due' \subseteq Task /\ expired' \subseteq Task
    BY <1>2, <1>32 DEF Save
  <2> QED
    BY <1>0, <1>1, <1>7, <1>32, <2>1 DEF Save, relayed
<1>33. ASSUME NEW c \in Client, SaveConflicts(c) PROVE TypeOK'
  BY <1>0, <1>7, <1>33 DEF SaveConflicts, rows, relayed
<1>34. CASE UNCHANGED vars
  BY <1>0, <1>34 DEF vars, rows
<1>35. CASE \E r \in Relay : RelayStep(r)
  BY <1>16, <1>18, <1>19, <1>20, <1>21, <1>35 DEF RelayStep
<1>36. CASE \E w \in Worker : WorkerStep(w)
  BY <1>22, <1>23, <1>24, <1>26, <1>27, <1>28, <1>29, <1>30, <1>36 DEF WorkerStep
<1>37. CASE \E c \in Client : ClientStep(c)
  BY <1>31, <1>32, <1>33, <1>37 DEF ClientStep
<1>38. CASE Background
  BY <1>12, <1>13, <1>38 DEF Background
<1> HIDE DEF TypeOK
<1> QED
  BY <1>10, <1>11, <1>34, <1>35, <1>36, <1>37, <1>38 DEF Next

-----------------------------------------------------------------------------
(* The invariant, and what follows from it.                                *)

LEMMA TableInvInit ==
  ASSUME Init
  PROVE  TableInv
<1>1. AbsentRow \in Row
  BY DEF AbsentRow, Row, StatusTask
<1>2. EmptyBatch \in Batch /\ IdleWorker \in WorkerState /\ IdleClient \in ClientState
  BY DEF EmptyBatch, Batch, WorkerState, ClientState
<1>3. TypeOK
  BY <1>1, <1>2, EngineAssumption DEF Init, TypeOK
<1>4. RowOK(AbsentRow)
  BY MaxAttemptsAssumption DEF RowOK, AbsentRow
<1>5. VersionIdentifiesRow /\ LoadedAllows
  BY DEF Init, IdleWorker, IdleClient, VersionIdentifiesRow, LoadedAllows
<1> QED
  BY <1>3, <1>4, <1>5 DEF TableInv, Init

LEMMA TableInvKept ==
  ASSUME TableInv, [Next]_vars
  PROVE  TableInv'
<1>1. TypeOK' /\ VersionIdentifiesRow' /\ LoadedAllows'
  BY StepType, VersionIdentifiesRowKept, LoadedAllowsKept DEF TableInv
<1>2. \A t \in Task : RowOK(tasks'[t])
  BY VersionsGrow
<1>3. \A t \in Task : RowOK(tasks[t])'
  BY <1>2 DEF RowOK
<1> QED
  BY <1>1, <1>3 DEF TableInv

\* The table, and every aggregate in memory that still has its row's version,
\* stay as the aggregate's methods leave them.
THEOREM TableInvariant == Spec => []TableInv
<1>1. Init => TableInv
  BY TableInvInit
<1>2. TableInv /\ [Next]_vars => TableInv'
  BY TableInvKept
<1> QED
  BY <1>1, <1>2, PTL DEF Spec

\* The variables of the pipeline keep their types.
THEOREM TypeCorrect == Spec => []TypeOK
<1>1. TableInv => TypeOK
  BY DEF TableInv
<1> QED
  BY <1>1, TableInvariant, PTL

\* Whatever the workers, the heartbeat and the users do at the same time, the
\* dates of every persisted row fit its status.
THEOREM DatesAlwaysFit == Spec => []DatesFitStatus
<1>1. Init => DatesFitStatus
  BY DEF Init, AbsentRow, DatesFitStatus
<1>2. ASSUME TableInv, DatesFitStatus, [Next]_vars
      PROVE  DatesFitStatus'
  <2>1. ASSUME NEW t \in Task, tasks'[t].status = "Executing"
        PROVE  tasks'[t].scheduledAt
    <3>1. CASE tasks'[t] = tasks[t]
      BY <1>2, <2>1, <3>1 DEF DatesFitStatus
    <3>2. CASE RowStep(t, tasks[t], tasks'[t])
      BY <1>2, <2>1, <3>2, CaptureKeepsDate DEF TableInv, TypeOK
    <3> QED
      BY <1>2, <3>1, <3>2, StepEvolves DEF RowsEvolve
  <2>2. \A t \in Task : RowOK(tasks'[t])
    BY <1>2, VersionsGrow
  <2> QED
    BY <2>1, <2>2 DEF RowOK, DatesFitStatus
<1> QED
  BY <1>1, <1>2, TableInvariant, PTL DEF Spec

\* The version check of UpdateAsync is enough to keep every update from
\* overwriting what it has not seen, for any number of workers and requests.
THEOREM OptimisticLockingSound == Spec => []VersionIdentifiesRow
<1>1. TableInv => VersionIdentifiesRow
  BY DEF TableInv
<1> QED
  BY <1>1, TableInvariant, PTL

LEMMA FinalRowKept ==
  ASSUME TableInv, [Next]_vars,
         NEW t \in Task, tasks[t].status \in FinalStatuses
  PROVE  tasks'[t] = tasks[t]
<1>1. ~RowStep(t, tasks[t], tasks'[t])
  BY DEF RowStep, FinalStatuses, Operation, Allows, CanPause, CanResume, CanCancel
<1> QED
  BY <1>1, StepEvolves DEF RowsEvolve

\* No step ever writes a row that is Completed, Dead or Cancelled.
THEOREM FinalStatusStays == Spec => FinalStatusIsFinal
<1>1. TableInv /\ [Next]_vars =>
        [\A t \in Task : tasks[t].status \in FinalStatuses => tasks'[t] = tasks[t]]_vars
  BY FinalRowKept
<1> QED
  BY <1>1, TableInvariant, PTL DEF Spec, FinalStatusIsFinal

-----------------------------------------------------------------------------
(* Dead letters.                                                           *)

\* A step adds an entry exactly for the rows that it lets die.
LettersFollow ==
  \A t \in Task : dlq'[t] = IF tasks[t].status # "Dead" /\ tasks'[t].status = "Dead"
                              THEN dlq[t] + 1 ELSE dlq[t]

LEMMA StepBuries ==
  ASSUME TableInv, [Next]_vars
  PROVE  LettersFollow
<1>0. /\ TypeOK /\ tasks \in [Task -> Row] /\ dlq \in [Task -> Nat]
      /\ worker \in [Worker -> WorkerState] /\ client \in [Client -> ClientState]
  BY DEF TableInv, TypeOK
<1>1. ASSUME UNCHANGED dlq,
             \A t \in Task : tasks'[t] = tasks[t] \/ tasks'[t].status # "Dead"
      PROVE  LettersFollow
  BY <1>1 DEF LettersFollow
<1>2. ASSUME NEW t \in Task, CreateTask(t) PROVE LettersFollow
  <2>1. BuildTask.status = "Scheduled"
    BY DEF BuildTask, ScheduleTask, NewTask
  <2>2. tasks' = [tasks EXCEPT ![t] = BuildTask] /\ UNCHANGED dlq
    BY <1>2 DEF CreateTask, Write
  <2> QED
    BY <1>0, <1>1, <2>1, <2>2
<1>3. ASSUME NEW S \in SUBSET Task, RunScheduling(S) PROVE LettersFollow
  <2>1. /\ tasks' = [t \in Task |-> IF t \in S THEN Saved(Enqueue(tasks[t])) ELSE tasks[t]]
        /\ UNCHANGED dlq
    BY <1>3 DEF RunScheduling, Write, Overwrite
  <2> QED
    BY <1>0, <1>1, <2>1, AliveStatus
<1>4. ASSUME NEW S \in SUBSET Task, RunHeartbeat(S) PROVE LettersFollow
  <2> DEFINE new == [t \in S |-> Saved(FailAttempt(tasks[t]))]
  <2>1. \A t \in S : tasks[t].status = "Executing"
    BY <1>4 DEF RunHeartbeat, StaleTasks
  <2>2. /\ tasks' = [t \in Task |-> IF t \in S THEN new[t] ELSE tasks[t]]
        /\ dlq' = [t \in Task |-> IF t \in S /\ new[t].status = "Dead"
                                    THEN dlq[t] + 1 ELSE dlq[t]]
    BY <1>4 DEF RunHeartbeat, Write, Overwrite, BuryDead
  <2> HIDE DEF new
  <2>3. ASSUME NEW t \in Task
        PROVE  dlq'[t] = IF tasks[t].status # "Dead" /\ tasks'[t].status = "Dead"
                           THEN dlq[t] + 1 ELSE dlq[t]
    <3>1. CASE t \in S
      BY <2>1, <2>2, <3>1
    <3>2. CASE t \notin S
      BY <2>2, <3>2
    <3> QED
      BY <3>1, <3>2
  <2> QED
    BY <2>3 DEF LettersFollow
<1>5. ASSUME NEW w \in Worker, worker[w].pc = "calling", HoldsVersion(w)
      PROVE  /\ worker[w].task \in Task
             /\ worker[w].copy \in Row
             /\ tasks[worker[w].task].status = "Executing"
  BY <1>0, <1>5, BusyWorker DEF TableInv, VersionIdentifiesRow
<1>6. ASSUME NEW w \in Worker, AcquireQueued(w) PROVE LettersFollow
  <2>1. /\ worker[w].task \in Task
        /\ tasks'[worker[w].task].status = "Executing"
        /\ tasks' = [tasks EXCEPT ![worker[w].task] = tasks'[worker[w].task]]
        /\ UNCHANGED dlq
    BY <1>0, <1>6, Captured DEF AcquireQueued, Write
  <2> QED
    BY <1>0, <1>1, <2>1
<1>7. ASSUME NEW w \in Worker, RecordSuccess(w) PROVE LettersFollow
  <2> DEFINE t == worker[w].task
             row == Saved(Finished(t, worker[w].copy))
  <2>1. t \in Task /\ row.status # "Dead"
    BY <1>5, <1>7, AliveStatus DEF RecordSuccess
  <2>2. tasks' = [tasks EXCEPT ![t] = row] /\ UNCHANGED dlq
    BY <1>7 DEF RecordSuccess, Write
  <2> HIDE DEF t, row
  <2> QED
    BY <1>0, <1>1, <2>1, <2>2
<1>8. ASSUME NEW w \in Worker, RecordFailure(w) PROVE LettersFollow
  <2> DEFINE t == worker[w].task
             row == Saved(FailAttempt(worker[w].copy))
  <2>1. t \in Task /\ tasks[t].status = "Executing"
    BY <1>5, <1>8 DEF RecordFailure
  <2>2. tasks' = [tasks EXCEPT ![t] = row]
    BY <1>8 DEF RecordFailure, Write
  <2>3. dlq' = [x \in Task |-> IF x \in {t} /\ [y \in {t} |-> row][x].status = "Dead"
                                 THEN dlq[x] + 1 ELSE dlq[x]]
    BY <1>8 DEF RecordFailure, BuryDead
  <2> HIDE DEF t, row
  <2>4. ASSUME NEW x \in Task
        PROVE  dlq'[x] = IF tasks[x].status # "Dead" /\ tasks'[x].status = "Dead"
                           THEN dlq[x] + 1 ELSE dlq[x]
    <3>1. CASE x = t
      BY <1>0, <2>1, <2>2, <2>3, <3>1
    <3>2. CASE x # t
      BY <1>0, <2>2, <2>3, <3>2
    <3> QED
      BY <3>1, <3>2
  <2> QED
    BY <2>4 DEF LettersFollow
<1>9. ASSUME NEW c \in Client, Save(c) PROVE LettersFollow
  <2> DEFINE t == client[c].task
             row == Saved(Apply(client[c].op, client[c].copy))
  <2>1. t \in Task /\ client[c].copy \in Row /\ client[c].op \in Operation
    BY <1>0, <1>9, BusyClient DEF Save
  <2>2. row.status # "Dead"
    BY <2>1, AliveStatus DEF Apply, Operation
  <2>3. tasks' = [tasks EXCEPT ![t] = row] /\ UNCHANGED dlq
    BY <1>9 DEF Save, Write
  <2> HIDE DEF t, row
  <2> QED
    BY <1>0, <1>1, <2>1, <2>2, <2>3
<1>10. ASSUME tasks' = tasks, UNCHANGED dlq PROVE LettersFollow
  BY <1>1, <1>10
<1>11. ASSUME NEW r \in Relay, RelayStep(r) PROVE tasks' = tasks /\ UNCHANGED dlq
  BY <1>11 DEF RelayStep, PickBatch, PublishToQueue, DeliverResult, SendFails, CommitBatch,
               LoseBatch, rows
<1>12. CASE UNCHANGED vars
  BY <1>10, <1>12 DEF vars, rows
<1>13. CASE \E t \in Task : CreateTask(t) \/ Clock(t)
  BY <1>2, <1>10, <1>13 DEF Clock, NextExecutionArrives, LockExpires
<1>14. CASE Background
  BY <1>3, <1>4, <1>14 DEF Background
<1>15. CASE \E w \in Worker : WorkerStep(w)
  BY <1>6, <1>7, <1>8, <1>10, <1>15
     DEF WorkerStep, Deliver, SkipDelivery, RecordConflicts, Ack, WorkerFails, rows
<1>16. CASE \E c \in Client : ClientStep(c)
  BY <1>9, <1>10, <1>16 DEF ClientStep, Load, SaveConflicts, rows
<1> QED
  BY <1>10, <1>11, <1>12, <1>13, <1>14, <1>15, <1>16 DEF Next

\* The last attempt and the dead letter belong together, whoever counted it.
THEOREM DeadLettersExact == Spec => []DeadLetterExact
<1>1. Init => DeadLetterExact
  BY MaxAttemptsAssumption DEF Init, AbsentRow, DeadLetterExact
<1>2. ASSUME TableInv, DeadLetterExact, [Next]_vars
      PROVE  DeadLetterExact'
  <2>1. ASSUME NEW t \in Task
        PROVE  dlq'[t] = IF tasks'[t].status = "Dead" THEN 1 ELSE 0
    <3>1. CASE tasks[t].status = "Dead"
      <4>1. tasks'[t] = tasks[t]
        BY <1>2, <3>1, FinalRowKept DEF FinalStatuses
      <4> QED
        BY <1>2, <3>1, <4>1, StepBuries DEF LettersFollow, DeadLetterExact
    <3>2. CASE tasks[t].status # "Dead"
      BY <1>2, <3>2, StepBuries DEF LettersFollow, DeadLetterExact
    <3> QED
      BY <3>1, <3>2
  <2>2. \A t \in Task : RowOK(tasks'[t])
    BY <1>2, VersionsGrow
  <2> QED
    BY <2>1, <2>2 DEF RowOK, DeadLetterExact
<1> QED
  BY <1>1, <1>2, TableInvariant, PTL DEF Spec

-----------------------------------------------------------------------------
(* Who changes an executing row.                                           *)

\* An executing row is changed by its holder, by the heartbeat after the lock has
\* expired, or by a cancellation.
LEMMA TakenFromHolder ==
  ASSUME TableInv, [Next]_vars,
         NEW t \in Task, tasks[t].status = "Executing", tasks'[t] # tasks[t]
  PROVE  \/ tasks'[t].status = "Cancelled"
         \/ t \in expired
         \/ \E w \in Worker : /\ worker[w].pc = "calling"
                              /\ worker[w].task = t
                              /\ worker[w].copy = tasks[t]
                              /\ worker'[w].pc = "acking"
<1> DEFINE Holder == \E w \in Worker : /\ worker[w].pc = "calling"
                                       /\ worker[w].task = t
                                       /\ worker[w].copy = tasks[t]
                                       /\ worker'[w].pc = "acking"
           Taken == tasks'[t].status = "Cancelled" \/ t \in expired \/ Holder
<1>0. /\ tasks \in [Task -> Row] /\ worker \in [Worker -> WorkerState]
      /\ client \in [Client -> ClientState]
  BY DEF TableInv, TypeOK
<1>1. ASSUME NEW u \in Task, CreateTask(u) PROVE FALSE
  <2>1. tasks' = [tasks EXCEPT ![u] = BuildTask] /\ tasks[u].status = "Absent"
    BY <1>1 DEF CreateTask, Write
  <2>2. t # u
    BY <2>1
  <2> QED
    BY <1>0, <2>1, <2>2
<1>2. ASSUME NEW S \in SUBSET Task, RunScheduling(S) PROVE FALSE
  <2>1. \A u \in S : tasks[u].status = "Scheduled"
    BY <1>2 DEF RunScheduling, ReadyTasks
  <2>2. \A u \in Task \ S : tasks'[u] = tasks[u]
    BY <1>2 DEF RunScheduling, Write, Overwrite
  <2> QED
    BY <2>1, <2>2
<1>3. ASSUME NEW S \in SUBSET Task, RunHeartbeat(S) PROVE Taken
  <2>1. S \subseteq expired
    BY <1>3 DEF RunHeartbeat, StaleTasks
  <2>2. \A u \in Task \ S : tasks'[u] = tasks[u]
    BY <1>3 DEF RunHeartbeat, Write, Overwrite
  <2> QED
    BY <2>1, <2>2
<1>4. ASSUME NEW w \in Worker, AcquireQueued(w) PROVE FALSE
  <2>1. /\ tasks[worker[w].task].status = "Queued"
        /\ \E row : tasks' = [tasks EXCEPT ![worker[w].task] = row]
    BY <1>4 DEF AcquireQueued, Write
  <2>2. t # worker[w].task
    BY <2>1
  <2> QED
    BY <1>0, <2>1, <2>2
<1>5. ASSUME NEW w \in Worker, RecordSuccess(w) \/ RecordFailure(w) PROVE Taken
  <2>1. /\ worker[w].pc = "calling" /\ HoldsVersion(w)
        /\ \E row : tasks' = [tasks EXCEPT ![worker[w].task] = row]
        /\ \E u : worker' = [worker EXCEPT ![w] = [IdleWorker EXCEPT !.pc = "acking", !.task = u]]
    BY <1>5 DEF RecordSuccess, RecordFailure, Write
  <2>2. worker[w].copy = tasks[worker[w].task]
    BY <2>1 DEF TableInv, VersionIdentifiesRow
  <2>3. t = worker[w].task
    BY <1>0, <2>1
  <2>4. worker'[w].pc = "acking"
    BY <1>0, <2>1 DEF IdleWorker
  <2> QED
    BY <2>1, <2>2, <2>3, <2>4
<1>6. ASSUME NEW c \in Client, Save(c) PROVE Taken
  <2>1. /\ client[c].op # "none" /\ LoadedVersion(c)
        /\ tasks' = [tasks EXCEPT ![client[c].task] =
                       Saved(Apply(client[c].op, client[c].copy))]
    BY <1>6 DEF Save, Write
  <2>2. client[c].copy = tasks[client[c].task] /\ Allows(client[c].op, client[c].copy)
    BY <2>1 DEF TableInv, VersionIdentifiesRow, LoadedAllows
  <2>3. t = client[c].task /\ client[c].op \in Operation
    BY <1>0, <2>1, BusyClient
  <2>4. client[c].op = "Cancel"
    BY <2>2, <2>3 DEF Operation, Allows, CanPause, CanResume
  <2>5. tasks'[t] = Saved(Cancel(tasks[t]))
    BY <1>0, <2>1, <2>2, <2>3, <2>4 DEF Apply
  <2> QED
    BY <1>0, <2>5, AliveStatus
<1>7. ASSUME tasks' = tasks PROVE FALSE
  BY <1>7
<1>8. CASE \E r \in Relay : RelayStep(r)
  BY <1>7, <1>8 DEF RelayStep, PickBatch, PublishToQueue, DeliverResult, SendFails,
                    CommitBatch, LoseBatch, rows
<1>9. CASE \E u \in Task : CreateTask(u) \/ Clock(u)
  BY <1>1, <1>7, <1>9 DEF Clock, NextExecutionArrives, LockExpires
<1>10. CASE \E w \in Worker : WorkerStep(w)
  BY <1>4, <1>5, <1>7, <1>10
     DEF WorkerStep, Deliver, SkipDelivery, RecordConflicts, Ack, WorkerFails, rows
<1>11. CASE \E c \in Client : ClientStep(c)
  BY <1>6, <1>7, <1>11 DEF ClientStep, Load, SaveConflicts, rows
<1>12. CASE UNCHANGED vars
  BY <1>7, <1>12 DEF vars, rows
<1> QED
  BY <1>2, <1>3, <1>8, <1>9, <1>10, <1>11, <1>12 DEF Next, Background

\* An executing row is changed by its holder, by the heartbeat after the lock has
\* expired, or by a cancellation (UpdateAsync, GetStaleExecutingTasksAsync).
THEOREM OutcomesByHolder == Spec => OutcomeByHolder
<1>1. TableInv /\ [Next]_vars =>
        [\A t \in Task : tasks[t].status = "Executing" /\ tasks'[t] # tasks[t] =>
           \/ tasks'[t].status = "Cancelled"
           \/ t \in expired
           \/ \E w \in Worker : /\ worker[w].pc = "calling"
                                /\ worker[w].task = t
                                /\ worker[w].copy = tasks[t]
                                /\ worker'[w].pc = "acking"]_vars
  BY TakenFromHolder
<1> QED
  BY <1>1, TableInvariant, PTL DEF Spec, OutcomeByHolder
=============================================================================
