------------------------------ MODULE TaskEngine ------------------------------
(***************************************************************************)
(* The execution pipeline of the scheduler: the table tasks, the outbox,   *)
(* the RabbitMQ queue and the actors that share them -- the scheduler      *)
(* worker, the outbox relay, the execution workers, the heartbeat and the  *)
(* requests of the REST API.  A transaction that takes no decision outside *)
(* the database is one step; every place where a handler leaves the        *)
(* database (publishing, the HTTP call, the gap between an unlocked read   *)
(* and its conditional write) separates two steps.                         *)
(*                                                                         *)
(* Time is the order in which dates are reached: due holds the tasks whose *)
(* NextExecutionAt has been reached, expired those whose LockedUntil has.  *)
(***************************************************************************)
EXTENDS ScheduledTask, FiniteSets

CONSTANTS
  Task,         \* the ids a task can have
  Periodic,     \* the tasks of TaskType.Periodic; the others are OneTime
  Delivering,   \* the tasks that carry a ResultDeliveryConfig
  Worker,       \* the consumers of task_execution_queue, one message each
  Relay,        \* the running instances of the outbox processor
  Client,       \* the requests the API handles at a time
  NoTask,       \* no task id
  MaxRetries,   \* OutboxMessage.MaxRetries
  MaxVersion,   \* bound: no transition that a retry cannot undo starts from here on
  MaxFaults     \* bound: crashes and failed calls in a behaviour

ASSUME EngineAssumption ==
  /\ Periodic \subseteq Task
  /\ Delivering \subseteq Task
  /\ NoTask \notin Task
  /\ MaxRetries \in Nat
  /\ MaxVersion \in Nat
  /\ MaxFaults \in Nat

VARIABLES
  tasks,      \* the table tasks
  due,        \* the tasks whose NextExecutionAt <= now
  expired,    \* the tasks whose LockedUntil <= now
  outbox,     \* the table outbox_messages
  dlq,        \* dead_letter_queue: how many entries each task has
  relay,      \* each relay's open transaction
  broker,     \* task_execution_queue: the ready messages, per task id
  worker,     \* what each execution worker is doing
  client,     \* what each API request has loaded
  delivered,  \* the tasks a result of which has reached its receiver
  givenUp,    \* the outbox messages removed unsent, as the error log names them
  faults      \* faults so far

rows    == <<tasks, due, expired>>
relayed == <<relay, outbox, givenUp, delivered>>
vars    == <<rows, outbox, dlq, relay, broker, worker, client, delivered, givenUp, faults>>

-----------------------------------------------------------------------------
(* The data.                                                               *)

\* A message is identified by its task and the version its transaction gave
\* the row: no two messages of a task are written by the same update.
Message == [kind    : {"TaskQueuedEvent", "ResultDeliveryRequested"},
            task    : Task,
            id      : Nat,
            retries : 0..MaxRetries]

OutboxMessage(k, t, v) == [kind |-> k, task |-> t, id |-> v, retries |-> 0]

QueuedEvent(t, v)    == OutboxMessage("TaskQueuedEvent", t, v)
DeliveryRequest(t, v) == OutboxMessage("ResultDeliveryRequested", t, v)

\* The rows a relay has locked, those it has sent and those it could not send.
Batch      == [picked : SUBSET Message, sent : SUBSET Message, failed : SUBSET Message]
EmptyBatch == [picked |-> {}, sent |-> {}, failed |-> {}]

\* copy is the aggregate in the worker's memory; it lives while the request runs.
IdleWorker  == [pc |-> "idle", task |-> NoTask, copy |-> AbsentRow]
WorkerState == {IdleWorker} \cup
  [pc : {"received", "calling", "acking"}, task : Task, copy : Row]

Operation   == {"Pause", "Resume", "Cancel"}
IdleClient  == [op |-> "none", task |-> NoTask, copy |-> AbsentRow]
ClientState == {IdleClient} \cup [op : Operation, task : Task, copy : Row]

TypeOK ==
  /\ tasks \in [Task -> Row]
  /\ due \subseteq Task
  /\ expired \subseteq Task
  /\ outbox \subseteq Message
  /\ dlq \in [Task -> Nat]
  /\ relay \in [Relay -> Batch]
  /\ broker \in [Task -> Nat]
  /\ worker \in [Worker -> WorkerState]
  /\ client \in [Client -> ClientState]
  /\ delivered \subseteq Task
  /\ givenUp \subseteq Message
  /\ faults \in 0..MaxFaults

Init ==
  /\ tasks = [t \in Task |-> AbsentRow]
  /\ due = {}
  /\ expired = {}
  /\ outbox = {}
  /\ dlq = [t \in Task |-> 0]
  /\ relay = [r \in Relay |-> EmptyBatch]
  /\ broker = [t \in Task |-> 0]
  /\ worker = [w \in Worker |-> IdleWorker]
  /\ client = [c \in Client |-> IdleClient]
  /\ delivered = {}
  /\ givenUp = {}
  /\ faults = 0

\* One more call fails, or one more process dies.
Fault == /\ faults < MaxFaults
         /\ faults' = faults + 1

-----------------------------------------------------------------------------
(* Writing rows.  A date that an update sets may already have been reached *)
(* when the transaction commits: the handlers take the current time before *)
(* the work they record.  late holds the tasks of which that is so.        *)

Write(table, late) ==
  /\ tasks' = table
  /\ due' = {t \in Task : table[t].next /\ IF tasks[t].next THEN t \in due ELSE t \in late}
  /\ expired' = {t \in expired : table[t].lock}

\* The table with the rows of S replaced by what the update computes for them.
Overwrite(S, new) == [t \in Task |-> IF t \in S THEN new[t] ELSE tasks[t]]

\* The entries the rows that died leave in the dead letter queue.
BuryDead(S, new) ==
  dlq' = [t \in Task |-> IF t \in S /\ new[t].status = "Dead" THEN dlq[t] + 1 ELSE dlq[t]]

-----------------------------------------------------------------------------
(* Time.                                                                   *)

NextExecutionArrives(t) ==
  /\ tasks[t].next
  /\ t \notin due
  /\ due' = due \cup {t}
  /\ UNCHANGED <<tasks, expired, relayed, dlq, broker, worker, client, faults>>

LockExpires(t) ==
  /\ tasks[t].lock
  /\ t \notin expired
  /\ expired' = expired \cup {t}
  /\ UNCHANGED <<tasks, due, relayed, dlq, broker, worker, client, faults>>

-----------------------------------------------------------------------------
(* The background transactions over the table.  FOR UPDATE SKIP LOCKED     *)
(* returns the qualifying rows no other transaction holds: any of them.    *)

ReadyTasks == {t \in due : tasks[t].status = "Scheduled" /\ tasks[t].version < MaxVersion}

RunScheduling(S) ==
  /\ S # {}
  /\ S \subseteq ReadyTasks
  /\ Write(Overwrite(S, [t \in S |-> Saved(Enqueue(tasks[t]))]), {})
  /\ outbox' = outbox \cup {QueuedEvent(t, tasks[t].version + 1) : t \in S}
  /\ UNCHANGED <<relay, givenUp, delivered, dlq, broker, worker, client, faults>>

\* Mutant: an executing task is stale although its lock still holds.
StaleWhileLocked == {t \in Task : tasks[t].status = "Executing"}

StaleTasks == {t \in expired : tasks[t].status = "Executing"}

\* Mutant: the heartbeat lets a task die without a dead letter.
HeartbeatWithoutLetter(S) ==
  /\ S # {}
  /\ S \subseteq StaleTasks
  /\ \E late \in SUBSET S :
       Write(Overwrite(S, [t \in S |-> Saved(FailAttempt(tasks[t]))]), late)
  /\ UNCHANGED <<relayed, dlq, broker, worker, client, faults>>

RunHeartbeat(S) ==
  /\ S # {}
  /\ S \subseteq StaleTasks
  /\ LET new == [t \in S |-> Saved(FailAttempt(tasks[t]))]
     IN  /\ \E late \in SUBSET S : Write(Overwrite(S, new), late)
         /\ BuryDead(S, new)
  /\ UNCHANGED <<relayed, broker, worker, client, faults>>

-----------------------------------------------------------------------------
(* The outbox relay: one transaction locks a batch, the messages leave one *)
(* by one before it commits, and the commit removes or counts them.        *)

LockedMessages == UNION {relay[r].picked : r \in Relay}

PickBatch(r) ==
  /\ relay[r].picked = {}
  /\ outbox \ LockedMessages # {}
  /\ relay' = [relay EXCEPT ![r].picked = outbox \ LockedMessages]
  /\ UNCHANGED <<rows, outbox, givenUp, delivered, dlq, broker, worker, client, faults>>

Unprocessed(r) == relay[r].picked \ (relay[r].sent \cup relay[r].failed)

PublishToQueue(r, m) ==
  /\ m \in Unprocessed(r)
  /\ m.kind = "TaskQueuedEvent"
  /\ broker' = [broker EXCEPT ![m.task] = @ + 1]
  /\ relay' = [relay EXCEPT ![r].sent = @ \cup {m}]
  /\ UNCHANGED <<rows, outbox, givenUp, delivered, dlq, worker, client, faults>>

DeliverResult(r, m) ==
  /\ m \in Unprocessed(r)
  /\ m.kind = "ResultDeliveryRequested"
  /\ delivered' = delivered \cup {m.task}
  /\ relay' = [relay EXCEPT ![r].sent = @ \cup {m}]
  /\ UNCHANGED <<rows, outbox, givenUp, dlq, broker, worker, client, faults>>

\* A publish the broker did not confirm may have stored the message.
SendFails(r, m) ==
  /\ m \in Unprocessed(r)
  /\ Fault
  /\ relay' = [relay EXCEPT ![r].failed = @ \cup {m}]
  /\ \/ UNCHANGED broker
     \/ /\ m.kind = "TaskQueuedEvent"
        /\ broker' = [broker EXCEPT ![m.task] = @ + 1]
  /\ UNCHANGED <<rows, outbox, givenUp, delivered, dlq, worker, client>>

CanRetry(m)  == m.retries < MaxRetries
Retried(m)   == [m EXCEPT !.retries = @ + 1]

\* Mutant: the commit removes what could not be sent along with what was.
CommitDroppingFailed(r) ==
  /\ relay[r].picked # {}
  /\ Unprocessed(r) = {}
  /\ outbox' = outbox \ relay[r].picked
  /\ givenUp' = givenUp \cup {m \in relay[r].failed : ~CanRetry(m)}
  /\ relay' = [relay EXCEPT ![r] = EmptyBatch]
  /\ UNCHANGED <<rows, delivered, dlq, broker, worker, client, faults>>

CommitBatch(r) ==
  /\ relay[r].picked # {}
  /\ Unprocessed(r) = {}
  /\ outbox' = (outbox \ relay[r].picked)
                  \cup {Retried(m) : m \in {f \in relay[r].failed : CanRetry(f)}}
  /\ givenUp' = givenUp \cup {m \in relay[r].failed : ~CanRetry(m)}
  /\ relay' = [relay EXCEPT ![r] = EmptyBatch]
  /\ UNCHANGED <<rows, delivered, dlq, broker, worker, client, faults>>

\* The relay dies, or its commit fails: what it sent stays sent.
LoseBatch(r) ==
  /\ relay[r].picked # {}
  /\ Fault
  /\ relay' = [relay EXCEPT ![r] = EmptyBatch]
  /\ UNCHANGED <<rows, outbox, givenUp, delivered, dlq, broker, worker, client>>

-----------------------------------------------------------------------------
(* The execution workers: one unacknowledged message each, the capture of  *)
(* the row, the HTTP request outside any transaction, the transaction that *)
(* records its result, the acknowledgement.                                *)

\* Mutant: a message is consumed that is not in the queue.
DeliverFromEmpty(w, t) ==
  /\ worker[w].pc = "idle"
  /\ broker' = [broker EXCEPT ![t] = @ - 1]
  /\ worker' = [worker EXCEPT ![w] = [IdleWorker EXCEPT !.pc = "received", !.task = t]]
  /\ UNCHANGED <<rows, relayed, dlq, client, faults>>

Deliver(w, t) ==
  /\ worker[w].pc = "idle"
  /\ broker[t] > 0
  /\ broker' = [broker EXCEPT ![t] = @ - 1]
  /\ worker' = [worker EXCEPT ![w] = [IdleWorker EXCEPT !.pc = "received", !.task = t]]
  /\ UNCHANGED <<rows, relayed, dlq, client, faults>>

AcquireQueued(w) ==
  LET t   == worker[w].task
      row == TryAcquireQueuedTask(tasks[t])
  IN  /\ worker[w].pc = "received"
      /\ tasks[t].status = "Queued"
      /\ Write([tasks EXCEPT ![t] = row], {})
      /\ worker' = [worker EXCEPT ![w] = [pc |-> "calling", task |-> t, copy |-> row]]
      /\ UNCHANGED <<relayed, dlq, broker, client, faults>>

\* Already captured, cancelled, or of an earlier run: nothing to do but ack.
SkipDelivery(w) ==
  /\ worker[w].pc = "received"
  /\ tasks[worker[w].task].status # "Queued"
  /\ worker' = [worker EXCEPT ![w].pc = "acking"]
  /\ UNCHANGED <<rows, relayed, dlq, broker, client, faults>>

\* Mutant: the update of the result does not compare versions.
HoldsAnyVersion(w) == TRUE

\* The row is still of the version the worker captured.
HoldsVersion(w) == tasks[worker[w].task].version = worker[w].copy.version

Finished(t, copy) ==
  IF t \in Periodic THEN Reschedule(copy) ELSE CompleteSuccessfully(copy)

RecordSuccess(w) ==
  LET t   == worker[w].task
      row == Saved(Finished(t, worker[w].copy))
  IN  /\ worker[w].pc = "calling"
      /\ HoldsVersion(w)
      /\ \E late \in SUBSET {t} : Write([tasks EXCEPT ![t] = row], late)
      /\ outbox' = IF t \in Delivering THEN outbox \cup {DeliveryRequest(t, row.version)}
                                       ELSE outbox
      /\ worker' = [worker EXCEPT ![w] = [IdleWorker EXCEPT !.pc = "acking", !.task = t]]
      /\ UNCHANGED <<relay, givenUp, delivered, dlq, broker, client, faults>>

RecordFailure(w) ==
  LET t   == worker[w].task
      row == Saved(FailAttempt(worker[w].copy))
  IN  /\ worker[w].pc = "calling"
      /\ HoldsVersion(w)
      /\ \E late \in SUBSET {t} : Write([tasks EXCEPT ![t] = row], late)
      /\ BuryDead({t}, [x \in {t} |-> row])
      /\ worker' = [worker EXCEPT ![w] = [IdleWorker EXCEPT !.pc = "acking", !.task = t]]
      /\ UNCHANGED <<relayed, broker, client, faults>>

\* Mutant: a message that was not acknowledged does not come back.
DropUnacked(w) ==
  /\ UNCHANGED broker
  /\ worker' = [worker EXCEPT ![w] = IdleWorker]

\* Negative acknowledgement, or the broker noticing that the consumer is gone.
Requeue(w) ==
  /\ broker' = [broker EXCEPT ![worker[w].task] = @ + 1]
  /\ worker' = [worker EXCEPT ![w] = IdleWorker]

\* ConcurrencyException: the transaction is rolled back and the message requeued.
RecordConflicts(w) ==
  /\ worker[w].pc = "calling"
  /\ ~HoldsVersion(w)
  /\ Requeue(w)
  /\ UNCHANGED <<rows, relayed, dlq, client, faults>>

Ack(w) ==
  /\ worker[w].pc = "acking"
  /\ worker' = [worker EXCEPT ![w] = IdleWorker]
  /\ UNCHANGED <<rows, relayed, dlq, broker, client, faults>>

\* The process dies, or a statement of the open transaction fails.
WorkerFails(w) ==
  /\ worker[w].pc # "idle"
  /\ Fault
  /\ Requeue(w)
  /\ UNCHANGED <<rows, relayed, dlq, client>>

-----------------------------------------------------------------------------
(* The REST API: create, and the three operations that load a row without  *)
(* a lock, change the aggregate and write it under its loaded version.     *)

CreateTask(t) ==
  /\ tasks[t].status = "Absent"
  /\ \E late \in SUBSET {t} : Write([tasks EXCEPT ![t] = BuildTask], late)
  /\ UNCHANGED <<relayed, dlq, broker, worker, client, faults>>

Allows(op, row) == CASE op = "Pause"  -> CanPause(row)
                     [] op = "Resume" -> CanResume(row)
                     [] op = "Cancel" -> CanCancel(row)

Apply(op, row) == CASE op = "Pause"  -> Pause(row)
                    [] op = "Resume" -> Resume(row)
                    [] op = "Cancel" -> Cancel(row)

\* An operation the aggregate refuses is an error reply and changes nothing.
Load(c, op, t) ==
  /\ client[c].op = "none"
  /\ tasks[t].version < MaxVersion
  /\ Allows(op, tasks[t])
  /\ client' = [client EXCEPT ![c] = [op |-> op, task |-> t, copy |-> tasks[t]]]
  /\ UNCHANGED <<rows, relayed, dlq, broker, worker, faults>>

LoadedVersion(c) == tasks[client[c].task].version = client[c].copy.version

Save(c) ==
  LET t == client[c].task
  IN  /\ client[c].op # "none"
      /\ LoadedVersion(c)
      /\ Write([tasks EXCEPT ![t] = Saved(Apply(client[c].op, client[c].copy))], {})
      /\ client' = [client EXCEPT ![c] = IdleClient]
      /\ UNCHANGED <<relayed, dlq, broker, worker, faults>>

SaveConflicts(c) ==
  /\ client[c].op # "none"
  /\ ~LoadedVersion(c)
  /\ client' = [client EXCEPT ![c] = IdleClient]
  /\ UNCHANGED <<rows, relayed, dlq, broker, worker, faults>>

-----------------------------------------------------------------------------
(* The specification.                                                      *)

Clock(t) == NextExecutionArrives(t) \/ LockExpires(t)

Background == \E S \in SUBSET Task : RunScheduling(S) \/ RunHeartbeat(S)

RelayStep(r) ==
  \/ PickBatch(r)
  \/ \E m \in relay[r].picked : PublishToQueue(r, m) \/ DeliverResult(r, m) \/ SendFails(r, m)
  \/ CommitBatch(r)
  \/ LoseBatch(r)

WorkerStep(w) ==
  \/ \E t \in Task : Deliver(w, t)
  \/ AcquireQueued(w)
  \/ SkipDelivery(w)
  \/ RecordSuccess(w)
  \/ RecordFailure(w)
  \/ RecordConflicts(w)
  \/ Ack(w)
  \/ WorkerFails(w)

ClientStep(c) ==
  \/ \E op \in Operation, t \in Task : Load(c, op, t)
  \/ Save(c)
  \/ SaveConflicts(c)

Next ==
  \/ \E t \in Task : CreateTask(t) \/ Clock(t)
  \/ Background
  \/ \E r \in Relay : RelayStep(r)
  \/ \E w \in Worker : WorkerStep(w)
  \/ \E c \in Client : ClientStep(c)

Spec == Init /\ [][Next]_vars

\* Dates are reached; the periodic workers run again and again, and no row
\* stays locked by another transaction; the relay and the consumers go on; a
\* request ends, if only by its timeout, and so does an API call.  Nothing is
\* promised of users: they need not create, pause, resume or cancel.
Fairness ==
  /\ \A t \in Task :
       /\ WF_vars(Clock(t))
       /\ WF_vars(\E S \in SUBSET Task : t \in S /\ RunScheduling(S))
       /\ WF_vars(\E S \in SUBSET Task : t \in S /\ RunHeartbeat(S))
  /\ \A r \in Relay :
       WF_vars(\/ PickBatch(r)
               \/ \E m \in relay[r].picked : PublishToQueue(r, m) \/ DeliverResult(r, m)
               \/ CommitBatch(r))
  /\ \A w \in Worker :
       /\ WF_vars(\E t \in Task : Deliver(w, t))
       /\ WF_vars(\/ AcquireQueued(w) \/ SkipDelivery(w) \/ RecordSuccess(w)
                  \/ RecordFailure(w) \/ RecordConflicts(w) \/ Ack(w))
  /\ \A c \in Client : WF_vars(Save(c) \/ SaveConflicts(c))

FairSpec == Spec /\ Fairness

-----------------------------------------------------------------------------
(* What the rows promise.                                                  *)

\* The dates of a persisted row fit its status: a lock is held exactly while
\* a task executes (else the heartbeat misses it or kills an idle task), a
\* next date is set exactly while the task waits for one (else the scheduler
\* never finds it; a Queued or Paused task keeps it, against the comment on
\* NextExecutionAt, see NextDateWhenScheduled), a captured task remembers the date
\* it was planned for (else Reschedule throws after the request was made), and the
\* statuses Created and Failed never survive the transaction that passed through them.
DatesFitStatus ==
  \A t \in Task : LET row == tasks[t] IN
    /\ row.lock <=> row.status = "Executing"
    /\ row.next <=> row.status \in {"Scheduled", "Queued", "Paused"}
    /\ row.status = "Executing" => row.scheduledAt
    /\ row.status \notin {"Created", "Failed"}

\* Optimistic locking is sound: an aggregate in the memory of a worker or of an
\* API request is either the row itself or of an older version, so a write
\* that passes the version check of UpdateAsync overwrites nothing unseen; and
\* no two workers work on one capture of a task.
VersionIdentifiesRow ==
  /\ \A w \in Worker : worker[w].pc = "calling" =>
       LET row == tasks[worker[w].task] IN
         /\ worker[w].copy.version <= row.version
         /\ HoldsVersion(w) => worker[w].copy = row /\ row.status = "Executing"
  /\ \A c \in Client : client[c].op # "none" =>
       LET row == tasks[client[c].task] IN
         /\ client[c].copy.version <= row.version
         /\ LoadedVersion(c) => client[c].copy = row
  /\ \A v, w \in Worker :
       v # w /\ worker[v].pc = "calling" /\ worker[w].pc = "calling"
         /\ worker[v].task = worker[w].task
       => worker[v].copy.version # worker[w].copy.version

\* A task is Dead exactly when its attempts are used up, and then, and only
\* then, the dead letter queue holds one entry for it -- whoever of the
\* execution handler and the heartbeat counted the last attempt.
DeadLetterExact ==
  \A t \in Task :
    /\ tasks[t].attempt <= MaxAttempts
    /\ tasks[t].status = "Dead" <=> tasks[t].attempt = MaxAttempts
    /\ dlq[t] = IF tasks[t].status = "Dead" THEN 1 ELSE 0

\* The message that will start task t is in the queue, or at a worker that has
\* not looked at the row yet.
AtBroker(t) ==
  broker[t] > 0 \/ \E w \in Worker : worker[w].pc = "received" /\ worker[w].task = t

InOutbox(k, t, v) == \E m \in outbox : m.kind = k /\ m.task = t /\ m.id = v
GivenUp(k, t, v)  == \E m \in givenUp : m.kind = k /\ m.task = t /\ m.id = v

\* A Queued task is found by nobody but the consumer of its message, so that
\* message is somewhere on its way, through crashes of the relay and of the
\* workers -- unless the relay gave it up after MaxRetries retries.
QueuedOnItsWay ==
  \A t \in Task : tasks[t].status = "Queued" =>
    \/ InOutbox("TaskQueuedEvent", t, tasks[t].version)
    \/ AtBroker(t)
    \/ GivenUp("TaskQueuedEvent", t, tasks[t].version)

\* The result of a OneTime task that asks for delivery is never dropped
\* silently, and none is delivered for a task that has not completed.
ResultsAccountedFor ==
  \A t \in Delivering \ Periodic :
    /\ tasks[t].status = "Completed" =>
         \/ InOutbox("ResultDeliveryRequested", t, tasks[t].version)
         \/ GivenUp("ResultDeliveryRequested", t, tasks[t].version)
         \/ t \in delivered
    /\ t \in delivered => tasks[t].status = "Completed"

\* A row in a final status is never written again, not even by a worker whose
\* request was in flight when the task was cancelled or declared dead.
FinalStatusIsFinal ==
  [][\A t \in Task : tasks[t].status \in FinalStatuses => tasks'[t] = tasks[t]]_vars

\* An executing task is taken from its worker by nobody but the user who
\* cancels it and the heartbeat once its lock has expired; any other change
\* of it is the recording of the one worker that holds this capture.
OutcomeByHolder ==
  [][\A t \in Task : tasks[t].status = "Executing" /\ tasks'[t] # tasks[t] =>
       \/ tasks'[t].status = "Cancelled"
       \/ t \in expired
       \/ \E w \in Worker : /\ worker[w].pc = "calling"
                            /\ worker[w].task = t
                            /\ worker[w].copy = tasks[t]
                            /\ worker'[w].pc = "acking"]_vars

-----------------------------------------------------------------------------
(* What must eventually happen.                                            *)

\* No task stays Executing for ever: its worker records a result, or its lock
\* expires and the heartbeat fails the attempt.
ExecutionEnds ==
  \A t \in Task : tasks[t].status = "Executing" ~> tasks[t].status # "Executing"

\* A OneTime task nobody interferes with ends in a final status, whatever
\* fails on the way; the one exception is a wake-up the relay gave up.
Settled(t) ==
  \/ tasks[t].status \in FinalStatuses
  \/ tasks[t].status = "Queued" /\ GivenUp("TaskQueuedEvent", t, tasks[t].version)

OneTimeTaskSettles ==
  \A t \in Task \ Periodic : tasks[t].status = "Scheduled" ~> Settled(t)

-----------------------------------------------------------------------------
(* What the documentation says and the code does not do.                   *)

\* IOutboxRepository: the outbox ensures guaranteed delivery of tasks to the
\* queue -- a Queued task's message is always still on its way.
DeliveryGuaranteed ==
  \A t \in Task : tasks[t].status = "Queued" =>
    InOutbox("TaskQueuedEvent", t, tasks[t].version) \/ AtBroker(t)

\* ScheduledTask.NextExecutionAt: the date is null if the task is not Scheduled.
NextDateWhenScheduled ==
  \A t \in Task : tasks[t].next => tasks[t].status = "Scheduled"

\* IOutboxRepository.RemoveAsync: exactly-once, the message is removed only
\* after the broker's confirmation -- the queue never holds a task twice.
QueuedExactlyOnce ==
  \A t \in Task :
    broker[t] + Cardinality({w \in Worker : worker[w].pc = "received" /\ worker[w].task = t}) <= 1

\* RunExecutionCommandHandler, phase 2: the task need not be reloaded, it was
\* captured and nobody else has changed it.
CapturedTaskUnchanged ==
  \A w \in Worker : worker[w].pc = "calling" => tasks[worker[w].task] = worker[w].copy
=============================================================================
