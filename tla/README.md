# TaskSchedulerNotification: a TLA+ development

The program is a task scheduler: a client registers HTTP calls to be made once,
periodically, as polls of a watched service, or in chains, and background
services make them, retry them and deliver their results. State lives in
PostgreSQL, wake-ups travel through a transactional outbox and a RabbitMQ queue,
and several services, and several instances of each, share the rows. This
directory models that machinery, checks it with TLC and proves the central facts
with TLAPS.

Paths below are relative to `src/src/`.

## 1. Inventory

| Component | State | Operations | Interacts through | Modelled in |
|---|---|---|---|---|
| Task aggregate (`Domain/Entities/ScheduledTask.cs`) | a row of `tasks`: status, `NextExecutionAt`, `LockedUntil`, `ScheduledAt`, `CurrentAttempt`, `Version` | schedule, enqueue, complete, fail, retry, reschedule, pause, resume, cancel | called by every handler | ScheduledTask |
| Task repository (`DapperTaskRepository.cs`) | the table | conditional capture, update under an expected version, batches with `FOR UPDATE SKIP LOCKED` | SQL | ScheduledTask, TaskEngine |
| Scheduler (`RunSchedulingCommandHandler`) | none | due rows become Queued, one outbox message each, one transaction | `tasks`, `outbox_messages` | TaskEngine |
| Outbox relay (`OutboxProcessorWorker`) | an open transaction and its batch | publish, deliver, remove, count a retry, give up, commit | outbox, queue, HTTP | TaskEngine |
| Queue (`RabbitMqMessageQueue`) | durable messages | publish, deliver, ack, requeue | relay, workers | TaskEngine |
| Execution worker (`TaskExecutionWorker`, `RunExecutionCommandHandler`) | one unacknowledged message, the captured aggregate in memory | capture, HTTP call, record the outcome, ack or nack | queue, `tasks`, outbox, DLQ | TaskEngine, TaskTimeline |
| Heartbeat (`RunHeartbeatCommandHandler`) | none | fails executions whose lock expired | `tasks`, DLQ | TaskEngine, TaskTimeline, ChainOrchestration |
| Task API (`Handlers/CrudHandlers`) | the aggregate a request has loaded | create, update, pause, resume, cancel | `tasks`, optimistic locking, unique key | TaskEngine, TaskRegistry |
| Dead letter queue (`DapperDeadLetterRepository`, `RetryFromDlqCommandHandler`) | entries | add, retry as a new task | `tasks` | TaskEngine, TaskRegistry |
| Polling (`RunPollingCheckCommandHandler`, `PollingState`) | last answer per task | read a batch, capture, call, compare, put back | `tasks`, outbox | PollingEngine, TaskTimeline |
| Job chains (`JobChain`, chain handlers and API) | status, index, current task | create, advance, fail (stop, skip, compensate), pause, resume, cancel | task events inside the task's transaction | JobChain, ChainOrchestration |
| Retry policy, schedule | value objects, JSON columns | next occurrence, delay of an attempt | aggregate | TaskTimeline |
| Unit of work, transaction decorator, event dispatcher | one connection and transaction per scope | begin, commit, rollback, dispatch | all handlers | as the atomicity of steps |
| Web layer, validation, queries, mapping, encryption, HTTP client, task logs | none a decision reads | | | not modelled |

What is hard here: an aggregate is loaded, work happens outside any
transaction, and the aggregate is written back (worker, poller, API, chain
handlers); the relay sends before its transaction commits; every message can come
twice; a worker can die in any state; the heartbeat races a late answer, and one
failing task rolls back its whole batch; scheduler and poller compete for the same
rows; a chain hears of the end of its step in the step's own transaction, or
never. `PROJECT.json` lists these hazards with the line where each one bites and
the properties that watch it.

## 2. Modules

| Module | What it is |
|---|---|
| **ScheduledTask** | the task aggregate: one operator per method, from row to row, and the statements that write rows (`Saved`, `TryAcquireQueuedTask`, `TryAcquirePollingTask`) |
| **TaskEngine** | the pipeline: table, outbox, dead letters, broker, and one action per step of the scheduler, the heartbeat, the relays, the workers and the API |
| **TaskContract**, **TaskRefinement** | the abstract specification of a task, job by job, with no rows, versions, locks or messages; the mapping of the engine onto it (`PhaseOf`) |
| **PollingEngine** | EXTENDS TaskEngine: the pollers, what the watched services answer, the stored answers |
| **TaskRegistry** | idempotency keys and identities: create, update, cancel and the retry of a dead letter as requests that read without a lock and write later |
| **JobChain** | the chain aggregate and what the two event handlers decide about a chain they have read |
| **ChainOrchestration** | a chain at work: its row, the tasks of its steps, the transactions that end a task and move the chain on |
| **ChainContract**, **ChainRefinement** | the abstract specification of a chain (its steps take turns); the mapping of the orchestration onto it, and of its tasks onto TaskContract |
| **TaskTimeline** | one task against a numeric clock: dates, delays, locks and timeouts, with handlers of messages and of pollers' batches |
| **MCTaskEngine**, **MCPolling**, **MCTaskRegistry**, **MCChain**, **MCTimeline** | the instances TLC runs |
| **TaskEngineProofs**, **TaskDeliveryProofs**, **TaskRefinementProofs** | the theorems about the engine: its rows, its messages, its refinement of TaskContract |
| **PollingProofs**, **TaskRegistryProofs**, **TimelineProofs** | the theorems about the modules they are named for |
| **ChainProofs**, **ChainRefinementProofs** | the theorems about the orchestration, and its refinement of the two contracts |

How they fit together: TaskContract stands between the layers. TaskEngine is shown
to implement it; ChainOrchestration uses tasks as it describes them, and
`KeepsTaskContract` checks that it assumes no more. PollingEngine contains every
action of TaskEngine. TaskRegistry reduces the engine to what a request sees of a
row (`EngineMoves`). TaskTimeline takes one row and gives its dates values; it and
TaskEngine divide the subject: there any order of dates with all the actors, here
the order that the arithmetic leaves, with few of them.

State and actions of the engine against the code:

| Model | Code |
|---|---|
| `tasks[t]`, with status `Absent` | a row of `tasks`; not inserted |
| `due`, `expired` | the rows for which `next_execution_at <= now`, `locked_until <= now` holds |
| `outbox`, `relay[r]` | `outbox_messages`; the rows a relay's transaction has locked, sent, failed to send |
| `broker[t]`, `worker[w]` | ready messages; the consumer with its unacknowledged message and the captured aggregate |
| `client[c]` | a pause, resume or cancel request between `GetByIdAsync` and `UpdateAsync` |
| `dlq[t]`, `delivered`, `givenUp` | DLQ entries; results received; the error log line of a message removed unsent |
| `RunScheduling(S)`, `RunHeartbeat(S)` | one transaction over the rows `S` it could lock |
| `PickBatch` .. `CommitBatch`, `LoseBatch` | one iteration of the relay's loop; a crash or failed commit in it |
| `AcquireQueued`, `RecordSuccess`, `RecordFailure`, `RecordConflicts`, `Ack`, `WorkerFails` | phase 1, phase 2 and the end of the consumer callback |
| `CreateTask`, `Load`, `Save`, `SaveConflicts` | the API handlers under the transaction decorator |

and of the other modules:

| Model | Code |
|---|---|
| `poller[p]`, `lastAnswer` (PollingEngine) | a pass of `RunPollingCheckCommandHandler` with the rest of its batch; `polling_states` |
| `ReadBatch`, `AcquirePolling`, `ServiceAnswers`, `LoadState`, `RecordCheck`, `RecordThrow` | the handler's two transactions and the three places where it is outside any |
| `condition[t]`, `FieldOf[a]`, `CanCompare`, `HasChanged` | `PollingConfig.Condition`; the watched field in an answer; the comparison of two answers, and whether it throws |
| `request[r]`, and `tasks[r]` for the row it adds (TaskRegistry) | an API request between its read and its commit |
| `Finish(r, accepted, ...)` | the decorator's transaction: everything, or nothing and an error |
| `chain`, `phase[j]` (ChainOrchestration) | the row of `job_chains`; a task as TaskContract sees it |
| `recording[j]`, `sweep` | the open transaction of the worker of `j`, or of the heartbeat, and the chain its event handlers have read in it |
| `OnTaskCompleted`, `OnTaskMovedToDlq` (JobChain) | the event handlers: ignore, throw, or save a chain and insert a task |
| `now`, `row`, `worker[w].began`, `.asked` (TaskTimeline) | the clock, the row with numeric dates, the times a handler took |
| `worker[w].kind` | whether the handler is `RunExecutionCommandHandler` with a message, or `RunPollingCheckCommandHandler` at a task of its batch; a polling task may be captured by either, since `GetScheduledBeforeAsync` has no condition on the type |

A transaction that takes no decision outside the database is one step: its rows
are locked (`FOR UPDATE`) or its statement is atomic. Whatever the code does
between database and outside world, or between an unlocked read and a
conditional write, separates two steps.

Abstractions, with their reasons:

* *Time* in TaskEngine is the order in which dates are reached: a row says whether
  a date is set, `due` and `expired` whether it has been reached. A date set by a
  handler that took the time before slow work may be in the past at commit (`late`).
* *`SKIP LOCKED` and batch sizes*: a pass takes any nonempty set of qualifying
  rows, which includes every set the limits of 200 and 50 leave. A relay takes
  all unlocked messages, there are always fewer than 50.
* *Message order* does not matter: within a batch messages are sent in any
  order, the queue is a bag. *A message* is identified by task and version, since
  every update of a row writes at most one.
* *One retry policy* in the engine: every task has `MaxAttempts` attempts; the policy
  read back from the database is the default for every task, which TaskTimeline
  models (`Written`, `Read`).
* *HTTP failures* are not faults: a request may fail any number of times.
* *An answer* of a watched service is a model value, with a number in the watched field,
  without the field, or no JSON at all; an answer without success is `NoAnswer`. Every
  task has a condition: none, "changed" (or "not_equal"), "greater_than", or a text the
  code does not know, which is never met. `PollingConfig.Value` is compared with nothing in
  the code, and so is not here. Values that are no numbers, which `Compare` orders as
  text, and JSON that is no object are left out.
* *One chain*, and a `Bystander` task beside it, with the number of steps fixed per
  instance: chains share no row, and what one does to others it does through the
  heartbeat's batch, where the bystander is.
* *Cron's calendar* is the multiples of a period.
* The null-strategy branch of the execution handler, and a cron expression without
  a next occurrence, are left out: no stored task has the one, and the other needs
  an expression that runs out between two runs.

## 3. Runs

| Run | Instance | Shows |
|---|---|---|
| `race` | 1 periodic task, 2 workers, 2 relays, 1 request, 2 attempts, 1 retry, 2 faults | `TypeOK`, `DatesFitStatus`, `VersionIdentifiesRow`, `DeadLetterExact`, `FinalStatusIsFinal`, `OutcomeByHolder`, and TaskContract (`KeepsContract`) |
| `liveness` | 1 OneTime task, 2 workers, 2 relays, 2 faults, fairness | `QueuedOnItsWay`, `ResultsAccountedFor`, `ExecutionEnds`, `OneTimeTaskSettles` |
| `registry` | 4 requests, 2 clients, 2 keys, the engine | `TypeOK`, `SameKeySameTask`, `CancelledForOne`, `LetterKept`, `ErrorLeavesNoTrace` |
| `polling` | 1 task of any condition, 2 pollers, 1 worker, 1 relay, 4 answers | `PollingTypeOK`, `PollerOwnsCapture`, `ComparesWithLatest`, `NewsIsDelivered`, `CheckByHolder` |
| `polling_liveness` | 2 tasks in one poller's batch, 1 request, an answer that is no JSON, 1 fault, fairness | `CheckEnds`, `FinalStatusIsFinal` |
| `chain_safety` | 6 plans of 3 steps, a bystander, 1 chain request, users on tasks, 1 fault | `TypeOK`, `ChainPointsToItsStep`, `StepsHaveCause`, `EndHasCause`, `StallsHaveCause`, ChainContract and TaskContract |
| `chain_liveness` | 3 sound plans, a bystander, 2 attempts, 2 faults, fairness | `ActiveChainHasLiveStep`, `RunningEnds`, `ChainEnds` |
| `timeline` | 4 descriptions, 2 handlers of either kind, clock to 14 | `TypeOK`, `NoParallelRuns`, `NoDrift`, `DatesAdvance`, `FailuresFitPolicy`, `HungOnly`, `RetryNearlyWaits` |
| `guaranteed_delivery` | 1 task, 1 worker, 1 relay, 2 faults | violated: `DeliveryGuaranteed` |
| `chain_keys` | 2 steps, keys checked at each statement | violated: `ValidChainAccepted` |
| `registry_retry` | 3 requests of a client, 2 keys | violated: `RetryRecreates` |
| `timeline_cron` | a periodic task with a cron schedule | violated: `OncePerDate` |

Bounds, and why they are enough.

* *Engine.* `MaxVersion` stops new scheduling and new user requests at that version
  of a row; whatever is under way goes on. In `race` five versions are enough for
  a task to be scheduled, captured, taken over, retried and captured again while the
  first worker still holds its old copy; in `liveness` eight are enough for both
  attempts to end without meeting the bound. `MaxFaults` bounds crashes and failed
  calls: two are enough for a message to be given up (`MaxRetries` = 1 needs a
  failure and a failed retry). Two attempts distinguish the last failure from the
  others; two workers and two relays are enough for every pairwise race; tasks do
  not share a row, so one task shows every interleaving of the actors on it.
* *Polling.* Two pollers and a worker meet at every capture. Four answers (a smaller and
  a larger number in the field, no field, no JSON) reach every branch of the comparison
  under every condition; six versions are three checks, so that an answer is stored,
  wiped or replaced by one without news, and compared with again, or that a poller's task
  is taken over, put back and captured again while the first poller is still calling.
  Crashes and users are in `polling_liveness`, where every answer is one that a later
  comparison throws at.
* *Registry.* Four requests are enough for two to compete for a key or a row after
  a first has made it and while a fourth retries or repeats.
* *Chains.* Three steps give a first, a middle and a last one; the plans put every
  failure action at each of them, with conditions that stop the chain, steps
  without a schedule, and compensation forwards, backwards, to the step itself and
  out of range. One attempt is enough for safety, where a death is what matters;
  two in the liveness run. `KeysDeferred` is TRUE in both: with the schema's foreign
  key as it is no chain can be created (`chain_keys`), and the two runs are about
  what chains do once it is deferrable. The liveness run has no users and sound plans
  only, because with either a chain may be stuck, as the further counterexamples
  below show.
* *Timeline.* The code's seconds are scaled: a lock of 3 + 2 for 30 + 5, retries of 1
  with jitter up to 1 for 60 and 15. A handler of a message has up to 1 of its own work
  before its request (`Slack`), a poller's up to 2 more for the tasks of its batch before
  this one (`Before`); with a request of 3 that is more than a poller's lock of 3. The
  descriptions include what the system is weak at: a request three times the default
  timeout, policies of two and of seven attempts where the one read back has five, and a
  polling task, captured by pollers and, once the scheduler has queued it, by workers. The
  properties say what still holds then; what is written and does not hold is below. In 14
  units a periodic task has four dates, and a task can fail five times.

Workers, relays, pollers, clients, keys, answers are interchangeable, and symmetry
is used where no liveness is checked. `CHECK_DEADLOCK FALSE`: a system whose tasks
have all ended is at rest, and so is one that has met its bounds.

Fairness, weak unless stated. The hosted services loop for ever with a pause
(`SchedulerWorker`, `HeartbeatWorker`, `OutboxProcessorWorker`, `PollingWorker`), so a
row that stays ready or stale is picked up; a transaction of another instance does
not keep a row locked for ever; dates are reached; an HTTP call ends, if only by
its timeout, so a worker's handler, a poller's check and an API request come to an
end; the broker delivers to an idle consumer. In ChainOrchestration a worker that
wants to record may find its row locked by the heartbeat time and again; PostgreSQL's
row lock is a queue that lets it through in the end, hence strong fairness of that
one action. Nothing is assumed of users, and crashes are not required to stop by
fairness: `MaxFaults` bounds them.

The mutants in `PROJECT.json` show that each property can fail: for each there is
a plausible bug (a dropped version check, a capture without lock, a key without
index, a chain that is saved at any version) that TLC finds with it. The mutated
operators stand in the modules before the definition they replace and are used by
nothing.

### Findings

1. *The outbox does not guarantee delivery.* After `MaxRetries` failed publishes the
   relay removes the message (`OutboxProcessorWorker.cs:75-79`); the task stays
   Queued, and no query looks for Queued rows again.
   `IOutboxRepository.cs:8` speaks of guaranteed delivery.
2. *No chain can be created.* `CreateJobChainCommandHandler.cs:68` inserts the chain with
   its `current_task_id` before the task, and the foreign key of
   `V001_InitialSchema.sql:89-91` is not deferrable.
3. *No dead letter can be retried.* The new task has the key of the dead one
   (`TaskFactory.cs:61`), whose row is still there (`RetryFromDlqCommandHandler.cs:55`).
4. *A cron task runs for one date again and again.* `Schedule.cs:112` asks for the next
   occurrence inclusively, from the date that was just run (`ScheduledTask.cs:315`);
   an absolute date has the same fate at line 98.

### Further counterexamples

These configurations are not among the runs above; each makes TLC violate the named
property, and shows another place where the code does not do what is written about
it. Run one with `tlc -config <cfg> <module>`.

| Configuration, module | Violates | What it shows | What is written |
|---|---|---|---|
| `NextDate.cfg`, MCTaskEngine | `NextDateWhenScheduled` | a Queued task keeps its date, as does a Paused one: neither `Enqueue` (`ScheduledTask.cs:178`) nor `Pause` (263) clears it, and the capture reads it (`DapperTaskRepository.cs:294`); `DatesFitStatus` and TaskTimeline's `TypeOK` say when it is really set | `ScheduledTask.cs:32`, null if the task is not Scheduled |
| `ExactlyOnce.cfg`, MCTaskEngine | `QueuedExactlyOnce` | a publish whose transaction does not commit is repeated; the conditional capture makes the duplicate harmless | `IOutboxRepository.cs:32`, exactly-once |
| `Captured.cfg`, MCTaskEngine | `CapturedTaskUnchanged` | a captured row is changed by a cancellation or the heartbeat; the version check protects it | `RunExecutionCommandHandler.cs:133`, nobody else changed it |
| `ChainPaused.cfg`, MCChain | `ActiveChainHasLiveStep` | a step that ends while its chain is paused is not heard; resumed, the chain waits for ever (`ChainStepCompletionHandler.cs:42`) | `ChainStatus.cs:11`, Active: steps are being executed |
| `ChainTaskCancelled.cfg`, MCChain | `ActiveChainHasLiveStep` | cancelling the current task raises no event a chain listens to | the same |
| `ChainSkip.cfg`, MCChain | `CurrentTaskOfCurrentStep` | `SkipToNext` leaves `CurrentTaskId` with the dead task (`JobChain.cs:178`); the end of the next one is ignored | `JobChain.cs:29`, the task of the current step |
| `ChainCompletion.cfg`, MCChain | `LastStepCompletesChain` | `AdvanceToNextStep` throws for the last step (`JobChain.cs:122`), its success is rolled back and the chain ends Failed | `JobChain.cs:132`, after the last step the chain is completed |
| `ChainCondition.cfg`, MCChain | `MetConditionAdvances` | the conditions on the answer's status and body are never looked at, they count as not met: the chain is cancelled whatever the answer (`ChainStepCompletionHandler.cs:61-62`) | `TransitionCondition.cs:17-21`, if the status equals, if the body contains |
| `ChainPoison.cfg`, MCChain | `OthersStillProcessed` | a handler that throws rolls back every heartbeat pass, a task beside the chain is never recovered | `RunHeartbeatCommandHandlerTests.cs:198`, the good one succeeds |
| `ChainAtOnce.cfg`, MCChain | `ValidChainAccepted` | a step without a schedule is requested with the offset 0s, which is refused (`ChainTaskFactory.cs:42`) | `ChainStep.cs:17`, null means at once |
| `RegistryUpdate.cfg`, MCTaskRegistry | `UpdateReplaces` | an update that keeps the task's key meets the unique index | `UpdateTaskCommandHandler.cs:11`, cancels the task and creates a new one |
| `PollingEnds.cfg`, MCPolling | `PollingGoesOn` | the scheduler queues a polling task, the worker completes it for good (`DapperTaskRepository.cs:146`) | `TaskType.cs:14`, polls periodically |
| `PollingNews.cfg`, MCPolling | `OnlyChangesDelivered` | a failed check wipes the stored answer, the next good one counts as news (`RunPollingCheckCommandHandler.cs:116`) | `TaskType.cs:14`, watches for changes |
| `TimelineTimeout.cfg`, MCTimeline | `NeverParallel` | no caller passes the strategy's timeout on, so a longer request outlives its lock and two workers run one task (`DapperTaskRepository.cs:287`) | `ITaskRepository.cs:66`, locked for timeout and buffer |
| `TimelineBatch.cfg`, MCTimeline | `OnlyHungFail` | a poller's lock counts from the start of its batch: the heartbeat fails a check whose poller is still waiting for the answer (`RunPollingCheckCommandHandler.cs:68`) | `RunHeartbeatCommandHandler.cs:12`, hung tasks |
| `TimelinePolicy.cfg`, MCTimeline | `DiesByItsPolicy` | the policy is written under one name and read under another, so every task has the default's five attempts (`RetryPolicyJsonConverter.cs:24`) | `RetryPolicy.cs:10`, as many attempts as intervals |
| `TimelineRetry.cfg`, MCTimeline | `RetryWaits` | the delay counts from the start of the handler: after a slow request the retry may be due at once (`RunExecutionCommandHandler.cs:160`) | `ScheduledTask.cs:236`, the time of the failure |

## 4. Proofs

The theorems hold for any sets of tasks, workers, relays, pollers, clients, requests and
keys, chains of any length, and any bounds. What they assume of the constants is in the
modules' assumptions: `MaxAttemptsAssumption` (at least one attempt, the constructor of
`RetryPolicy` insists) and `StepCountAssumption` (a chain has a step, the constructor of
`JobChain` insists); otherwise only the typing of the constants, and that null is none of
the values (`NoTaskAssumption`, and `NoDate`, `NoAnswer` in `TimelineAssumption`,
`PollingAssumption`). No theorem has a further hypothesis: where the code keeps a promise
only in part, the property says which part, and each case it leaves open happens
in one of the counterexamples of section 3 or below.

| Theorem | States |
|---|---|
| `TypeCorrect` | `Spec => []TypeOK` (TaskEngine) |
| `DatesAlwaysFit` | `Spec => []DatesFitStatus` |
| `OptimisticLockingSound` | `Spec => []VersionIdentifiesRow` |
| `FinalStatusStays` | `Spec => FinalStatusIsFinal` |
| `DeadLettersExact` | `Spec => []DeadLetterExact` |
| `OutcomesByHolder` | `Spec => OutcomeByHolder` |
| `WakeUpsOnTheirWay` | `Spec => []QueuedOnItsWay` |
| `ResultsAccounted` | `Spec => []ResultsAccountedFor` |
| `Implements` | `Spec => KeepsContract`, the engine implements TaskContract |
| `PollingTypeCorrect` | `PollingSpec => []PollingTypeOK` |
| `CapturesOwned` | `PollingSpec => []PollerOwnsCapture` |
| `LatestCompared` | `PollingSpec => ComparesWithLatest` |
| `NewsDelivered` | `PollingSpec => NewsIsDelivered` |
| `ChecksByHolder` | `PollingSpec => CheckByHolder` |
| `FinalStatusStaysWithPollers`, `DeadLettersExactWithPollers` | `FinalStatusIsFinal`, `DeadLetterExact` under `PollingSpec` |
| `RegistryTypeCorrect` | `Spec => []TypeOK` (TaskRegistry) |
| `CreationIdempotent` | `Spec => []SameKeySameTask` |
| `OneIsTold` | `Spec => []CancelledForOne` |
| `LettersKept` | `Spec => []LetterKept` |
| `ErrorsLeaveNoTrace` | `Spec => ErrorLeavesNoTrace` |
| `ChainTypeCorrect` | `Spec => []TypeOK` (ChainOrchestration) |
| `PointerFollowsStep` | `Spec => []ChainPointsToItsStep` |
| `NoStepWithoutCause` | `Spec => []StepsHaveCause` |
| `NoEndWithoutCause` | `Spec => []EndHasCause` |
| `StallsOnlyByCause` | `Spec => StallsHaveCause` |
| `ImplementsChain` | `Spec => KeepsChainContract`, the orchestration implements ChainContract |
| `TasksImplement` | `Spec => KeepsTaskContract`, its tasks stay within TaskContract |
| `TimelineTypeCorrect` | `Spec => []TypeOK` (TaskTimeline) |
| `DatesOnGrid` | `Spec => []NoDrift` |
| `FailuresKeepPolicy` | `Spec => []FailuresFitPolicy` |
| `OneRunAtATime` | `Spec => []NoParallelRuns` |
| `HungIsHung` | `Spec => HungOnly` |
| `RetriesWait` | `Spec => RetryNearlyWaits` |
| `OneRunPerDate` | `Spec => []DatesAdvance` |

**The engine.** None of its properties is inductive alone: that a recorded outcome
fits the row depends on the copy in the worker's memory being the row, and that
depends on every update raising the version. The inductive invariant is

    TableInv == TypeOK /\ (every row is RowOK) /\ VersionIdentifiesRow /\ LoadedAllows

where `RowOK` says what a single row looks like (dates, attempts) and
`LoadedAllows` that an API request only ever carries an operation its copy permits.

1. `RowStepSound`: a transition of the aggregate (`RowStep`) takes a well-formed
   row to a well-formed row of a larger version. No actors are involved.
2. `StepEvolves`: every step of the engine leaves each row alone or takes it
   through one `RowStep`. This is where optimistic locking is used: a write that
   passes the version check applies the transition to the row itself.
3. `VersionIdentifiesRowKept`: as changed rows get larger versions, a copy is the
   row or strictly older; a new capture has a version no other worker holds.
4. `StepBuries`: a step adds a dead letter exactly for the rows it lets die.
5. The theorems follow from 1 to 4; `Implements` maps each `RowStep`, with its
   dead letter, to a step of one job of the contract.

**The messages.** `TaskDeliveryProofs` builds on the engine's invariant. That a
wake-up is somewhere on its way is not inductive either: when a relay commits, its
messages leave the outbox, so it must be known that each of them was sent or given
up, and that a sent one is still at the broker. The invariant is

    MessageInv == BatchesOK /\ MessagesOK /\ SentArrived
                  /\ QueuedOnItsWay /\ ResultsAccountedFor

The batch of a relay is part of the outbox and two batches are disjoint
(`FOR UPDATE SKIP LOCKED`); no message is younger than its row, so a message that
carries the row's version is the one its last write asked for; what was sent has
arrived, as long as the row is still the one it was sent for.

1. `AddingKeeps`: a step that leaves the relays alone, adds the messages its
   changed rows ask for and loses no wake-up of an unchanged row keeps `MessageInv`;
   `OthersAdd` shows that every action outside the relay is such a step.
2. `MovingKeeps` says the same of a step of one relay that changes no row, and
   `RelaysMove` shows it of picking, sending, committing and crashing.

**The poller.** PollingEngine contains the engine, so its invariant contains the
engine's `TableInv`, and the poller is one holder of copies more:

    PollingInv == TableInv /\ PollingTypeOK /\ PollersFit /\ PollerOwnsCapture /\ StoredAnswersFit

1. The poller's two transactions are two more transitions of the aggregate (`PollStep`);
   `PollStepSound` and `PollingEvolves` say of them what `RowStepSound` and
   `StepEvolves` say of the others, and `TableInv` goes on to hold.
2. `PollerOwnsCapture`: a poller whose copy has the row's version holds the row itself,
   and nobody else holds a copy of that version, because each capture gives the row a
   version of its own.
3. `StoredAnswersFit`: while the capture is held, the answer the poller loaded is the
   stored one, because only a holder writes it; and a stored answer that is one at all
   is the last good answer recorded, so that `HasChanged`, asked of the stored answer,
   decides what `News` says of the last good one. `LatestCompared`, `NewsDelivered` and
   `ChecksByHolder` are what recording a check means under these facts.

**The registry.** The properties speak of answers given long ago, so the invariant
(`RegistryInv`) says what each answer or read still means of the row it is about
(`Fits`): the id a creation was answered with is that of a row with its key and
sender; a request that is about to change a row read it open, and the row is either
at the version read and still open, or past it; a row whose cancellation was
confirmed is cancelled. To this come the unique index as a fact about rows
(`KeysUnique`), `OneCanceller`, and where letters and rows come from.

1. `Evolves`: a step keeps key and sender of every row, never lowers a version,
   changes nothing at the same version, and leaves a cancelled row cancelled.
2. From it each request that does not take the step still fits; the one that does
   is looked at action by action.
3. A second creation of one key, or a second cancellation of one task, meets the
   unique index or a row past its version; that is `SameKeySameTask` and
   `CancelledForOne`.

**Chains.** A reaction to an event is computed from a chain read earlier, in the
transaction that records the end of a task, while users and other transactions may have
saved the chain since. The invariant is

    ChainInv == TypeOK /\ JobsOK /\ ReadsOK /\ ChainOK /\ StepsHaveCause /\ EndHasCause

1. `ReadsOK`: whatever a transaction or a request has read is the chain or an earlier
   version of it (`ReadBefore`), so a handler whose save passes the version check has
   read the chain as it still is. `ReactionSound` shows what such a handler does.
2. `NextSound`: every step is therefore one of four things to the chain
   (`ChainMoves`): it is created, a user controls it, it takes no notice, or it takes a
   turn, in which exactly its current step ends and at most one step that was never
   begun begins. The heartbeat's batch holds at most one step of the chain, as `ChainOK`
   knows.
3. The properties, and both refinements (`ChainRefinementProofs`: a turn is `PassOn` or
   `Finish` of the contract), follow from 2 without looking at an action again.

`StallsOnlyByCause` needs a second induction: what a transaction has read is the chain at
the step whose end it records (`ReadsFollow`), because while a task is running the chain
may be paused, resumed or ended, but is led to that task from nowhere else. A handler
that has read an active chain at its own step never goes by (`ActiveIsHeard`), and what it
saves is a chain with a live step; so a chain that is left without one was paused when the
transaction read it, or pointed elsewhere, or lost the step to a user. `ChainPaused`,
`ChainTaskCancelled` and `ChainSkip` show that each of these happens.

**The clock.** `TimelineInv` ties the times a handler carries to the row: it began and
asked no longer ago than it may, and if its copy has the row's version, the row is locked
until `LockUntil` of its beginning and its planned date is the row's. With it come the
attempts, counted against the default policy that every row is read back with
(`ReadIsDefault`), and the grid (`GridOK`), which rests on the arithmetic of the next
occurrence: one period further is on the grid, and so is the next multiple
(`OnePeriodOn`, `MultipleOfPeriod`, `GridGoesOn`). `FailuresKeepPolicy`, `HungIsHung` and
`RetriesWait` follow from it, step by step. Two theorems have an invariant more:

* `Captures`, for `OneRunAtATime`: one handler at most holds the task, and whoever is
  still calling without holding it is past its time, because nobody but the heartbeat
  takes the task away, and it waits for the lock. The lock ignores the request's own
  timeout (`TimelineTimeout`), and a poller's counts from the start of its batch
  (`TimelineBatch`): in both a handler may still wait for its request after its time,
  and the property lets that one, and no other, be overtaken.
* `DatesGoOn`, for `OneRunPerDate`: the next date of a periodic task on an offset is later
  than that of every run (`Ahead`); a task of another type runs once through the queue.
  The property leaves open a schedule that is not an offset (`timeline_cron`), and a task
  that has failed where the wait for a capture may be longer than a retry's delay,
  60 s: a retry, counted from the handler's start, may then be planned for a date before
  the one that failed, even for one that another worker has run since (`Timeline.cfg`
  with `Slack` = 5 and `DefaultTimeout` = 9 violates `OncePerDate`).

**Only model-checked.** Liveness: `ExecutionEnds`, `OneTimeTaskSettles`, `CheckEnds`,
`RunningEnds`, `ChainEnds`. It rests on fairness and ENABLED, which are out of this
prover's reach. Of the invariants, `ActiveChainHasLiveStep`: it is true of the plans of
`chain_liveness` and false in general, and what is true in general is `StallsHaveCause`.
Every other invariant and action property of the passing runs is the statement of a
theorem. `DeadLetterExact` with pollers in the system is only proved; `race` checks it
without them.

## 5. Not modelled, and the plan

Not modelled for good, each for its reason:

* *Web layer, queries, mapping, encryption, the HTTP client's formats, task logs,
  running migrations*: reads and I/O with no state that a decision depends on.
* *Validation*: stateless, and its decorator is not registered.
* *`RunChainHeartbeatCommandHandler`*: only `ChainHeartbeatWorker` sends its command,
  and that worker is not registered (`Infrastructure/DependencyInjection`, lines 69-73).
  *`SetCurrentTaskId`, `AcquireNextQueuedAsync`, `StartExecution`, `IsStale`* have no
  caller.
* *Unit of work*: begin, commit and rollback of the scoped context are the atomicity of
  the models' steps; tracked aggregates are discarded with their scope, so what
  becomes of their events changes nothing a later step reads.
* *What the database driver accepts*: the chain runs assume that a task with a `ChainId`
  can be written at all. `DapperTaskRepository.cs:58` and `:246` pass the value
  object itself, boxed, as a `DbType.Guid`, which the driver may refuse; whether it does
  is a matter of Dapper and Npgsql and not of this code, so the models do not decide it.

Next, in this order:

1. Lemmas that carry over from one layer to the next: that the engine's rows, seen
   through the registry's and the timeline's eyes, move as those modules assume
   (`EngineMoves` of TaskRegistry against `RowStep`).
2. A second look at `ExecutionEnds` and `ChainEnds`: which of their steps are safety
   facts (a step once enabled stays enabled until taken) that can be proved.
