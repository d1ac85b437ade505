---------------------------- MODULE PollingEngine ----------------------------
(***************************************************************************)
(* The poller beside the rest of the engine.  A task of TaskType.Polling   *)
(* lives in the same table as the others, and the scheduler, the workers,  *)
(* the heartbeat and the API treat it as they treat a OneTime task; the    *)
(* poller captures it on its own, asks the watched service, compares the   *)
(* answer with the one it stored last, and puts the task back.  Only the   *)
(* capture and the recording are transactions: the request, the read of    *)
(* the stored answer and the rest of the batch lie between them.           *)
(***************************************************************************)
EXTENDS TaskEngine

CONSTANTS
  Polling,    \* the tasks of TaskType.Polling
  Poller,     \* the running instances of the polling worker
  Value,      \* what a watched service can answer
  NoAnswer,   \* no answer, or an answer that was not a success
  NotJson,    \* the answers that are no JSON
  FieldOf,    \* what the field of PollingConfig is in each answer
  NoField     \* an answer without that field

ASSUME PollingAssumption ==
  /\ Polling \subseteq Task \ Periodic
  /\ NoAnswer \notin Value
  /\ FieldOf \in [Value -> Nat \cup {NoField}]
  /\ NoField \notin Nat

VARIABLES
  lastAnswer,  \* polling_states.last_response_json; no row is no answer
  poller,      \* what each poller is doing
  learned,     \* the last answer of a recorded successful check, whatever came after
  condition    \* PollingConfig.Condition of each task, which no handler changes

polled      == <<lastAnswer, poller, learned, condition>>
pollingVars == <<vars, polled>>

-----------------------------------------------------------------------------
(* A poller holds the rows its batch still has to check, and of the one it *)
(* is checking the captured aggregate, the answer and the stored answer.   *)

Answer  == Value \cup {NoAnswer}
Planned == [task : Polling, version : Nat]

\* Left out or blank, "changed" or "not_equal", "greater_than", any other text.
Conditions == {"none", "changed", "greater_than", "unknown"}

Waiting(batch) == [pc |-> "walking", batch |-> batch, task |-> NoTask,
                   copy |-> AbsentRow, answer |-> NoAnswer, previous |-> NoAnswer]
IdlePoller     == [Waiting({}) EXCEPT !.pc = "idle"]
PollerState    == [pc       : {"idle", "walking", "calling", "answered", "comparing"},
                   batch    : SUBSET Planned,
                   task     : Polling \cup {NoTask},
                   copy     : Row,
                   answer   : Answer,
                   previous : Answer]

PollingTypeOK ==
  /\ lastAnswer \in [Polling -> Answer]
  /\ poller \in [Poller -> PollerState]
  /\ learned \in [Polling -> Answer]
  /\ condition \in [Polling -> Conditions]

PollingInit ==
  /\ Init
  /\ lastAnswer = [t \in Polling |-> NoAnswer]
  /\ poller = [p \in Poller |-> IdlePoller]
  /\ learned = [t \in Polling |-> NoAnswer]
  /\ condition \in [Polling -> Conditions]

-----------------------------------------------------------------------------
(* The handler of RunPollingCheckCommand.                                  *)

DuePolling == {t \in Polling \cap due :
                 tasks[t].status = "Scheduled" /\ tasks[t].version < MaxVersion}

\* The batch is read in a transaction of its own: its locks are gone afterwards.
ReadBatch(p) ==
  /\ poller[p].pc = "idle"
  /\ \E S \in SUBSET DuePolling \ {{}} :
       poller' = [poller EXCEPT ![p] =
                    Waiting({[task |-> t, version |-> tasks[t].version] : t \in S})]
  /\ UNCHANGED <<vars, lastAnswer, learned, condition>>

AcquirePolling(p, b) ==
  LET t   == b.task
      row == TryAcquirePollingTask(tasks[t])
  IN  /\ poller[p].pc = "walking"
      /\ t \in due
      /\ tasks[t].status = "Scheduled"
      /\ Write([tasks EXCEPT ![t] = row], {})
      /\ poller' = [poller EXCEPT ![p] =
                      [Waiting(poller[p].batch \ {b}) EXCEPT
                         !.pc = "calling", !.task = t, !.copy = row]]
      /\ UNCHANGED <<relayed, dlq, broker, worker, client, faults, lastAnswer, learned, condition>>

\* The row has moved on; if it waits again, its new date may lie after the
\* time the handler took before it read the batch.
SkipPolling(p, b) ==
  /\ poller[p].pc = "walking"
  /\ tasks[b.task].version # b.version
  /\ poller' = [poller EXCEPT ![p].batch = @ \ {b}]
  /\ UNCHANGED <<vars, lastAnswer, learned, condition>>

FinishBatch(p) ==
  /\ poller[p].pc = "walking"
  /\ poller[p].batch = {}
  /\ poller' = [poller EXCEPT ![p] = IdlePoller]
  /\ UNCHANGED <<vars, lastAnswer, learned, condition>>

\* Mutant: the text of an error is taken for an answer.
ErrorTextAnswers(p) ==
  /\ poller[p].pc = "calling"
  /\ \E a \in Value \cup {"Request timed out"} :
       poller' = [poller EXCEPT ![p].pc = "answered", ![p].answer = a]
  /\ UNCHANGED <<vars, lastAnswer, learned, condition>>

\* The watched data may have changed to anything; the executor turns every error
\* of the network into an answer without success.
ServiceAnswers(p) ==
  /\ poller[p].pc = "calling"
  /\ \E a \in Answer :
       poller' = [poller EXCEPT ![p].pc = "answered", ![p].answer = a]
  /\ UNCHANGED <<vars, lastAnswer, learned, condition>>

\* Outside any transaction.
LoadState(p) ==
  /\ poller[p].pc = "answered"
  /\ poller' = [poller EXCEPT ![p].pc = "comparing",
                              ![p].previous = lastAnswer[poller[p].task]]
  /\ UNCHANGED <<vars, lastAnswer, learned, condition>>

\* With a condition both texts are parsed, and a text that is no JSON throws.
CanCompare(t, previous, answer) ==
  NoAnswer \in {previous, answer} \/ condition[t] = "none"
    \/ {previous, answer} \cap NotJson = {}

\* Mutant: the condition is never looked at.
TextChanged(t, previous, answer) == answer # NoAnswer /\ answer # previous

\* The first answer counts; then, without a condition, any other text, and with
\* one a field that is new, or that the condition tells from the one before:
\* a field that is gone counts for nothing, and so does an unknown condition.
HasChanged(t, previous, answer) ==
  /\ answer # NoAnswer
  /\ \/ previous = NoAnswer
     \/ condition[t] = "none" /\ answer # previous
     \/ /\ condition[t] # "none" /\ FieldOf[answer] # NoField
        /\ \/ FieldOf[previous] = NoField
           \/ condition[t] = "changed" /\ FieldOf[previous] # FieldOf[answer]
           \/ condition[t] = "greater_than" /\ FieldOf[previous] < FieldOf[answer]

\* Mutant: the update of the result does not compare versions.
PollerHoldsAny(p) == TRUE

PollerHolds(p) == tasks[poller[p].task].version = poller[p].copy.version

\* The task goes back to its place in the table, with a date an interval after
\* the time the handler took at the start.
PutBack(p) ==
  LET t == poller[p].task
  IN  \E late \in SUBSET {t} :
        Write([tasks EXCEPT ![t] = Saved(RescheduleAfterPolling(poller[p].copy))], late)

RecordCheck(p) ==
  LET t == poller[p].task
      a == poller[p].answer
  IN  /\ poller[p].pc = "comparing"
      /\ CanCompare(t, poller[p].previous, a)
      /\ PollerHolds(p)
      /\ PutBack(p)
      /\ lastAnswer' = [lastAnswer EXCEPT ![t] = a]
      /\ outbox' = IF t \in Delivering /\ HasChanged(t, poller[p].previous, a)
                   THEN outbox \cup {DeliveryRequest(t, tasks[t].version + 1)}
                   ELSE outbox
      /\ learned' = IF a = NoAnswer THEN learned ELSE [learned EXCEPT ![t] = a]
      /\ poller' = [poller EXCEPT ![p] = Waiting(poller[p].batch)]
      /\ UNCHANGED <<relay, givenUp, delivered, dlq, broker, worker, client, faults, condition>>

\* The request cannot even be made: the task is put back, the state stays.
RecordThrow(p) ==
  /\ poller[p].pc = "calling"
  /\ PollerHolds(p)
  /\ PutBack(p)
  /\ poller' = [poller EXCEPT ![p] = Waiting(poller[p].batch)]
  /\ UNCHANGED <<relayed, dlq, broker, worker, client, faults, lastAnswer, learned, condition>>

\* Thrown before the transaction: the handler ends, and the task stays captured.
CompareThrows(p) ==
  /\ poller[p].pc = "comparing"
  /\ ~CanCompare(poller[p].task, poller[p].previous, poller[p].answer)
  /\ poller' = [poller EXCEPT ![p] = IdlePoller]
  /\ UNCHANGED <<vars, lastAnswer, learned, condition>>

\* ConcurrencyException ends the handler, and with it the rest of the batch.
PollingConflicts(p) ==
  /\ \/ poller[p].pc = "calling"
     \/ /\ poller[p].pc = "comparing"
        /\ CanCompare(poller[p].task, poller[p].previous, poller[p].answer)
  /\ ~PollerHolds(p)
  /\ poller' = [poller EXCEPT ![p] = IdlePoller]
  /\ UNCHANGED <<vars, lastAnswer, learned, condition>>

\* The process dies, or a statement fails.
PollerFails(p) ==
  /\ poller[p].pc # "idle"
  /\ Fault
  /\ poller' = [poller EXCEPT ![p] = IdlePoller]
  /\ UNCHANGED <<rows, relayed, dlq, broker, worker, client, lastAnswer, learned, condition>>

-----------------------------------------------------------------------------
CheckStep(p) ==
  \/ \E b \in poller[p].batch : AcquirePolling(p, b) \/ SkipPolling(p, b)
  \/ FinishBatch(p)
  \/ ServiceAnswers(p)
  \/ LoadState(p)
  \/ RecordCheck(p)
  \/ RecordThrow(p)
  \/ CompareThrows(p)
  \/ PollingConflicts(p)

PollingNext ==
  \/ Next /\ UNCHANGED polled
  \/ \E p \in Poller : ReadBatch(p) \/ CheckStep(p) \/ PollerFails(p)

PollingSpec == PollingInit /\ [][PollingNext]_pollingVars

-----------------------------------------------------------------------------
(* Properties.                                                             *)

\* Optimistic locking covers the poller too: the aggregate in its memory is the
\* row itself or of an older version, and no worker and no other poller works on
\* the same capture -- though the heartbeat may hand the task on while the
\* request runs, and the scheduler competes for it
\* (TryAcquirePollingTaskAsync, TryAcquireQueuedTaskAsync, UpdateAsync).
PollerOwnsCapture ==
  \A p \in Poller : poller[p].task # NoTask =>
    /\ PollerHolds(p) => poller[p].copy = tasks[poller[p].task]
                         /\ poller[p].copy.status = "Executing"
    /\ poller[p].copy.version <= tasks[poller[p].task].version
    /\ \A q \in Poller \ {p} : poller[q].task = poller[p].task
         => poller[q].copy.version # poller[p].copy.version
    /\ \A w \in Worker : worker[w].pc = "calling" /\ worker[w].task = poller[p].task
         => worker[w].copy.version # poller[p].copy.version

\* The answer a check is compared with, read outside its transaction, is still
\* the stored one when the check is recorded: no two checks of a task interleave
\* so that a change is reported twice or not at all
\* (RunPollingCheckCommandHandler.HandleAsync, the state read and the final transaction).
ComparesWithLatest ==
  [][\A t \in Polling, p \in Poller :
       lastAnswer'[t] # lastAnswer[t] /\ poller[p].task = t /\ poller'[p].task # t
         => poller[p].previous = lastAnswer[t]]_pollingVars

\* What a watcher with this condition waits for, seen from the last good answer.
News(t, old, new) ==
  LET kept == FieldOf[old]
      got  == FieldOf[new]
  IN  CASE condition[t] = "none"         -> new # old
        [] condition[t] = "changed"      -> got # NoField /\ got # kept
        [] condition[t] = "greater_than" -> got # NoField /\ (kept = NoField \/ kept < got)
        [] condition[t] = "unknown"      -> got # NoField /\ kept = NoField

\* A recorded check puts a delivery in the outbox if its answer is news against the
\* last good one a check has ever recorded, or no good one is stored, and only then:
\* although the comparison was made with an answer read outside the transaction,
\* and other pollers, workers and the heartbeat may have had the task since.  Where
\* a failed check has wiped the stored answer, the old one is delivered again
\* (RunPollingCheckCommandHandler.HandleAsync and HasChanged, PollingState.UpdateState).
NewsIsDelivered ==
  [][\A t \in Polling \cap Delivering, p \in Poller :
       /\ poller[p].task = t /\ poller[p].pc = "comparing"
       /\ poller'[p].task # t /\ tasks'[t] # tasks[t]
       => IF poller[p].answer # NoAnswer
             /\ (lastAnswer[t] = NoAnswer \/ News(t, learned[t], poller[p].answer))
          THEN DeliveryRequest(t, tasks'[t].version) \in outbox'
          ELSE UNCHANGED outbox]_pollingVars

\* An executing polling task is taken from its holder by nobody but the user who
\* cancels it and the heartbeat after the lock expired; any other change is the
\* recording by the one worker or poller that captured it
\* (UpdateAsync, GetStaleExecutingTasksAsync).
CheckByHolder ==
  [][\A t \in Polling : tasks[t].status = "Executing" /\ tasks'[t] # tasks[t] =>
       \/ tasks'[t].status = "Cancelled"
       \/ t \in expired
       \/ \E w \in Worker : worker[w].pc = "calling" /\ worker[w].task = t
                            /\ worker[w].copy = tasks[t] /\ worker'[w].pc = "acking"
       \/ \E p \in Poller : poller[p].task = t /\ poller[p].copy = tasks[t]
                            /\ poller'[p].task = NoTask]_pollingVars

-----------------------------------------------------------------------------
(* Liveness.                                                               *)

\* The engine's fairness, and a polling worker that goes on with its batch.
PollingFairness ==
  /\ Fairness
  /\ \A p \in Poller : WF_pollingVars(CheckStep(p))

FairPollingSpec == PollingSpec /\ PollingFairness

\* No polling task stays Executing for ever: its check is recorded, or the poller
\* is gone and the heartbeat puts the task back
\* (RunPollingCheckCommandHandler, RunHeartbeatCommandHandler).
CheckEnds ==
  \A t \in Polling : tasks[t].status = "Executing" ~> tasks[t].status # "Executing"

-----------------------------------------------------------------------------
(* What the documentation says, and the code does not do.                  *)

\* TaskType.Polling "Периодически опрашивает внешний сервис": a polling task is
\* never done, it is scheduled again until somebody cancels it or it dies.
PollingGoesOn == \A t \in Polling : tasks[t].status # "Completed"

\* TaskType.Polling "отслеживает изменения данных": what the poller delivers is
\* a change, never the answer the last successful check already had.
OnlyChangesDelivered ==
  [][\A t \in Polling, p \in Poller :
       poller[p].task = t /\ poller[p].pc = "comparing" /\ outbox' # outbox
         /\ poller'[p].task # t
       => poller[p].answer # learned[t]]_pollingVars
=============================================================================
