------------------------- MODULE TaskDeliveryProofs -------------------------
(***************************************************************************)
(* Theorems about the messages of TaskEngine, for any number of tasks,     *)
(* workers and relays: no wake-up and no result is lost silently.  The     *)
(* argument: a message leaves the outbox only in the commit of the relay   *)
(* that holds it, and by then it has been sent or could not be sent; what  *)
(* was sent stays with the broker or with a worker that has not looked at  *)
(* the row, as long as the row is the one the message was written for.     *)
(***************************************************************************)
EXTENDS TaskEngineProofs

-----------------------------------------------------------------------------
(* The invariant.                                                          *)

\* A relay holds messages of the outbox that no other relay holds.
BatchesOK ==
  /\ \A r \in Relay : /\ relay[r].picked \subseteq outbox
                      /\ relay[r].sent \subseteq relay[r].picked
                      /\ relay[r].failed \subseteq relay[r].picked
  /\ \A r, s \in Relay : r # s => relay[r].picked \cap relay[s].picked = {}

\* A message is not younger than its row; a result is of a task that has completed.
MessagesOK ==
  \A m \in outbox :
    /\ m.id <= tasks[m.task].version
    /\ m.kind = "ResultDeliveryRequested" /\ m.task \notin Periodic
         => tasks[m.task].status = "Completed"

\* What a relay has sent has arrived.
SentArrived ==
  \A r \in Relay : \A m \in relay[r].sent :
    /\ m.kind = "ResultDeliveryRequested" => m.task \in delivered
    /\ /\ m.kind = "TaskQueuedEvent"
       /\ tasks[m.task].status = "Queued"
       /\ tasks[m.task].version = m.id
       => AtBroker(m.task)

MessageInv ==
  /\ BatchesOK
  /\ MessagesOK
  /\ SentArrived
  /\ QueuedOnItsWay
  /\ ResultsAccountedFor

-----------------------------------------------------------------------------
(* What does not touch the relays: the rows, the broker, the workers, the  *)
(* requests.  Such a step may add messages to the outbox.                  *)

\* A message at the broker is not lost by a step of worker w that takes another
\* task's, or hands back the one it has.
LEMMA StillAtBroker ==
  ASSUME TypeOK, NEW t \in Task, AtBroker(t), NEW w \in Worker, NEW x,
         worker' = [worker EXCEPT ![w] = x],
         broker[t] > 0 => broker'[t] > 0 \/ (x.pc = "received" /\ x.task = t),
         worker[w].pc = "received" /\ worker[w].task = t => broker'[t] > 0
  PROVE  AtBroker(t)'
<1>0. worker \in [Worker -> WorkerState]
  BY DEF TypeOK
<1>1. CASE broker[t] > 0
  <2>1. worker'[w] = x
    BY <1>0
  <2> QED
    BY <1>1, <2>1 DEF AtBroker
<1>2. CASE \E v \in Worker : worker[v].pc = "received" /\ worker[v].task = t
  <2>1. PICK v \in Worker : worker[v].pc = "received" /\ worker[v].task = t
    BY <1>2
  <2>2. v # w => worker'[v] = worker[v]
    BY <1>0
  <2> QED
    BY <2>1, <2>2 DEF AtBroker
<1> QED
  BY <1>1, <1>2 DEF AtBroker

\* The messages News that a step adds are those the changed rows ask for, and no
\* wake-up is lost at the broker of a row that stays as it is.
AddsMessages(News) ==
  /\ UNCHANGED <<relay, givenUp, delivered>>
  /\ outbox' = outbox \cup News
  /\ \A m \in News : /\ m.id <= tasks'[m.task].version
                     /\ m.kind = "ResultDeliveryRequested" /\ m.task \notin Periodic
                          => tasks'[m.task].status = "Completed"
  /\ \A t \in Task : tasks'[t] # tasks[t] =>
       /\ tasks'[t].status = "Queued" =>
            \E m \in News : /\ m.kind = "TaskQueuedEvent"
                            /\ m.task = t /\ m.id = tasks'[t].version
       /\ t \in Delivering \ Periodic /\ tasks'[t].status = "Completed" =>
            \E m \in News : /\ m.kind = "ResultDeliveryRequested"
                            /\ m.task = t /\ m.id = tasks'[t].version
  /\ \A t \in Task : tasks'[t] = tasks[t] /\ tasks[t].status = "Queued" /\ AtBroker(t)
       => AtBroker(t)'

LEMMA AddingKeeps ==
  ASSUME TableInv, [Next]_vars, MessageInv, NEW News, AddsMessages(News)
  PROVE  MessageInv'
<1>0. /\ TypeOK /\ outbox \subseteq Message /\ relay \in [Relay -> Batch]
      /\ \A m \in Message : m.task \in Task /\ m.id \in Nat
  BY DEF TableInv, TypeOK, Message
<1>1. /\ relay' = relay /\ givenUp' = givenUp /\ delivered' = delivered
      /\ outbox' = outbox \cup News
  BY DEF AddsMessages
<1>2. ASSUME NEW t \in Task
      PROVE  /\ tasks[t].version \in Nat /\ tasks'[t].version \in Nat
             /\ tasks'[t] = tasks[t] \/ tasks[t].version < tasks'[t].version
  BY VersionsGrow
<1>3. ASSUME NEW t \in Task, tasks[t].status = "Completed"
      PROVE  tasks'[t] = tasks[t]
  <2>1. ~RowStep(t, tasks[t], tasks'[t])
    BY <1>3 DEF RowStep, FinalStatuses, Operation, Allows, CanPause, CanResume, CanCancel
  <2> QED
    BY <2>1, StepEvolves DEF RowsEvolve
<1>4. BatchesOK'
  BY <1>1 DEF MessageInv, BatchesOK
<1>5. MessagesOK'
  <2> SUFFICES ASSUME NEW m \in outbox'
               PROVE  /\ m.id <= tasks'[m.task].version
                      /\ m.kind = "ResultDeliveryRequested" /\ m.task \notin Periodic
                           => tasks'[m.task].status = "Completed"
    BY DEF MessagesOK
  <2>1. CASE m \in News
    BY <2>1 DEF AddsMessages
  <2>2. CASE m \in outbox
    <3>1. /\ m.id <= tasks[m.task].version
          /\ m.kind = "ResultDeliveryRequested" /\ m.task \notin Periodic
               => tasks[m.task].status = "Completed"
      BY <2>2 DEF MessageInv, MessagesOK
    <3>2. m.task \in Task /\ m.id \in Nat
      BY <1>0, <2>2
    <3>3. m.id <= tasks'[m.task].version
      BY <1>2, <3>1, <3>2
    <3> QED
      BY <1>3, <3>1, <3>2, <3>3
  <2> QED
    BY <1>1, <2>1, <2>2
<1>6. SentArrived'
  <2> SUFFICES ASSUME NEW r \in Relay, NEW m \in relay[r].sent
               PROVE  /\ m.kind = "ResultDeliveryRequested" => m.task \in delivered
                      /\ /\ m.kind = "TaskQueuedEvent"
                         /\ tasks'[m.task].status = "Queued"
                         /\ tasks'[m.task].version = m.id
                         => AtBroker(m.task)'
    BY <1>1 DEF SentArrived
  <2>1. m \in outbox /\ m.task \in Task /\ m.id \in Nat
    BY <1>0 DEF MessageInv, BatchesOK
  <2>2. m.id <= tasks[m.task].version
    BY <2>1 DEF MessageInv, MessagesOK
  <2>3. tasks'[m.task].version = m.id => tasks'[m.task] = tasks[m.task]
    BY <1>2, <2>1, <2>2
  <2> QED
    BY <2>1, <2>3 DEF MessageInv, SentArrived, AddsMessages
<1>7. QueuedOnItsWay'
  <2> SUFFICES ASSUME NEW t \in Task, tasks'[t].status = "Queued"
               PROVE  \/ InOutbox("TaskQueuedEvent", t, tasks[t].version)'
                      \/ AtBroker(t)'
                      \/ GivenUp("TaskQueuedEvent", t, tasks[t].version)'
    BY DEF QueuedOnItsWay, InOutbox, GivenUp
  <2>1. CASE tasks'[t] # tasks[t]
    BY <1>1, <2>1 DEF AddsMessages, InOutbox
  <2>2. CASE tasks'[t] = tasks[t]
    <3>1. \/ InOutbox("TaskQueuedEvent", t, tasks[t].version)
          \/ AtBroker(t)
          \/ GivenUp("TaskQueuedEvent", t, tasks[t].version)
      BY <2>2 DEF MessageInv, QueuedOnItsWay
    <3>2. AtBroker(t) => AtBroker(t)'
      BY <2>2 DEF AddsMessages
    <3> QED
      BY <1>1, <2>2, <3>1, <3>2 DEF InOutbox, GivenUp
  <2> QED
    BY <2>1, <2>2
<1>8. ResultsAccountedFor'
  <2> SUFFICES ASSUME NEW t \in Delivering \ Periodic
               PROVE  /\ tasks'[t].status = "Completed" =>
                           \/ InOutbox("ResultDeliveryRequested", t, tasks[t].version)'
                           \/ GivenUp("ResultDeliveryRequested", t, tasks[t].version)'
                           \/ t \in delivered
                      /\ t \in delivered => tasks'[t].status = "Completed"
    BY <1>1 DEF ResultsAccountedFor, InOutbox, GivenUp
  <2>0. t \in Task
    BY EngineAssumption
  <2>1. /\ tasks[t].status = "Completed" =>
             \/ InOutbox("ResultDeliveryRequested", t, tasks[t].version)
             \/ GivenUp("ResultDeliveryRequested", t, tasks[t].version)
             \/ t \in delivered
        /\ t \in delivered => tasks[t].status = "Completed"
    BY DEF MessageInv, ResultsAccountedFor
  <2>2. t \in delivered => tasks'[t].status = "Completed"
    BY <1>3, <2>0, <2>1
  <2>3. CASE tasks'[t] # tasks[t]
    BY <1>1, <2>0, <2>2, <2>3 DEF AddsMessages, InOutbox
  <2>4. CASE tasks'[t] = tasks[t]
    BY <1>1, <2>1, <2>2, <2>4 DEF InOutbox, GivenUp
  <2> QED
    BY <2>3, <2>4
<1> QED
  BY <1>4, <1>5, <1>6, <1>7, <1>8 DEF MessageInv

\* A step that queues and completes nothing adds nothing.
LEMMA NothingAdded ==
  ASSUME UNCHANGED relayed,
         \A t \in Task : tasks'[t] = tasks[t] \/ tasks'[t].status \notin {"Queued", "Completed"},
         \A t \in Task : tasks'[t] = tasks[t] /\ tasks[t].status = "Queued" /\ AtBroker(t)
           => AtBroker(t)'
  PROVE  AddsMessages({})
BY DEF relayed, AddsMessages

LEMMA BrokerAsBefore ==
  ASSUME UNCHANGED <<broker, worker>>, NEW t, AtBroker(t)
  PROVE  AtBroker(t)'
BY DEF AtBroker

LEMMA FailedStatus ==
  ASSUME NEW row \in Row
  PROVE  Saved(FailAttempt(row)).status \in {"Dead", "Scheduled"}
<1>1. FailAttempt(row) \in Row /\ FailAttempt(row).status \in {"Dead", "Scheduled"}
  <2>1. row.attempt + 1 >= MaxAttempts \/ row.attempt + 1 < MaxAttempts
    BY MaxAttemptsAssumption DEF Row
  <2> QED
    BY <2>1, FailAttemptFields
<1>2. Saved(FailAttempt(row)).status = FailAttempt(row).status
  BY <1>1 DEF Saved, Row
<1> QED
  BY <1>1, <1>2

\* Every step but a relay's is one that adds what the changed rows ask for.
LEMMA OthersAdd ==
  ASSUME TableInv, [Next]_vars, ~\E r \in Relay : RelayStep(r)
  PROVE  \E News : AddsMessages(News)
<1>0. /\ TypeOK /\ tasks \in [Task -> Row] /\ worker \in [Worker -> WorkerState]
      /\ client \in [Client -> ClientState] /\ broker \in [Task -> Nat]
  BY DEF TableInv, TypeOK
<1>1. ASSUME NEW u \in Task, CreateTask(u) PROVE AddsMessages({})
  <2>1. tasks' = [tasks EXCEPT ![u] = BuildTask] /\ UNCHANGED <<relayed, broker, worker>>
    BY <1>1 DEF CreateTask, Write
  <2>2. BuildTask.status = "Scheduled"
    BY DEF BuildTask, ScheduleTask, NewTask
  <2> QED
    BY <1>0, <2>1, <2>2, BrokerAsBefore, NothingAdded
<1>2. ASSUME NEW S \in SUBSET Task, RunScheduling(S)
      PROVE  AddsMessages({QueuedEvent(t, tasks[t].version + 1) : t \in S})
  <2> DEFINE News == {QueuedEvent(t, tasks[t].version + 1) : t \in S}
  <2>1. /\ tasks' = [t \in Task |-> IF t \in S THEN Saved(Enqueue(tasks[t])) ELSE tasks[t]]
        /\ UNCHANGED <<relay, givenUp, delivered, broker, worker>>
        /\ outbox' = outbox \cup News
    BY <1>2 DEF RunScheduling, Write, Overwrite
  <2>2. ASSUME NEW t \in S
        PROVE  tasks'[t].status = "Queued" /\ tasks'[t].version = tasks[t].version + 1
    BY <1>0, <2>1 DEF Saved, Enqueue, Row
  <2>3. ASSUME NEW t \in S
        PROVE  LET m == QueuedEvent(t, tasks[t].version + 1)
               IN  m.kind = "TaskQueuedEvent" /\ m.task = t /\ m.id = tasks'[t].version
    BY <2>2 DEF QueuedEvent, OutboxMessage
  <2>4. \A m \in News : m.id <= tasks'[m.task].version /\ m.kind # "ResultDeliveryRequested"
    <3>1. \A t \in S : tasks'[t].version \in Nat
      BY <1>0, <2>2 DEF Row
    <3> QED
      BY <2>3, <3>1
  <2>5. ASSUME NEW t \in Task, tasks'[t] # tasks[t]
        PROVE  /\ tasks'[t].status # "Completed"
               /\ \E m \in News : /\ m.kind = "TaskQueuedEvent"
                                  /\ m.task = t /\ m.id = tasks'[t].version
    BY <2>1, <2>2, <2>3, <2>5
  <2> HIDE DEF News
  <2>6. AddsMessages(News)
    BY <2>1, <2>4, <2>5, BrokerAsBefore DEF AddsMessages
  <2> QED
    BY <2>6 DEF News
<1>3. ASSUME NEW S \in SUBSET Task, RunHeartbeat(S) PROVE AddsMessages({})
  <2>1. /\ tasks' = [t \in Task |-> IF t \in S THEN Saved(FailAttempt(tasks[t])) ELSE tasks[t]]
        /\ UNCHANGED <<relayed, broker, worker>>
    BY <1>3 DEF RunHeartbeat, Write, Overwrite
  <2> QED
    BY <1>0, <2>1, BrokerAsBefore, FailedStatus, NothingAdded
<1>4. ASSUME NEW w \in Worker, AcquireQueued(w) PROVE AddsMessages({})
  <2>1. /\ tasks' = [tasks EXCEPT ![worker[w].task] = TryAcquireQueuedTask(tasks[worker[w].task])]
        /\ UNCHANGED <<relayed, broker>>
        /\ worker[w].pc = "received" /\ tasks[worker[w].task].status = "Queued"
        /\ \E x : worker' = [worker EXCEPT ![w] = x]
    BY <1>4 DEF AcquireQueued, Write
  <2>2. worker[w].task \in Task
    BY <1>0, <2>1, BusyWorker
  <2>3. tasks'[worker[w].task].status = "Executing"
    BY <1>0, <2>1, <2>2, AliveStatus
  <2>4. ASSUME NEW t \in Task, tasks'[t] = tasks[t], tasks[t].status = "Queued", AtBroker(t)
        PROVE  AtBroker(t)'
    <3>1. worker[w].task # t
      BY <2>1, <2>3, <2>4
    <3> QED
      BY <1>0, <2>1, <2>4, <3>1, StillAtBroker
  <2>5. \A t \in Task : t # worker[w].task => tasks'[t] = tasks[t]
    BY <1>0, <2>1
  <2> QED
    BY <2>1, <2>3, <2>4, <2>5, NothingAdded
\* A worker that records a result has no message a Queued row waits for.
<1>5. ASSUME NEW w \in Worker, worker[w].pc = "calling", UNCHANGED broker,
             NEW x, worker' = [worker EXCEPT ![w] = x],
             NEW t \in Task, AtBroker(t)
      PROVE  AtBroker(t)'
  BY <1>0, <1>5, StillAtBroker
<1>6. ASSUME NEW w \in Worker, RecordSuccess(w) PROVE \E News : AddsMessages(News)
  <2> DEFINE t == worker[w].task
             row == Saved(Finished(t, worker[w].copy))
             News == IF t \in Delivering THEN {DeliveryRequest(t, row.version)} ELSE {}
  <2>1. /\ worker[w].pc = "calling" /\ HoldsVersion(w)
        /\ tasks' = [tasks EXCEPT ![t] = row]
        /\ UNCHANGED <<relay, givenUp, delivered, broker>>
        /\ outbox' = outbox \cup News
        /\ \E x : worker' = [worker EXCEPT ![w] = x]
    BY <1>6 DEF RecordSuccess, Write
  <2>2. t \in Task
    BY <1>0, <2>1, BusyWorker
  <2>3. worker[w].copy \in Row
    BY <1>0, <2>1, BusyWorker
  <2>4. row.version \in Nat
    <3>1. Finished(t, worker[w].copy) \in Row
      BY <2>3 DEF Finished, Reschedule, CompleteSuccessfully, Row, StatusTask
    <3> QED
      BY <3>1, SavedType DEF Row
  <2>5. /\ row.status \in {"Scheduled", "Completed"}
        /\ t \notin Periodic => row.status = "Completed"
    <3>1. t \notin Periodic => row = Saved(CompleteSuccessfully(worker[w].copy))
      BY DEF Finished
    <3>2. Saved(CompleteSuccessfully(worker[w].copy)).status = "Completed"
      BY <2>3 DEF Saved, CompleteSuccessfully, Row
    <3> QED
      BY <2>2, <2>3, <3>1, <3>2, AliveStatus
  <2>6. \A m \in News : /\ m.kind = "ResultDeliveryRequested"
                        /\ m.task = t /\ m.id = row.version
    BY DEF DeliveryRequest, OutboxMessage
  <2>7. t \in Delivering => News # {}
    OBVIOUS
  <2>8. tasks'[t] = row /\ \A u \in Task : u # t => tasks'[u] = tasks[u]
    BY <1>0, <2>1, <2>2
  <2>9. \A u \in Task : AtBroker(u) => AtBroker(u)'
    BY <1>5, <2>1
  <2> HIDE DEF t, row, News
  <2>10. \A m \in News : /\ m.id <= tasks'[m.task].version
                         /\ m.kind = "ResultDeliveryRequested" /\ m.task \notin Periodic
                              => tasks'[m.task].status = "Completed"
    BY <2>4, <2>5, <2>6, <2>8
  <2>11. \A u \in Task : tasks'[u] # tasks[u] =>
           /\ tasks'[u].status # "Queued"
           /\ u \in Delivering =>
                \E m \in News : /\ m.kind = "ResultDeliveryRequested"
                                /\ m.task = u /\ m.id = tasks'[u].version
    BY <2>5, <2>6, <2>7, <2>8
  <2> QED
    BY <2>1, <2>9, <2>10, <2>11 DEF AddsMessages
<1>7. ASSUME NEW w \in Worker, RecordFailure(w) PROVE AddsMessages({})
  <2>1. /\ worker[w].pc = "calling"
        /\ tasks' = [tasks EXCEPT ![worker[w].task] = Saved(FailAttempt(worker[w].copy))]
        /\ UNCHANGED <<relayed, broker>>
        /\ \E x : worker' = [worker EXCEPT ![w] = x]
    BY <1>7 DEF RecordFailure, Write
  <2>2. worker[w].task \in Task /\ worker[w].copy \in Row
    BY <1>0, <2>1, BusyWorker
  <2>3. \A t \in Task : \/ tasks'[t] = tasks[t]
                        \/ tasks'[t].status \in {"Dead", "Scheduled"}
    BY <1>0, <2>1, <2>2, FailedStatus
  <2>4. \A t \in Task : AtBroker(t) => AtBroker(t)'
    BY <1>5, <2>1
  <2> QED
    BY <2>1, <2>3, <2>4, NothingAdded
<1>8. ASSUME NEW c \in Client, Save(c) PROVE AddsMessages({})
  <2>1. /\ client[c].op # "none"
        /\ tasks' = [tasks EXCEPT ![client[c].task] =
                       Saved(Apply(client[c].op, client[c].copy))]
        /\ UNCHANGED <<relayed, broker, worker>>
    BY <1>8 DEF Save, Write
  <2>2. client[c].copy \in Row /\ client[c].op \in Operation /\ client[c].task \in Task
    BY <1>0, <2>1, BusyClient
  <2>3. Saved(Apply(client[c].op, client[c].copy)).status \in {"Paused", "Scheduled", "Cancelled"}
    BY <2>2, AliveStatus DEF Operation, Apply
  <2>4. \A t \in Task : \/ tasks'[t] = tasks[t]
                        \/ tasks'[t].status \in {"Paused", "Scheduled", "Cancelled"}
    BY <1>0, <2>1, <2>2, <2>3
  <2> QED
    BY <2>1, <2>4, BrokerAsBefore, NothingAdded
<1>9. ASSUME UNCHANGED <<tasks, relayed>>,
             \A t \in Task : tasks[t].status = "Queued" /\ AtBroker(t) => AtBroker(t)'
      PROVE  AddsMessages({})
  BY <1>9, NothingAdded
<1>10. CASE UNCHANGED vars
  BY <1>9, <1>10, BrokerAsBefore DEF vars, rows, relayed
<1>11. CASE \E t \in Task : CreateTask(t) \/ Clock(t)
  BY <1>1, <1>9, <1>11, BrokerAsBefore DEF Clock, NextExecutionArrives, LockExpires
<1>12. CASE Background
  BY <1>2, <1>3, <1>12 DEF Background
<1>13. CASE \E c \in Client : ClientStep(c)
  BY <1>8, <1>9, <1>13, BrokerAsBefore DEF ClientStep, Load, SaveConflicts, rows
<1>14. ASSUME NEW w \in Worker, WorkerStep(w) PROVE \E News : AddsMessages(News)
  <2>1. ASSUME NEW u \in Task, Deliver(w, u) PROVE AddsMessages({})
    <3> DEFINE x == [IdleWorker EXCEPT !.pc = "received", !.task = u]
    <3>1. /\ worker[w].pc = "idle" /\ UNCHANGED <<tasks, relayed>>
          /\ broker' = [broker EXCEPT ![u] = @ - 1]
          /\ worker' = [worker EXCEPT ![w] = x]
      BY <2>1 DEF Deliver, rows
    <3>2. x.pc = "received" /\ x.task = u
      BY DEF IdleWorker
    <3> HIDE DEF x
    <3>3. \A t \in Task : t # u => broker'[t] = broker[t]
      BY <1>0, <3>1
    <3>4. \A t \in Task : AtBroker(t) => AtBroker(t)'
      BY <1>0, <3>1, <3>2, <3>3, StillAtBroker
    <3> QED
      BY <1>9, <3>1, <3>4
  <2>2. CASE SkipDelivery(w)
    <3>1. /\ worker[w].pc = "received" /\ tasks[worker[w].task].status # "Queued"
          /\ UNCHANGED <<tasks, relayed, broker>>
          /\ \E x : worker' = [worker EXCEPT ![w] = x]
      BY <2>2 DEF SkipDelivery, rows
    <3>2. \A t \in Task : tasks[t].status = "Queued" /\ AtBroker(t) => AtBroker(t)'
      BY <1>0, <3>1, StillAtBroker
    <3> QED
      BY <1>9, <3>1, <3>2
  <2>3. CASE RecordConflicts(w) \/ WorkerFails(w)
    <3>1. /\ worker[w].pc # "idle" /\ UNCHANGED <<tasks, relayed>>
          /\ broker' = [broker EXCEPT ![worker[w].task] = @ + 1]
          /\ worker' = [worker EXCEPT ![w] = IdleWorker]
      BY <2>3 DEF RecordConflicts, WorkerFails, Requeue, rows
    <3>2. worker[w].task \in Task
      BY <1>0, <3>1, BusyWorker
    <3>3. /\ broker'[worker[w].task] > 0
          /\ \A t \in Task : broker[t] > 0 => broker'[t] > 0
      BY <1>0, <3>1, <3>2
    <3>4. \A t \in Task : AtBroker(t) => AtBroker(t)'
      BY <1>0, <3>1, <3>3, StillAtBroker
    <3> QED
      BY <1>9, <3>1, <3>4
  <2>4. CASE Ack(w)
    <3>1. /\ worker[w].pc = "acking" /\ UNCHANGED <<tasks, relayed, broker>>
          /\ worker' = [worker EXCEPT ![w] = IdleWorker]
      BY <2>4 DEF Ack, rows
    <3>2. \A t \in Task : AtBroker(t) => AtBroker(t)'
      BY <1>0, <3>1, StillAtBroker
    <3> QED
      BY <1>9, <3>1, <3>2
  <2> QED
    BY <1>4, <1>6, <1>7, <1>14, <2>1, <2>2, <2>3, <2>4 DEF WorkerStep
<1> QED
  BY <1>10, <1>11, <1>12, <1>13, <1>14 DEF Next


-----------------------------------------------------------------------------
(* The relays.                                                             *)

\* One message with another count of retries.
Same(m, n) == m.kind = n.kind /\ m.task = n.task /\ m.id = n.id

\* A relay's step, h what it makes of its batch: a message stays in the outbox, is
\* named in the error log, or has been sent; what is sent arrives.
RelayMoves(r, h) ==
  /\ relay' = [relay EXCEPT ![r] = h]
  /\ UNCHANGED <<tasks, worker>>
  /\ delivered \subseteq delivered'
  /\ givenUp \subseteq givenUp'
  /\ \A t \in Task : broker[t] > 0 => broker'[t] > 0
  /\ h.picked \subseteq outbox' /\ h.sent \subseteq h.picked /\ h.failed \subseteq h.picked
  /\ \A s \in Relay \ {r} : /\ relay[s].picked \subseteq outbox'
                            /\ relay[s].picked \cap h.picked = {}
  /\ \A m \in outbox' : \E n \in outbox : Same(m, n)
  /\ \A m \in outbox : m \in relay[r].sent \/ \E n \in outbox' \cup givenUp' : Same(m, n)
  /\ \A m \in h.sent : \/ m \in relay[r].sent
                       \/ m.kind = "ResultDeliveryRequested" /\ m.task \in delivered'
                       \/ m.kind = "TaskQueuedEvent" /\ broker'[m.task] > 0
  /\ \A t \in delivered' : \/ t \in delivered
                           \/ \E m \in outbox : m.kind = "ResultDeliveryRequested" /\ m.task = t

LEMMA MovingKeeps ==
  ASSUME TypeOK, MessageInv, NEW r \in Relay, NEW h, RelayMoves(r, h)
  PROVE  MessageInv'
<1>0. /\ relay \in [Relay -> Batch] /\ outbox \subseteq Message
      /\ \A m \in Message : m.task \in Task
  BY DEF TypeOK, Message
<1>1. /\ tasks' = tasks /\ relay'[r] = h
      /\ \A s \in Relay \ {r} : relay'[s] = relay[s]
  BY <1>0 DEF RelayMoves
<1>2. \A t \in Task : AtBroker(t) => AtBroker(t)'
  BY DEF RelayMoves, AtBroker
<1>3. BatchesOK'
  <2>1. ASSUME NEW s \in Relay
        PROVE  /\ relay'[s].picked \subseteq outbox'
               /\ relay'[s].sent \subseteq relay'[s].picked
               /\ relay'[s].failed \subseteq relay'[s].picked
    BY <1>1 DEF MessageInv, BatchesOK, RelayMoves
  <2>2. ASSUME NEW s \in Relay, NEW u \in Relay, s # u
        PROVE  relay'[s].picked \cap relay'[u].picked = {}
    <3>1. CASE s # r /\ u # r
      BY <1>1, <2>2, <3>1 DEF MessageInv, BatchesOK
    <3>2. CASE s = r
      BY <1>1, <2>2, <3>2 DEF RelayMoves
    <3>3. CASE u = r
      BY <1>1, <2>2, <3>3 DEF RelayMoves
    <3> QED
      BY <3>1, <3>2, <3>3
  <2> QED
    BY <2>1, <2>2 DEF BatchesOK
<1>4. MessagesOK'
  BY <1>1 DEF MessageInv, MessagesOK, RelayMoves, Same
<1>5. SentArrived'
  <2> SUFFICES ASSUME NEW s \in Relay, NEW m \in relay'[s].sent
               PROVE  /\ m.kind = "ResultDeliveryRequested" => m.task \in delivered'
                      /\ /\ m.kind = "TaskQueuedEvent"
                         /\ tasks[m.task].status = "Queued"
                         /\ tasks[m.task].version = m.id
                         => AtBroker(m.task)'
    BY <1>1 DEF SentArrived
  <2>1. CASE m \in relay[s].sent
    <3>1. m.task \in Task
      BY <1>0, <2>1 DEF MessageInv, BatchesOK
    <3>2. /\ m.kind = "ResultDeliveryRequested" => m.task \in delivered
          /\ /\ m.kind = "TaskQueuedEvent"
             /\ tasks[m.task].status = "Queued"
             /\ tasks[m.task].version = m.id
             => AtBroker(m.task)
      BY <2>1 DEF MessageInv, SentArrived
    <3> QED
      BY <1>2, <3>1, <3>2 DEF RelayMoves
  <2>2. CASE m \notin relay[s].sent
    <3>1. s = r /\ m \in h.sent
      BY <1>1, <2>2
    <3>2. \/ m.kind = "ResultDeliveryRequested" /\ m.task \in delivered'
          \/ m.kind = "TaskQueuedEvent" /\ broker'[m.task] > 0
      BY <2>2, <3>1 DEF RelayMoves
    <3> QED
      BY <3>2 DEF AtBroker
  <2> QED
    BY <2>1, <2>2
<1>6. ASSUME NEW k, NEW t \in Task, NEW v, InOutbox(k, t, v)
      PROVE  \/ InOutbox(k, t, v)' \/ GivenUp(k, t, v)'
             \/ \E m \in relay[r].sent : m.kind = k /\ m.task = t /\ m.id = v
  BY <1>6 DEF InOutbox, GivenUp, RelayMoves, Same
<1>7. ASSUME NEW k, NEW t, NEW v, GivenUp(k, t, v) PROVE GivenUp(k, t, v)'
  BY <1>7 DEF GivenUp, RelayMoves
<1>8. QueuedOnItsWay'
  <2> SUFFICES ASSUME NEW t \in Task, tasks[t].status = "Queued"
               PROVE  \/ InOutbox("TaskQueuedEvent", t, tasks[t].version)'
                      \/ AtBroker(t)'
                      \/ GivenUp("TaskQueuedEvent", t, tasks[t].version)'
    BY <1>1 DEF QueuedOnItsWay
  <2>1. \/ InOutbox("TaskQueuedEvent", t, tasks[t].version)
        \/ AtBroker(t)
        \/ GivenUp("TaskQueuedEvent", t, tasks[t].version)
    BY DEF MessageInv, QueuedOnItsWay
  <2>2. (\E m \in relay[r].sent : m.kind = "TaskQueuedEvent" /\ m.task = t
                                  /\ m.id = tasks[t].version)
          => AtBroker(t)
    BY DEF MessageInv, SentArrived
  <2>3. \A v : InOutbox("TaskQueuedEvent", t, v) =>
           \/ InOutbox("TaskQueuedEvent", t, v)' \/ GivenUp("TaskQueuedEvent", t, v)'
           \/ \E m \in relay[r].sent : m.kind = "TaskQueuedEvent" /\ m.task = t /\ m.id = v
    BY <1>6
  <2> QED
    BY <1>1, <1>2, <1>7, <2>1, <2>2, <2>3 DEF InOutbox, GivenUp
<1>9. ResultsAccountedFor'
  <2> SUFFICES ASSUME NEW t \in Delivering \ Periodic
               PROVE  /\ tasks[t].status = "Completed" =>
                           \/ InOutbox("ResultDeliveryRequested", t, tasks[t].version)'
                           \/ GivenUp("ResultDeliveryRequested", t, tasks[t].version)'
                           \/ t \in delivered'
                      /\ t \in delivered' => tasks[t].status = "Completed"
    BY <1>1 DEF ResultsAccountedFor
  <2>0. t \in Task
    BY EngineAssumption
  <2>1. /\ tasks[t].status = "Completed" =>
             \/ InOutbox("ResultDeliveryRequested", t, tasks[t].version)
             \/ GivenUp("ResultDeliveryRequested", t, tasks[t].version)
             \/ t \in delivered
        /\ t \in delivered => tasks[t].status = "Completed"
    BY DEF MessageInv, ResultsAccountedFor
  <2>2. (\E m \in relay[r].sent : m.kind = "ResultDeliveryRequested" /\ m.task = t
                                  /\ m.id = tasks[t].version)
          => t \in delivered
    BY DEF MessageInv, SentArrived
  <2>3. \A v : InOutbox("ResultDeliveryRequested", t, v) =>
           \/ InOutbox("ResultDeliveryRequested", t, v)'
           \/ GivenUp("ResultDeliveryRequested", t, v)'
           \/ \E m \in relay[r].sent : /\ m.kind = "ResultDeliveryRequested"
                                       /\ m.task = t /\ m.id = v
    BY <1>6, <2>0
  <2>4. delivered \subseteq delivered'
    BY DEF RelayMoves
  <2>5. t \in delivered' => tasks[t].status = "Completed"
    BY <2>1 DEF MessageInv, MessagesOK, RelayMoves
  <2> QED
    BY <1>1, <1>7, <2>1, <2>2, <2>3, <2>4, <2>5 DEF InOutbox, GivenUp
<1> QED
  BY <1>3, <1>4, <1>5, <1>8, <1>9 DEF MessageInv

\* A message that is retried is the same message.
LEMMA RetriedSame ==
  ASSUME NEW m \in Message
  PROVE  Same(m, Retried(m)) /\ Same(Retried(m), m)
BY DEF Same, Retried, Message

\* Every step of a relay is such a move.
LEMMA RelaysMove ==
  ASSUME TypeOK, MessageInv, NEW r \in Relay, RelayStep(r)
  PROVE  \E h : RelayMoves(r, h)
<1>0. /\ relay \in [Relay -> Batch] /\ outbox \subseteq Message
      /\ broker \in [Task -> Nat]
      /\ \A m \in Message : m.task \in Task /\ Same(m, m)
  BY DEF TypeOK, Message, Same
<1>1. /\ relay[r].picked \subseteq outbox /\ relay[r].sent \subseteq relay[r].picked
      /\ relay[r].failed \subseteq relay[r].picked
      /\ \A s \in Relay \ {r} : /\ relay[s].picked \subseteq outbox
                                /\ relay[s].picked \cap relay[r].picked = {}
  BY DEF MessageInv, BatchesOK
<1>2. relay[r] \in Batch
  BY <1>0
<1>3. ASSUME PickBatch(r) PROVE \E h : RelayMoves(r, h)
  <2> DEFINE P == outbox \ LockedMessages
             h == [relay[r] EXCEPT !.picked = P]
  <2>1. /\ relay' = [relay EXCEPT ![r] = h] /\ relay[r].picked = {}
        /\ UNCHANGED <<tasks, worker, outbox, givenUp, delivered, broker>>
    BY <1>3 DEF PickBatch, rows
  <2>2. h.picked = P /\ h.sent = relay[r].sent /\ h.failed = relay[r].failed
    BY <1>2 DEF Batch
  <2>3. P \subseteq outbox /\ \A s \in Relay : relay[s].picked \cap P = {}
    BY DEF LockedMessages
  <2> HIDE DEF h, P
  <2>4. h.sent = {} /\ h.failed = {}
    BY <1>1, <2>1, <2>2
  <2>5. RelayMoves(r, h)
    BY <1>0, <1>1, <2>1, <2>2, <2>3, <2>4 DEF RelayMoves
  <2> QED
    BY <2>5
<1>4. ASSUME NEW m \in relay[r].picked, PublishToQueue(r, m) PROVE \E h : RelayMoves(r, h)
  <2> DEFINE h == [relay[r] EXCEPT !.sent = relay[r].sent \cup {m}]
  <2>1. /\ relay' = [relay EXCEPT ![r] = h]
        /\ m.kind = "TaskQueuedEvent"
        /\ broker' = [broker EXCEPT ![m.task] = @ + 1]
        /\ UNCHANGED <<tasks, worker, outbox, givenUp, delivered>>
    BY <1>4 DEF PublishToQueue, rows
  <2>2. /\ h.picked = relay[r].picked /\ h.sent = relay[r].sent \cup {m}
        /\ h.failed = relay[r].failed
    BY <1>2 DEF Batch
  <2>3. m.task \in Task
    BY <1>0, <1>1
  <2>4. broker'[m.task] > 0 /\ \A t \in Task : broker[t] > 0 => broker'[t] > 0
    BY <1>0, <2>1, <2>3
  <2> HIDE DEF h
  <2>5. RelayMoves(r, h)
    BY <1>0, <1>1, <2>1, <2>2, <2>4 DEF RelayMoves
  <2> QED
    BY <2>5
<1>5. ASSUME NEW m \in relay[r].picked, DeliverResult(r, m) PROVE \E h : RelayMoves(r, h)
  <2> DEFINE h == [relay[r] EXCEPT !.sent = relay[r].sent \cup {m}]
  <2>1. /\ relay' = [relay EXCEPT ![r] = h]
        /\ m.kind = "ResultDeliveryRequested"
        /\ delivered' = delivered \cup {m.task}
        /\ UNCHANGED <<tasks, worker, outbox, givenUp, broker>>
    BY <1>5 DEF DeliverResult, rows
  <2>2. /\ h.picked = relay[r].picked /\ h.sent = relay[r].sent \cup {m}
        /\ h.failed = relay[r].failed
    BY <1>2 DEF Batch
  <2>3. m \in outbox
    BY <1>1
  <2> HIDE DEF h
  <2>4. RelayMoves(r, h)
    BY <1>0, <1>1, <2>1, <2>2, <2>3 DEF RelayMoves
  <2> QED
    BY <2>4
<1>6. ASSUME NEW m \in relay[r].picked, SendFails(r, m) PROVE \E h : RelayMoves(r, h)
  <2> DEFINE h == [relay[r] EXCEPT !.failed = relay[r].failed \cup {m}]
  <2>1. /\ relay' = [relay EXCEPT ![r] = h]
        /\ UNCHANGED broker \/ broker' = [broker EXCEPT ![m.task] = @ + 1]
        /\ UNCHANGED <<tasks, worker, outbox, givenUp, delivered>>
    BY <1>6 DEF SendFails, rows
  <2>2. /\ h.picked = relay[r].picked /\ h.failed = relay[r].failed \cup {m}
        /\ h.sent = relay[r].sent
    BY <1>2 DEF Batch
  <2>3. m.task \in Task
    BY <1>0, <1>1
  <2>4. \A t \in Task : broker[t] > 0 => broker'[t] > 0
    BY <1>0, <2>1, <2>3
  <2> HIDE DEF h
  <2>5. RelayMoves(r, h)
    BY <1>0, <1>1, <2>1, <2>2, <2>4 DEF RelayMoves
  <2> QED
    BY <2>5
<1>7. EmptyBatch.picked = {} /\ EmptyBatch.sent = {} /\ EmptyBatch.failed = {}
  BY DEF EmptyBatch
<1>8. ASSUME CommitBatch(r) PROVE RelayMoves(r, EmptyBatch)
  <2>1. /\ relay' = [relay EXCEPT ![r] = EmptyBatch]
        /\ outbox' = (outbox \ relay[r].picked)
                       \cup {Retried(m) : m \in {f \in relay[r].failed : CanRetry(f)}}
        /\ givenUp' = givenUp \cup {m \in relay[r].failed : ~CanRetry(m)}
        /\ relay[r].picked \subseteq relay[r].sent \cup relay[r].failed
        /\ UNCHANGED <<tasks, worker, delivered, broker>>
    BY <1>8 DEF CommitBatch, Unprocessed, rows
  <2>2. \A m \in outbox' : \E n \in outbox : Same(m, n)
    <3>1. ASSUME NEW f \in relay[r].failed PROVE f \in outbox /\ Same(Retried(f), f)
      BY <1>0, <1>1, RetriedSame
    <3> QED
      BY <1>0, <2>1, <3>1
  <2>3. ASSUME NEW m \in outbox, m \notin relay[r].sent
        PROVE  \E n \in outbox' \cup givenUp' : Same(m, n)
    <3>1. CASE m \notin relay[r].picked
      BY <1>0, <2>1, <3>1
    <3>2. CASE m \in relay[r].failed /\ CanRetry(m)
      BY <1>0, <2>1, <3>2, RetriedSame
    <3>3. CASE m \in relay[r].failed /\ ~CanRetry(m)
      BY <1>0, <2>1, <3>3
    <3> QED
      BY <2>1, <2>3, <3>1, <3>2, <3>3
  <2>4. \A s \in Relay \ {r} : relay[s].picked \subseteq outbox'
    BY <1>1, <2>1
  <2>5. givenUp \subseteq givenUp'
    BY <2>1
  <2> QED
    BY <1>7, <2>1, <2>2, <2>3, <2>4, <2>5 DEF RelayMoves
<1>9. ASSUME LoseBatch(r) PROVE RelayMoves(r, EmptyBatch)
  <2>1. /\ relay' = [relay EXCEPT ![r] = EmptyBatch]
        /\ UNCHANGED <<tasks, worker, outbox, givenUp, delivered, broker>>
    BY <1>9 DEF LoseBatch, rows
  <2> QED
    BY <1>0, <1>1, <1>7, <2>1 DEF RelayMoves
<1> QED
  BY <1>3, <1>4, <1>5, <1>6, <1>8, <1>9 DEF RelayStep

-----------------------------------------------------------------------------
(* The theorems.                                                           *)

LEMMA MessageInvInit == Init => MessageInv
<1> SUFFICES ASSUME Init PROVE MessageInv
  OBVIOUS
<1>1. \A t \in Task : tasks[t].status = "Absent"
  BY DEF Init, AbsentRow
<1>2. \A r \in Relay : relay[r].picked = {} /\ relay[r].sent = {} /\ relay[r].failed = {}
  BY DEF Init, EmptyBatch
<1>3. outbox = {} /\ delivered = {}
  BY DEF Init
<1> QED
  BY <1>1, <1>2, <1>3, EngineAssumption
  DEF MessageInv, BatchesOK, MessagesOK, SentArrived, QueuedOnItsWay, ResultsAccountedFor

LEMMA MessageInvKept ==
  ASSUME TableInv, MessageInv, [Next]_vars
  PROVE  MessageInv'
<1>1. CASE \E r \in Relay : RelayStep(r)
  BY <1>1, RelaysMove, MovingKeeps DEF TableInv
<1>2. CASE ~\E r \in Relay : RelayStep(r)
  BY <1>2, OthersAdd, AddingKeeps
<1> QED
  BY <1>1, <1>2

\* What the relays hold, have sent and could not send accounts for every message, for
\* any number of them (OutboxProcessorWorker, the loop over the batch and its commit).
THEOREM MessageInvariant == Spec => []MessageInv
<1>1. TableInv /\ MessageInv /\ [Next]_vars => MessageInv'
  BY MessageInvKept
<1> QED
  BY <1>1, MessageInvInit, TableInvariant, PTL DEF Spec

\* A Queued task's wake-up is in the outbox, at the broker, at a worker that has not
\* looked at the row, or named in the error log (OutboxProcessorWorker,
\* TaskExecutionWorker's negative acknowledgement).
THEOREM WakeUpsOnTheirWay == Spec => []QueuedOnItsWay
<1>1. MessageInv => QueuedOnItsWay
  BY DEF MessageInv
<1> QED
  BY <1>1, MessageInvariant, PTL

\* The result of a OneTime task is in the outbox, delivered, or named in the error
\* log, and it is only delivered once the task has completed
\* (RunExecutionCommandHandler, OutboxProcessorWorker).
THEOREM ResultsAccounted == Spec => []ResultsAccountedFor
<1>1. MessageInv => ResultsAccountedFor
  BY DEF MessageInv
<1> QED
  BY <1>1, MessageInvariant, PTL
=============================================================================
