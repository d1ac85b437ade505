---------------------------- MODULE PollingProofs ----------------------------
(***************************************************************************)
(* Theorems about PollingEngine, for any number of tasks, pollers, workers *)
(* and watched services.  The poller is one more holder of copies: its two *)
(* transactions are transitions of the aggregate that raise the version,   *)
(* so what TaskEngineProofs says of a step of the engine goes on to hold,  *)
(* and a poller whose copy still has the row's version owns the capture    *)
(* and everything it has read since.                                       *)
(***************************************************************************)
EXTENDS PollingEngine, TaskEngineProofs

-----------------------------------------------------------------------------
(* The poller's transitions of a row.                                      *)

PollStep(old, new) ==
  \/ old.status = "Scheduled" /\ new = TryAcquirePollingTask(old)
  \/ old.status = "Executing" /\ new = Saved(RescheduleAfterPolling(old))

LEMMA PollStepSound ==
  ASSUME NEW old \in Row, NEW new, RowOK(old), PollStep(old, new)
  PROVE  /\ new \in Row
         /\ RowOK(new)
         /\ new.version = old.version + 1
         /\ new.status \in {"Scheduled", "Executing"}
<1>1. CASE old.status = "Scheduled" /\ new = TryAcquirePollingTask(old)
  <2> DEFINE got == [old EXCEPT !.status = "Executing", !.lock = TRUE, !.next = FALSE]
  <2>1. got \in Row
    BY DEF Row, StatusTask
  <2>2. new \in Row
    BY <1>1, <2>1, SavedType DEF TryAcquirePollingTask
  <2>3. /\ new.status = "Executing" /\ new.lock = TRUE /\ new.next = FALSE
        /\ new.attempt = old.attempt /\ new.version = old.version + 1
    BY <1>1 DEF TryAcquirePollingTask, Saved, Row
  <2> QED
    BY <1>1, <2>2, <2>3 DEF RowOK
<1>2. CASE old.status = "Executing" /\ new = Saved(RescheduleAfterPolling(old))
  <2>1. RescheduleAfterPolling(old) \in Row
    BY DEF RescheduleAfterPolling, Row, StatusTask
  <2>2. new \in Row
    BY <1>2, <2>1, SavedType
  <2>3. /\ new.status = "Scheduled" /\ new.lock = FALSE /\ new.next = TRUE
        /\ new.attempt = old.attempt /\ new.version = old.version + 1
    BY <1>2 DEF RescheduleAfterPolling, Saved, Row
  <2> QED
    BY <1>2, <2>2, <2>3 DEF RowOK
<1> QED
  BY <1>1, <1>2 DEF PollStep

-----------------------------------------------------------------------------
(* The inductive invariant.                                                *)

\* A poller has a task exactly while a check of it is under way.
PollersFit ==
  \A p \in Poller :
    /\ poller[p].pc \in {"calling", "answered", "comparing"} <=> poller[p].task # NoTask
    /\ poller[p].task # NoTask => poller[p].copy.status = "Executing"

\* The stored answer is the last one a check has learned, or that of a failed check;
\* what the owner of a capture has read of it is what is stored.
StoredAnswersFit ==
  /\ \A t \in Polling : lastAnswer[t] \in {NoAnswer, learned[t]}
  /\ \A p \in Poller : poller[p].pc = "comparing" /\ PollerHolds(p)
       => poller[p].previous = lastAnswer[poller[p].task]

PollingInv ==
  /\ TableInv
  /\ PollingTypeOK
  /\ PollersFit
  /\ PollerOwnsCapture
  /\ StoredAnswersFit

LEMMA PollingTasks ==
  /\ Polling \subseteq Task
  /\ NoTask \notin Task
BY PollingAssumption, EngineAssumption

\* What a poller holds.
LEMMA BusyPoller ==
  ASSUME PollingTypeOK, NEW p \in Poller
  PROVE  /\ poller[p] \in PollerState
         /\ poller[p].copy \in Row /\ poller[p].copy.version \in Nat
         /\ poller[p].task # NoTask => poller[p].task \in Polling
BY DEF PollingTypeOK, PollerState, Row

-----------------------------------------------------------------------------
(* The steps: one of the engine, one of the poller's two writes, or one    *)
(* that touches no row.                                                    *)

\* The capture of t for a check, and the recording of the check.
Captures(p, t) ==
  /\ poller[p].pc = "walking" /\ t \in Polling
  /\ tasks[t].status = "Scheduled"
  /\ tasks' = [tasks EXCEPT ![t] = TryAcquirePollingTask(tasks[t])]
  /\ \E S \in SUBSET Planned :
       poller' = [poller EXCEPT ![p] =
                    [Waiting(S) EXCEPT !.pc = "calling", !.task = t,
                                       !.copy = TryAcquirePollingTask(tasks[t])]]
  /\ UNCHANGED <<outbox, dlq, worker, client, lastAnswer, learned>>

Records(p) ==
  /\ poller[p].task # NoTask
  /\ PollerHolds(p)
  /\ tasks' = [tasks EXCEPT ![poller[p].task] = Saved(RescheduleAfterPolling(poller[p].copy))]
  /\ \E S \in SUBSET Planned : poller' = [poller EXCEPT ![p] = Waiting(S)]
  /\ UNCHANGED <<dlq, worker, client>>

\* A poller goes on with the task it has, or lets go of it.
GoesOn(p) ==
  /\ \E x \in PollerState :
       /\ poller' = [poller EXCEPT ![p] = x]
       /\ \/ x.task = NoTask /\ x.pc \in {"idle", "walking"}
          \/ /\ x.task = poller[p].task /\ x.copy = poller[p].copy
             /\ x.pc \in {"answered", "comparing"}
             /\ poller[p].pc \in {"calling", "answered"}
             /\ x.pc = "comparing" => x.previous = lastAnswer[x.task]
  /\ UNCHANGED <<tasks, outbox, dlq, worker, client, lastAnswer, learned>>

Looks ==
  /\ UNCHANGED <<tasks, outbox, dlq, worker, client, lastAnswer, learned>>
  /\ poller' = poller \/ \E p \in Poller : GoesOn(p)

LEMMA WalkingPoller ==
  ASSUME NEW S \in SUBSET Planned
  PROVE  /\ Waiting(S) \in PollerState
         /\ Waiting(S).task = NoTask
         /\ Waiting(S).pc = "walking"
<1>1. AbsentRow \in Row
  BY DEF AbsentRow, Row, StatusTask
<1> QED
  BY <1>1 DEF Waiting, PollerState, Answer

LEMMA RestingPoller ==
  /\ IdlePoller \in PollerState
  /\ IdlePoller.task = NoTask
  /\ IdlePoller.pc = "idle"
<1>1. Waiting({}) \in PollerState /\ Waiting({}).task = NoTask
  BY WalkingPoller
<1>2. ASSUME NEW x \in PollerState
      PROVE  /\ [x EXCEPT !.pc = "idle"] \in PollerState
             /\ [x EXCEPT !.pc = "idle"].task = x.task
             /\ [x EXCEPT !.pc = "idle"].pc = "idle"
  BY DEF PollerState
<1> QED
  BY <1>1, <1>2 DEF IdlePoller

\* Every step of a poller is one of these.
LEMMA PollerSteps ==
  ASSUME PollingTypeOK, PollersFit, TypeOK, NEW p \in Poller,
         ReadBatch(p) \/ CheckStep(p) \/ PollerFails(p)
  PROVE  \/ \E t \in Polling : Captures(p, t)
         \/ Records(p)
         \/ GoesOn(p)
<1>0. /\ poller \in [Poller -> PollerState] /\ poller[p] \in PollerState
      /\ lastAnswer \in [Polling -> Answer]
      /\ tasks \in [Task -> Row]
      /\ poller[p].batch \subseteq Planned
      /\ \A t \in Polling : tasks[t].version \in Nat
  BY PollingTasks DEF PollingTypeOK, PollerState, TypeOK, Row
<1>1. ASSUME NEW S \in SUBSET Planned, poller' = [poller EXCEPT ![p] = Waiting(S)],
             UNCHANGED <<tasks, outbox, dlq, worker, client, lastAnswer, learned>>
      PROVE  GoesOn(p)
  BY <1>1, WalkingPoller DEF GoesOn
<1>2. ASSUME poller' = [poller EXCEPT ![p] = IdlePoller],
             UNCHANGED <<tasks, outbox, dlq, worker, client, lastAnswer, learned>>
      PROVE  GoesOn(p)
  BY <1>2, RestingPoller DEF GoesOn
<1>3. CASE ReadBatch(p)
  <2>1. PICK S \in SUBSET DuePolling :
          poller' = [poller EXCEPT ![p] =
                       Waiting({[task |-> t, version |-> tasks[t].version] : t \in S})]
    BY <1>3 DEF ReadBatch
  <2>2. {[task |-> t, version |-> tasks[t].version] : t \in S} \subseteq Planned
    BY <1>0, <2>1 DEF DuePolling, Planned
  <2>3. UNCHANGED <<tasks, outbox, dlq, worker, client, lastAnswer, learned>>
    BY <1>3 DEF ReadBatch, vars, rows
  <2> QED
    BY <1>1, <2>1, <2>2, <2>3
<1>4. ASSUME NEW b \in poller[p].batch, AcquirePolling(p, b)
      PROVE  \E t \in Polling : Captures(p, t)
  <2>1. b.task \in Polling /\ poller[p].batch \ {b} \in SUBSET Planned
    BY <1>0, <1>4 DEF Planned
  <2>2. Captures(p, b.task)
    BY <1>4, <2>1 DEF AcquirePolling, Captures, Write, relayed
  <2> QED
    BY <2>1, <2>2
<1>5. ASSUME NEW b \in poller[p].batch, SkipPolling(p, b)
      PROVE  GoesOn(p)
  <2> DEFINE x == [poller[p] EXCEPT !.batch = @ \ {b}]
  <2>1. poller' = [poller EXCEPT ![p] = x] /\ poller[p].pc = "walking"
    BY <1>0, <1>5 DEF SkipPolling
  <2>2. x \in PollerState /\ x.task = poller[p].task /\ x.pc = "walking"
    BY <1>0, <2>1 DEF PollerState
  <2>3. x.task = NoTask
    BY <2>1, <2>2 DEF PollersFit
  <2>4. UNCHANGED <<tasks, outbox, dlq, worker, client, lastAnswer, learned>>
    BY <1>5 DEF SkipPolling, vars, rows
  <2> HIDE DEF x
  <2> QED
    BY <2>1, <2>2, <2>3, <2>4 DEF GoesOn
<1>6. CASE FinishBatch(p)
  BY <1>2, <1>6 DEF FinishBatch, vars, rows
<1>7. CASE ServiceAnswers(p)
  <2>1. poller[p].pc = "calling" /\ poller[p].task \in Polling
    BY <1>0, <1>7, BusyPoller DEF ServiceAnswers, PollersFit
  <2>2. PICK a \in Answer :
          poller' = [poller EXCEPT ![p].pc = "answered", ![p].answer = a]
    BY <1>7 DEF ServiceAnswers, Answer
  <2>3. a \in Answer
    OBVIOUS
  <2> DEFINE x == [poller[p] EXCEPT !.pc = "answered", !.answer = a]
  <2>4. poller' = [poller EXCEPT ![p] = x]
    BY <1>0, <2>2
  <2>5. /\ x \in PollerState /\ x.task = poller[p].task /\ x.copy = poller[p].copy
        /\ x.pc = "answered"
    BY <1>0, <2>3 DEF PollerState
  <2>6. UNCHANGED <<tasks, outbox, dlq, worker, client, lastAnswer, learned>>
    BY <1>7 DEF ServiceAnswers, vars, rows
  <2> HIDE DEF x
  <2> QED
    BY <2>1, <2>4, <2>5, <2>6 DEF GoesOn
<1>8. CASE LoadState(p)
  <2>1. poller[p].pc = "answered" /\ poller[p].task \in Polling
    BY <1>0, <1>8, BusyPoller DEF LoadState, PollersFit
  <2> DEFINE x == [poller[p] EXCEPT !.pc = "comparing",
                                    !.previous = lastAnswer[poller[p].task]]
  <2>2. poller' = [poller EXCEPT ![p] = x]
    BY <1>0, <1>8 DEF LoadState
  <2>3. lastAnswer[poller[p].task] \in Answer
    BY <1>0, <2>1
  <2>4. /\ x \in PollerState /\ x.task = poller[p].task /\ x.copy = poller[p].copy
        /\ x.pc = "comparing" /\ x.previous = lastAnswer[poller[p].task]
    BY <1>0, <2>3 DEF PollerState
  <2>5. UNCHANGED <<tasks, outbox, dlq, worker, client, lastAnswer, learned>>
    BY <1>8 DEF LoadState, vars, rows
  <2> HIDE DEF x
  <2> QED
    BY <2>1, <2>2, <2>4, <2>5 DEF GoesOn
<1>9. CASE RecordCheck(p) \/ RecordThrow(p)
  <2>1. poller[p].task # NoTask
    BY <1>9 DEF RecordCheck, RecordThrow, PollersFit
  <2>2. /\ PollerHolds(p)
        /\ tasks' = [tasks EXCEPT ![poller[p].task] =
                       Saved(RescheduleAfterPolling(poller[p].copy))]
        /\ poller' = [poller EXCEPT ![p] = Waiting(poller[p].batch)]
        /\ UNCHANGED <<dlq, worker, client>>
    BY <1>9 DEF RecordCheck, RecordThrow, PutBack, Write
  <2> QED
    BY <1>0, <2>1, <2>2 DEF Records
<1>10. CASE PollingConflicts(p)
  BY <1>2, <1>10 DEF PollingConflicts, vars, rows
<1>11. CASE PollerFails(p)
  BY <1>2, <1>11 DEF PollerFails, rows, relayed
<1>12. CASE CompareThrows(p)
  BY <1>2, <1>12 DEF CompareThrows, vars, rows
<1> QED
  BY <1>3, <1>4, <1>5, <1>6, <1>7, <1>8, <1>9, <1>10, <1>11, <1>12 DEF CheckStep

EngineStep == [Next]_vars /\ UNCHANGED polled

LEMMA PollingSteps ==
  ASSUME PollingTypeOK, PollersFit, TypeOK, [PollingNext]_pollingVars
  PROVE  \/ EngineStep
         \/ Looks
         \/ \E p \in Poller : Records(p) \/ \E t \in Polling : Captures(p, t)
<1>1. CASE Next /\ UNCHANGED polled
  BY <1>1 DEF EngineStep
<1>3. CASE \E p \in Poller : ReadBatch(p) \/ CheckStep(p) \/ PollerFails(p)
  <2>1. PICK p \in Poller : ReadBatch(p) \/ CheckStep(p) \/ PollerFails(p)
    BY <1>3
  <2>2. ASSUME GoesOn(p) PROVE Looks
    BY <2>2 DEF GoesOn, Looks
  <2> QED
    BY <2>1, <2>2, PollerSteps
<1>4. CASE UNCHANGED pollingVars
  BY <1>4 DEF EngineStep, pollingVars
<1> QED
  BY <1>1, <1>3, <1>4 DEF PollingNext

-----------------------------------------------------------------------------
(* The rows.                                                               *)

\* Every step leaves a row as it is, takes it through a transition of the engine,
\* or through one of the poller's.
LEMMA PollingEvolves ==
  ASSUME PollingInv, [PollingNext]_pollingVars
  PROVE  /\ tasks' \in [Task -> Row]
         /\ \A t \in Task : \/ tasks'[t] = tasks[t]
                            \/ RowStep(t, tasks[t], tasks'[t])
                            \/ t \in Polling /\ PollStep(tasks[t], tasks'[t])
<1>0. /\ TableInv /\ TypeOK /\ PollingTypeOK /\ PollersFit /\ PollerOwnsCapture
      /\ tasks \in [Task -> Row] /\ \A t \in Task : RowOK(tasks[t])
  BY DEF PollingInv, TableInv, TypeOK
<1>1. ASSUME NEW t \in Polling, NEW new, PollStep(tasks[t], new),
             tasks' = [tasks EXCEPT ![t] = new]
      PROVE  /\ tasks' \in [Task -> Row]
             /\ \A u \in Task : tasks'[u] = tasks[u] \/ (u = t /\ tasks'[t] = new)
  <2>1. t \in Task /\ new \in Row
    BY <1>0, <1>1, PollingTasks, PollStepSound
  <2> QED
    BY <1>0, <1>1, <2>1
<1>2. CASE EngineStep
  BY <1>0, <1>2, StepEvolves DEF EngineStep, RowsEvolve
<1>3. CASE Looks
  BY <1>0, <1>3 DEF Looks
<1>4. ASSUME NEW p \in Poller, NEW t \in Polling, Captures(p, t)
      PROVE  PollStep(tasks[t], TryAcquirePollingTask(tasks[t]))
  BY <1>4 DEF Captures, PollStep
<1>5. ASSUME NEW p \in Poller, Records(p)
      PROVE  /\ poller[p].task \in Polling
             /\ poller[p].copy = tasks[poller[p].task]
             /\ PollStep(tasks[poller[p].task], Saved(RescheduleAfterPolling(poller[p].copy)))
  <2>1. poller[p].task # NoTask /\ PollerHolds(p)
    BY <1>5 DEF Records
  <2>2. poller[p].task \in Polling
    BY <1>0, <2>1, BusyPoller
  <2>3. poller[p].copy = tasks[poller[p].task] /\ poller[p].copy.status = "Executing"
    BY <1>0, <2>1 DEF PollerOwnsCapture
  <2> QED
    BY <2>2, <2>3 DEF PollStep
<1>6. ASSUME NEW p \in Poller, NEW t \in Polling, Captures(p, t)
      PROVE  /\ tasks' \in [Task -> Row]
             /\ \A u \in Task : tasks'[u] = tasks[u] \/ (u = t /\ PollStep(tasks[t], tasks'[t]))
  <2>1. tasks' = [tasks EXCEPT ![t] = TryAcquirePollingTask(tasks[t])]
    BY <1>6 DEF Captures
  <2> QED
    BY <1>1, <1>4, <1>6, <2>1
<1>7. ASSUME NEW p \in Poller, Records(p)
      PROVE  /\ tasks' \in [Task -> Row]
             /\ \A u \in Task : \/ tasks'[u] = tasks[u]
                                \/ u \in Polling /\ PollStep(tasks[u], tasks'[u])
  <2>1. tasks' = [tasks EXCEPT ![poller[p].task] =
                    Saved(RescheduleAfterPolling(poller[p].copy))]
    BY <1>7 DEF Records
  <2> DEFINE t == poller[p].task
             new == Saved(RescheduleAfterPolling(poller[p].copy))
  <2>2. t \in Polling /\ PollStep(tasks[t], new) /\ tasks' = [tasks EXCEPT ![t] = new]
    BY <1>5, <1>7, <2>1
  <2> HIDE DEF t, new
  <2>3. /\ tasks' \in [Task -> Row]
        /\ \A u \in Task : tasks'[u] = tasks[u] \/ (u = t /\ tasks'[t] = new)
    BY <1>1, <2>2
  <2> QED
    BY <2>2, <2>3
<1> QED
  BY <1>0, <1>2, <1>3, <1>6, <1>7, PollingSteps

\* An unchanged row keeps its version, a changed one gets a larger one.
LEMMA PollingVersionsGrow ==
  ASSUME PollingInv, [PollingNext]_pollingVars, NEW t \in Task
  PROVE  /\ RowOK(tasks'[t])
         /\ tasks[t].version \in Nat /\ tasks'[t].version \in Nat
         /\ tasks'[t] = tasks[t] \/ tasks[t].version < tasks'[t].version
<1>1. /\ tasks[t] \in Row /\ tasks'[t] \in Row /\ RowOK(tasks[t])
      /\ \/ tasks'[t] = tasks[t]
         \/ RowStep(t, tasks[t], tasks'[t])
         \/ PollStep(tasks[t], tasks'[t])
  BY PollingEvolves DEF PollingInv, TableInv, TypeOK
<1>2. tasks[t].version \in Nat /\ tasks'[t].version \in Nat
  BY <1>1 DEF Row
<1>3. CASE tasks'[t] = tasks[t]
  BY <1>1, <1>2, <1>3
<1>4. CASE RowStep(t, tasks[t], tasks'[t])
  BY <1>1, <1>2, <1>4, RowStepSound
<1>5. CASE PollStep(tasks[t], tasks'[t])
  BY <1>1, <1>2, <1>5, PollStepSound
<1> QED
  BY <1>1, <1>3, <1>4, <1>5

-----------------------------------------------------------------------------
(* The engine's invariant.                                                 *)

\* A version that a copy had not passed yet is not lowered, and at an unchanged
\* version the row is unchanged: a copy stays the row or older than it.
LEMMA CopyStaysOld ==
  ASSUME PollingInv, [PollingNext]_pollingVars, NEW t \in Task, NEW copy,
         copy.version \in Nat, copy.version <= tasks[t].version
  PROVE  /\ copy.version <= tasks'[t].version
         /\ tasks'[t].version = copy.version => tasks'[t] = tasks[t]
<1>1. /\ tasks[t].version \in Nat /\ tasks'[t].version \in Nat
      /\ tasks'[t] = tasks[t] \/ tasks[t].version < tasks'[t].version
  BY PollingVersionsGrow
<1> QED
  BY <1>1

\* The poller's steps add nothing the engine's variables could not hold.
LEMMA PollingStepType ==
  ASSUME PollingInv, [PollingNext]_pollingVars
  PROVE  TypeOK'
<1>0. TableInv /\ TypeOK /\ PollingTypeOK /\ PollersFit /\ tasks' \in [Task -> Row]
  BY PollingEvolves DEF PollingInv, TableInv
<1>1. ASSUME NEW table, NEW late, Write(table, late)
      PROVE  due' \subseteq Task /\ expired' \subseteq Task
  BY <1>0, <1>1 DEF Write, TypeOK
<1>2. ASSUME NEW p \in Poller, NEW b \in poller[p].batch, AcquirePolling(p, b)
      PROVE  TypeOK'
  <2>1. due' \subseteq Task /\ expired' \subseteq Task
    BY <1>1, <1>2 DEF AcquirePolling
  <2>2. UNCHANGED <<outbox, relayed, dlq, broker, worker, client, faults>>
    BY <1>2 DEF AcquirePolling, relayed
  <2> QED
    BY <1>0, <2>1, <2>2 DEF TypeOK, relayed
<1>3. ASSUME NEW p \in Poller, RecordThrow(p)
      PROVE  TypeOK'
  <2>1. due' \subseteq Task /\ expired' \subseteq Task
    BY <1>1, <1>3 DEF RecordThrow, PutBack
  <2>2. UNCHANGED <<relayed, dlq, broker, worker, client, faults>>
    BY <1>3 DEF RecordThrow
  <2> QED
    BY <1>0, <2>1, <2>2 DEF TypeOK, relayed
<1>4. ASSUME NEW p \in Poller, RecordCheck(p)
      PROVE  TypeOK'
  <2>1. due' \subseteq Task /\ expired' \subseteq Task
    BY <1>1, <1>4 DEF RecordCheck, PutBack
  <2>2. UNCHANGED <<relay, givenUp, delivered, dlq, broker, worker, client, faults>>
    BY <1>4 DEF RecordCheck
  <2> DEFINE t == poller[p].task
  <2>3. t \in Task
    BY <1>0, <1>4, BusyPoller, PollingTasks DEF RecordCheck, PollersFit
  <2>4. tasks[t].version + 1 \in Nat
    BY <1>0, <2>3 DEF TypeOK, Row
  <2>5. DeliveryRequest(t, tasks[t].version + 1) \in Message
    BY <2>3, <2>4, NewMessage
  <2>6. outbox' \in {outbox, outbox \cup {DeliveryRequest(t, tasks[t].version + 1)}}
    BY <1>4 DEF RecordCheck
  <2> HIDE DEF t
  <2>7. outbox' \subseteq Message
    BY <1>0, <2>5, <2>6 DEF TypeOK
  <2> QED
    BY <1>0, <2>1, <2>2, <2>7 DEF TypeOK
<1>5. ASSUME UNCHANGED vars PROVE TypeOK'
  BY <1>0, <1>5 DEF TypeOK, vars, rows
<1>6. ASSUME NEW p \in Poller, PollerFails(p) PROVE TypeOK'
  <2>1. faults' \in 0..MaxFaults
    BY <1>0, <1>6, EngineAssumption DEF PollerFails, Fault, TypeOK
  <2> QED
    BY <1>0, <1>6, <2>1 DEF PollerFails, TypeOK, rows, relayed
<1>7. ASSUME NEW p \in Poller, ReadBatch(p) \/ CheckStep(p) PROVE TypeOK'
  BY <1>2, <1>3, <1>4, <1>5, <1>7
     DEF CheckStep, ReadBatch, SkipPolling, FinishBatch, ServiceAnswers, LoadState,
         CompareThrows, PollingConflicts
<1>8. CASE Next /\ UNCHANGED polled
  BY <1>0, <1>8, StepType
<1>10. CASE UNCHANGED pollingVars
  BY <1>5, <1>10 DEF pollingVars
<1> QED
  BY <1>6, <1>7, <1>8, <1>10 DEF PollingNext

\* The engine's own steps keep its invariant, and a poller's write makes every
\* other copy of the row an old one.
LEMMA PollingTableInvKept ==
  ASSUME PollingInv, [PollingNext]_pollingVars
  PROVE  TableInv'
<1>0. /\ TableInv /\ TypeOK /\ VersionIdentifiesRow /\ LoadedAllows
      /\ PollingTypeOK /\ PollersFit
      /\ worker \in [Worker -> WorkerState] /\ client \in [Client -> ClientState]
  BY DEF PollingInv, TableInv, TypeOK
<1>1. CASE EngineStep
  BY <1>0, <1>1, TableInvKept DEF EngineStep
<1>2. CASE UNCHANGED <<worker, client>>
  <2>1. ASSUME NEW w \in Worker, worker[w].pc = "calling"
        PROVE  LET row == tasks'[worker[w].task] IN
                 /\ worker[w].copy.version <= row.version
                 /\ row.version = worker[w].copy.version =>
                      worker[w].copy = row /\ row.status = "Executing"
    <3>1. worker[w].task \in Task /\ worker[w].copy.version \in Nat
      BY <1>0, <2>1, BusyWorker DEF Row
    <3>2. /\ worker[w].copy.version <= tasks[worker[w].task].version
          /\ tasks[worker[w].task].version = worker[w].copy.version =>
               /\ worker[w].copy = tasks[worker[w].task]
               /\ tasks[worker[w].task].status = "Executing"
      BY <1>0, <2>1 DEF VersionIdentifiesRow, HoldsVersion
    <3> QED
      BY <3>1, <3>2, CopyStaysOld
  <2>2. ASSUME NEW c \in Client, client[c].op # "none"
        PROVE  LET row == tasks'[client[c].task] IN
                 /\ client[c].copy.version <= row.version
                 /\ row.version = client[c].copy.version => client[c].copy = row
    <3>1. client[c].task \in Task /\ client[c].copy.version \in Nat
      BY <1>0, <2>2, BusyClient DEF Row
    <3>2. /\ client[c].copy.version <= tasks[client[c].task].version
          /\ tasks[client[c].task].version = client[c].copy.version =>
               client[c].copy = tasks[client[c].task]
      BY <1>0, <2>2 DEF VersionIdentifiesRow, LoadedVersion
    <3> QED
      BY <3>1, <3>2, CopyStaysOld
  <2>3. VersionIdentifiesRow'
    BY <1>0, <1>2, <2>1, <2>2 DEF VersionIdentifiesRow, HoldsVersion, LoadedVersion
  <2>4. LoadedAllows'
    BY <1>0, <1>2 DEF LoadedAllows, Allows, CanPause, CanResume, CanCancel
  <2>5. \A t \in Task : RowOK(tasks'[t])
    BY PollingVersionsGrow
  <2>6. \A t \in Task : RowOK(tasks[t])'
    BY <2>5 DEF RowOK
  <2> QED
    BY <2>3, <2>4, <2>6, PollingStepType DEF TableInv
<1> QED
  BY <1>0, <1>1, <1>2, PollingSteps DEF Looks, Captures, Records

-----------------------------------------------------------------------------
(* The pollers.                                                            *)

\* What a capture leaves in the row and in the poller's memory.
LEMMA CapturedForCheck ==
  ASSUME PollingInv, NEW p \in Poller, NEW t \in Polling, Captures(p, t)
  PROVE  /\ t \in Task
         /\ poller'[p] \in PollerState
         /\ poller'[p].pc = "calling"
         /\ poller'[p].task = t
         /\ poller'[p].copy = tasks'[t]
         /\ tasks'[t].status = "Executing"
         /\ tasks'[t].version = tasks[t].version + 1
         /\ poller' = [poller EXCEPT ![p] = poller'[p]]
         /\ UNCHANGED <<worker, lastAnswer, learned>>
<1> DEFINE row == TryAcquirePollingTask(tasks[t])
<1>0. /\ t \in Task /\ tasks \in [Task -> Row] /\ RowOK(tasks[t])
      /\ poller \in [Poller -> PollerState]
  BY PollingTasks DEF PollingInv, TableInv, TypeOK, PollingTypeOK
<1>1. PollStep(tasks[t], row)
  BY DEF Captures, PollStep
<1>2. row \in Row /\ row.version = tasks[t].version + 1
  BY <1>0, <1>1, PollStepSound
<1>3. row.status = "Executing"
  BY <1>0 DEF TryAcquirePollingTask, Saved, Row
<1>4. PICK S \in SUBSET Planned :
        poller' = [poller EXCEPT ![p] =
                     [Waiting(S) EXCEPT !.pc = "calling", !.task = t, !.copy = row]]
  BY DEF Captures
<1>5. tasks' = [tasks EXCEPT ![t] = row] /\ UNCHANGED <<worker, lastAnswer, learned>>
  BY DEF Captures
<1> DEFINE x == [Waiting(S) EXCEPT !.pc = "calling", !.task = t, !.copy = row]
<1> HIDE DEF row
<1>6. x \in PollerState /\ x.pc = "calling" /\ x.task = t /\ x.copy = row
  <2>1. ASSUME NEW y \in PollerState, NEW z \in Row
        PROVE  LET v == [y EXCEPT !.pc = "calling", !.task = t, !.copy = z]
               IN  v \in PollerState /\ v.pc = "calling" /\ v.task = t /\ v.copy = z
    BY DEF PollerState
  <2> QED
    BY <1>2, <2>1, WalkingPoller
<1>7. poller' = [poller EXCEPT ![p] = x]
  BY <1>4
<1> HIDE DEF x
<1>8. poller'[p] = x /\ tasks'[t] = row
  BY <1>0, <1>5, <1>7
<1> QED
  BY <1>0, <1>2, <1>3, <1>5, <1>6, <1>7, <1>8

\* Of a single poller's point of view: it takes one of its steps, or none.
LEMMA PollerEvolves ==
  ASSUME PollingInv, [PollingNext]_pollingVars
  PROVE  /\ poller' \in [Poller -> PollerState]
         /\ \A p \in Poller : \/ poller'[p] = poller[p]
                              \/ \E t \in Polling : Captures(p, t)
                              \/ Records(p) /\ poller'[p].task = NoTask
                                            /\ poller'[p].pc = "walking"
                              \/ GoesOn(p)
<1>0. /\ PollingTypeOK /\ PollersFit /\ TypeOK /\ poller \in [Poller -> PollerState]
  BY DEF PollingInv, TableInv, PollingTypeOK
<1>1. CASE EngineStep
  BY <1>0, <1>1 DEF EngineStep, polled
<1>2. CASE Looks
  BY <1>0, <1>2 DEF Looks, GoesOn
<1>3. ASSUME NEW p \in Poller, NEW t \in Polling, Captures(p, t)
      PROVE  /\ poller' \in [Poller -> PollerState]
             /\ \A q \in Poller \ {p} : poller'[q] = poller[q]
  <2>1. poller'[p] \in PollerState /\ poller' = [poller EXCEPT ![p] = poller'[p]]
    BY <1>3, CapturedForCheck
  <2> QED
    BY <1>0, <2>1
<1>4. ASSUME NEW p \in Poller, Records(p)
      PROVE  /\ poller' \in [Poller -> PollerState]
             /\ \A q \in Poller \ {p} : poller'[q] = poller[q]
             /\ poller'[p].task = NoTask /\ poller'[p].pc = "walking"
  <2>1. PICK S \in SUBSET Planned : poller' = [poller EXCEPT ![p] = Waiting(S)]
    BY <1>4 DEF Records
  <2> QED
    BY <1>0, <2>1, WalkingPoller
<1> QED
  BY <1>0, <1>1, <1>2, <1>3, <1>4, PollingSteps

\* A poller that has a task after a step has captured it in this step, or had it
\* before with the same copy.
LEMMA HoldingPoller ==
  ASSUME PollingInv, [PollingNext]_pollingVars, NEW p \in Poller, poller'[p].task # NoTask
  PROVE  \/ poller'[p].task = poller[p].task /\ poller'[p].copy = poller[p].copy
         \/ \E t \in Polling : Captures(p, t)
<1>0. poller \in [Poller -> PollerState]
  BY DEF PollingInv, PollingTypeOK
<1>1. CASE GoesOn(p)
  <2>1. PICK x \in PollerState :
          /\ poller' = [poller EXCEPT ![p] = x]
          /\ \/ x.task = NoTask
             \/ x.task = poller[p].task /\ x.copy = poller[p].copy
    BY <1>1 DEF GoesOn
  <2> QED
    BY <1>0, <2>1
<1> QED
  BY <1>1, PollerEvolves

\* Two captures of a task differ, whoever made them: the later one has a version
\* that none before it had reached.
LEMMA PollerOwnsCaptureKept ==
  ASSUME PollingInv, [PollingNext]_pollingVars
  PROVE  PollerOwnsCapture'
<1>0. /\ PollingTypeOK /\ PollersFit /\ PollerOwnsCapture /\ TableInv /\ TypeOK
      /\ VersionIdentifiesRow
      /\ worker \in [Worker -> WorkerState] /\ poller \in [Poller -> PollerState]
  BY DEF PollingInv, TableInv, TypeOK, PollingTypeOK
<1> DEFINE Same(p) == poller'[p].task = poller[p].task /\ poller'[p].copy = poller[p].copy
<1>1. ASSUME NEW p \in Poller, poller'[p].task # NoTask
      PROVE  LET row == tasks'[poller'[p].task] IN
               /\ row.version = poller'[p].copy.version =>
                    poller'[p].copy = row /\ poller'[p].copy.status = "Executing"
               /\ poller'[p].copy.version <= row.version
  <2>1. CASE Same(p)
    <3>1. /\ poller[p].task # NoTask /\ poller[p].task \in Task
          /\ poller[p].copy.version \in Nat
      BY <1>0, <1>1, <2>1, BusyPoller, PollingTasks
    <3>2. /\ poller[p].copy.version <= tasks[poller[p].task].version
          /\ tasks[poller[p].task].version = poller[p].copy.version =>
               /\ poller[p].copy = tasks[poller[p].task]
               /\ poller[p].copy.status = "Executing"
      BY <1>0, <3>1 DEF PollerOwnsCapture, PollerHolds
    <3>3. /\ poller[p].copy.version <= tasks'[poller[p].task].version
          /\ tasks'[poller[p].task].version = poller[p].copy.version =>
               tasks'[poller[p].task] = tasks[poller[p].task]
      BY <3>1, <3>2, CopyStaysOld
    <3> QED
      BY <2>1, <3>2, <3>3
  <2>2. ASSUME NEW t \in Polling, Captures(p, t)
        PROVE  /\ poller'[p].copy = tasks'[poller'[p].task]
               /\ poller'[p].copy.status = "Executing"
               /\ poller'[p].copy.version <= tasks'[poller'[p].task].version
    <3>1. /\ t \in Task /\ poller'[p].task = t /\ poller'[p].copy = tasks'[t]
          /\ tasks'[t].status = "Executing"
      BY <2>2, CapturedForCheck
    <3>2. tasks'[t].version \in Nat
      BY <3>1, PollingVersionsGrow
    <3> QED
      BY <3>1, <3>2
  <2> QED
    BY <1>1, <2>1, <2>2, HoldingPoller
<1>2. ASSUME NEW p \in Poller, NEW q \in Poller \ {p}, NEW t \in Polling, Captures(p, t),
             poller'[q].task = t
      PROVE  poller'[q].copy.version # poller'[p].copy.version
  <2>1. /\ t \in Task /\ poller'[p].copy = tasks'[t]
        /\ tasks'[t].version = tasks[t].version + 1
        /\ poller' = [poller EXCEPT ![p] = poller'[p]]
    BY <1>2, CapturedForCheck
  <2>2. poller'[q] = poller[q]
    BY <1>0, <2>1
  <2>3. poller[q].copy.version <= tasks[t].version
    BY <1>0, <1>2, <2>1, <2>2, PollingTasks DEF PollerOwnsCapture
  <2>4. poller[q].copy.version \in Nat /\ tasks[t].version \in Nat
    BY <1>0, <2>1, BusyPoller, PollingVersionsGrow
  <2> QED
    BY <2>1, <2>2, <2>3, <2>4
<1>3. ASSUME NEW p \in Poller, poller'[p].task # NoTask,
             NEW q \in Poller \ {p}, poller'[q].task = poller'[p].task
      PROVE  poller'[q].copy.version # poller'[p].copy.version
  <2>1. CASE Same(p) /\ Same(q)
    BY <1>0, <1>3, <2>1 DEF PollerOwnsCapture
  <2>2. ASSUME NEW t \in Polling, Captures(p, t)
        PROVE  poller'[q].copy.version # poller'[p].copy.version
    BY <1>2, <1>3, <2>2, CapturedForCheck
  <2>3. ASSUME NEW t \in Polling, Captures(q, t)
        PROVE  poller'[q].copy.version # poller'[p].copy.version
    BY <1>2, <1>3, <2>3, CapturedForCheck
  <2> HIDE DEF Same
  <2>4. Same(p) \/ \E t \in Polling : Captures(p, t)
    BY <1>3, HoldingPoller DEF Same
  <2>5. Same(q) \/ \E t \in Polling : Captures(q, t)
    BY <1>3, HoldingPoller DEF Same
  <2> QED
    BY <2>1, <2>2, <2>3, <2>4, <2>5
<1>4. ASSUME NEW p \in Poller, poller'[p].task # NoTask,
             NEW w \in Worker, worker'[w].pc = "calling",
             worker'[w].task = poller'[p].task
      PROVE  worker'[w].copy.version # poller'[p].copy.version
  <2>1. CASE EngineStep /\ AcquireQueued(w)
    <3> DEFINE t == worker[w].task
    <3>1. /\ t \in Task /\ worker'[w].task = t /\ worker'[w].copy = tasks'[t]
          /\ tasks'[t].version = tasks[t].version + 1
      BY <1>0, <2>1, Captured
    <3>2. poller' = poller
      BY <2>1 DEF EngineStep, polled
    <3>3. poller[p].copy.version <= tasks[t].version
      BY <1>0, <1>4, <3>1, <3>2 DEF PollerOwnsCapture
    <3>4. poller[p].copy.version \in Nat /\ tasks[t].version \in Nat
      BY <1>0, <3>1, BusyPoller, PollingVersionsGrow
    <3> HIDE DEF t
    <3> QED
      BY <3>1, <3>2, <3>3, <3>4
  <2>2. CASE worker'[w] = worker[w]
    <3>1. CASE Same(p)
      BY <1>0, <1>4, <2>2, <3>1 DEF PollerOwnsCapture
    <3>2. ASSUME NEW t \in Polling, Captures(p, t)
          PROVE  worker'[w].copy.version # poller'[p].copy.version
      <4>1. /\ t \in Task /\ poller'[p].task = t /\ poller'[p].copy = tasks'[t]
            /\ tasks'[t].version = tasks[t].version + 1
        BY <3>2, CapturedForCheck
      <4>2. worker[w].pc = "calling" /\ worker[w].task = t
        BY <1>4, <2>2, <4>1
      <4>3. worker[w].copy.version <= tasks[t].version
        BY <1>0, <4>2 DEF VersionIdentifiesRow
      <4>4. worker[w].copy.version \in Nat /\ tasks[t].version \in Nat
        BY <1>0, <4>1, <4>2, BusyWorker, PollingVersionsGrow DEF Row
      <4> QED
        BY <2>2, <4>1, <4>3, <4>4
    <3> QED
      BY <1>4, <3>1, <3>2, HoldingPoller
  <2>3. CASE EngineStep
    BY <1>0, <1>4, <2>1, <2>2, <2>3, CallingWorker DEF EngineStep
  <2> QED
    BY <1>0, <2>2, <2>3, PollingSteps DEF Looks, Captures, Records
<1> HIDE DEF Same
<1> QED
  BY <1>1, <1>3, <1>4 DEF PollerOwnsCapture, PollerHolds

-----------------------------------------------------------------------------
(* The stored answers.                                                     *)

\* Nothing but the recording of a check touches them.
LEMMA AnswersRecorded ==
  ASSUME [PollingNext]_pollingVars
  PROVE  UNCHANGED <<lastAnswer, learned>> \/ \E p \in Poller : RecordCheck(p)
<1>1. ASSUME NEW p \in Poller, ReadBatch(p) \/ CheckStep(p) \/ PollerFails(p), ~RecordCheck(p)
      PROVE  UNCHANGED <<lastAnswer, learned>>
  BY <1>1 DEF CheckStep, ReadBatch, PollerFails, AcquirePolling, SkipPolling, FinishBatch,
              ServiceAnswers, LoadState, RecordThrow, CompareThrows, PollingConflicts
<1>3. CASE UNCHANGED pollingVars \/ (Next /\ UNCHANGED polled)
  BY <1>3 DEF pollingVars, polled
<1> QED
  BY <1>1, <1>3 DEF PollingNext

\* The recorded check: its poller owns the capture, the stored answer becomes the
\* one it got, the row gets a larger version.
LEMMA RecordedCheck ==
  ASSUME PollingInv, NEW p \in Poller, RecordCheck(p)
  PROVE  LET t == poller[p].task
             a == poller[p].answer
         IN  /\ t \in Polling /\ t \in Task
             /\ a \in Answer
             /\ PollerHolds(p)
             /\ poller[p].previous = lastAnswer[t]
             /\ lastAnswer' = [lastAnswer EXCEPT ![t] = a]
             /\ learned' = IF a = NoAnswer THEN learned ELSE [learned EXCEPT ![t] = a]
             /\ tasks'[t].version = tasks[t].version + 1
             /\ poller' = [poller EXCEPT ![p] = Waiting(poller[p].batch)]
             /\ poller[p].batch \in SUBSET Planned
<1>0. /\ PollingTypeOK /\ PollersFit /\ PollerOwnsCapture /\ StoredAnswersFit
      /\ tasks \in [Task -> Row] /\ poller[p] \in PollerState
  BY DEF PollingInv, TableInv, TypeOK, PollingTypeOK
<1> DEFINE t == poller[p].task
<1>1. poller[p].pc = "comparing" /\ PollerHolds(p)
  BY DEF RecordCheck
<1>2. t \in Polling /\ t \in Task
  BY <1>0, <1>1, BusyPoller, PollingTasks DEF PollersFit
<1>3. poller[p].copy = tasks[t] /\ poller[p].copy.status = "Executing"
  BY <1>0, <1>1, <1>2, PollingTasks DEF PollerOwnsCapture
<1>4. /\ poller[p].answer \in Answer /\ poller[p].batch \in SUBSET Planned
      /\ poller[p].previous = lastAnswer[t]
  BY <1>0, <1>1 DEF PollerState, StoredAnswersFit
<1>5. tasks' = [tasks EXCEPT ![t] = Saved(RescheduleAfterPolling(poller[p].copy))]
  BY DEF RecordCheck, PutBack, Write
<1>6. Saved(RescheduleAfterPolling(tasks[t])).version = tasks[t].version + 1
  BY <1>0, <1>2 DEF Saved, RescheduleAfterPolling, Row
<1>7. tasks'[t].version = tasks[t].version + 1
  BY <1>0, <1>2, <1>3, <1>5, <1>6
<1>8. /\ lastAnswer' = [lastAnswer EXCEPT ![t] = poller[p].answer]
      /\ learned' = IF poller[p].answer = NoAnswer THEN learned
                                           ELSE [learned EXCEPT ![t] = poller[p].answer]
      /\ poller' = [poller EXCEPT ![p] = Waiting(poller[p].batch)]
  BY DEF RecordCheck
<1> HIDE DEF t
<1> QED
  BY <1>1, <1>2, <1>4, <1>7, <1>8 DEF t

LEMMA PollingTypeKept ==
  ASSUME PollingInv, [PollingNext]_pollingVars
  PROVE  PollingTypeOK'
<1>0. /\ PollingTypeOK /\ poller' \in [Poller -> PollerState]
      /\ condition \in [Polling -> Conditions] /\ lastAnswer \in [Polling -> Answer]
      /\ learned \in [Polling -> Answer]
  BY PollerEvolves DEF PollingInv, PollingTypeOK
<1>1. lastAnswer' \in [Polling -> Answer] /\ learned' \in [Polling -> Answer]
  <2>1. ASSUME NEW p \in Poller, RecordCheck(p)
        PROVE  lastAnswer' \in [Polling -> Answer] /\ learned' \in [Polling -> Answer]
    BY <1>0, <2>1, RecordedCheck
  <2> QED
    BY <1>0, <2>1, AnswersRecorded
<1>2. UNCHANGED condition
  <2>1. ASSUME NEW p \in Poller, ReadBatch(p) \/ CheckStep(p) \/ PollerFails(p)
        PROVE  UNCHANGED condition
    BY <2>1 DEF CheckStep, ReadBatch, PollerFails, AcquirePolling, SkipPolling, FinishBatch,
                ServiceAnswers, LoadState, RecordCheck, RecordThrow, CompareThrows,
                PollingConflicts
  <2>2. CASE UNCHANGED pollingVars \/ (Next /\ UNCHANGED polled)
    BY <2>2 DEF pollingVars, polled
  <2> QED
    BY <2>1, <2>2 DEF PollingNext
<1> QED
  BY <1>0, <1>1, <1>2 DEF PollingTypeOK, PollerState

LEMMA PollersFitKept ==
  ASSUME PollingInv, [PollingNext]_pollingVars
  PROVE  PollersFit'
<1>0. PollersFit /\ poller \in [Poller -> PollerState]
  BY DEF PollingInv, PollingTypeOK
<1> SUFFICES ASSUME NEW p \in Poller
             PROVE  /\ poller'[p].pc \in {"calling", "answered", "comparing"}
                         <=> poller'[p].task # NoTask
                    /\ poller'[p].task # NoTask => poller'[p].copy.status = "Executing"
  BY DEF PollersFit
<1>1. CASE poller'[p] = poller[p]
  BY <1>0, <1>1 DEF PollersFit
<1>2. ASSUME NEW t \in Polling, Captures(p, t)
      PROVE  /\ poller'[p].pc = "calling" /\ poller'[p].task # NoTask
             /\ poller'[p].copy.status = "Executing"
  BY <1>2, CapturedForCheck, PollingTasks
<1>3. CASE GoesOn(p)
  <2>1. PICK x \in PollerState :
          /\ poller' = [poller EXCEPT ![p] = x]
          /\ \/ x.task = NoTask /\ x.pc \in {"idle", "walking"}
             \/ /\ x.task = poller[p].task /\ x.copy = poller[p].copy
                /\ x.pc \in {"answered", "comparing"}
                /\ poller[p].pc \in {"calling", "answered"}
    BY <1>3 DEF GoesOn
  <2>2. poller'[p] = x
    BY <1>0, <2>1
  <2> QED
    BY <1>0, <2>1, <2>2 DEF PollersFit
<1> QED
  BY <1>1, <1>2, <1>3, PollerEvolves

\* While a poller still owns its capture no other check of the task is recorded.
LEMMA StoredAnswersFitKept ==
  ASSUME PollingInv, [PollingNext]_pollingVars
  PROVE  StoredAnswersFit'
<1>0. /\ PollingTypeOK /\ PollersFit /\ PollerOwnsCapture /\ StoredAnswersFit
      /\ poller \in [Poller -> PollerState] /\ lastAnswer \in [Polling -> Answer]
      /\ learned \in [Polling -> Answer]
  BY DEF PollingInv, PollingTypeOK
<1>1. ASSUME NEW t \in Polling
      PROVE  lastAnswer'[t] \in {NoAnswer, learned'[t]}
  <2>1. ASSUME NEW p \in Poller, RecordCheck(p)
        PROVE  lastAnswer'[t] \in {NoAnswer, learned'[t]}
    <3>1. CASE poller[p].task = t
      BY <1>0, <2>1, <3>1, RecordedCheck
    <3>2. CASE poller[p].task # t
      BY <1>0, <2>1, <3>2, RecordedCheck DEF StoredAnswersFit
    <3> QED
      BY <3>1, <3>2
  <2>2. CASE UNCHANGED <<lastAnswer, learned>>
    BY <1>0, <2>2 DEF StoredAnswersFit
  <2> QED
    BY <2>1, <2>2, AnswersRecorded
<1>2. ASSUME NEW p \in Poller, poller'[p].pc = "comparing",
             tasks'[poller'[p].task].version = poller'[p].copy.version
      PROVE  poller'[p].previous = lastAnswer'[poller'[p].task]
  <2>1. CASE GoesOn(p)
    <3>1. PICK x \in PollerState :
            /\ poller' = [poller EXCEPT ![p] = x]
            /\ x.pc = "comparing" => x.previous = lastAnswer[x.task]
      BY <2>1 DEF GoesOn
    <3>2. UNCHANGED lastAnswer
      BY <2>1 DEF GoesOn
    <3> QED
      BY <1>0, <1>2, <3>1, <3>2
  <2>2. CASE poller'[p] = poller[p]
    <3> DEFINE t == poller[p].task
    <3>1. /\ t # NoTask /\ t \in Polling /\ t \in Task
          /\ poller[p].copy.version \in Nat
      BY <1>0, <1>2, <2>2, BusyPoller, PollingTasks DEF PollersFit
    <3>2. poller[p].copy.version <= tasks[t].version
      BY <1>0, <3>1 DEF PollerOwnsCapture
    <3>3. /\ tasks[t].version \in Nat /\ tasks'[t].version \in Nat
          /\ tasks'[t] = tasks[t] \/ tasks[t].version < tasks'[t].version
      BY <3>1, PollingVersionsGrow
    <3>4. tasks'[t].version = tasks[t].version /\ tasks[t].version = poller[p].copy.version
      BY <1>2, <2>2, <3>1, <3>2, <3>3
    <3>5. poller[p].previous = lastAnswer[t]
      BY <1>0, <1>2, <2>2, <3>4 DEF StoredAnswersFit, PollerHolds
    <3>6. ASSUME NEW q \in Poller, RecordCheck(q)
          PROVE  lastAnswer'[t] = lastAnswer[t]
      <4>1. poller[q].task # t
        BY <3>3, <3>4, <3>6, RecordedCheck
      <4> QED
        BY <1>0, <3>1, <3>6, <4>1, RecordedCheck
    <3>7. lastAnswer'[t] = lastAnswer[t]
      BY <3>6, AnswersRecorded
    <3> HIDE DEF t
    <3> QED
      BY <2>2, <3>5, <3>7 DEF t
  <2>3. ASSUME NEW t \in Polling, Captures(p, t) PROVE FALSE
    BY <1>2, <2>3, CapturedForCheck
  <2> QED
    BY <1>2, <2>1, <2>2, <2>3, PollerEvolves
<1> QED
  BY <1>1, <1>2 DEF StoredAnswersFit, PollerHolds

-----------------------------------------------------------------------------
(* The invariant, and what follows from it.                                *)

LEMMA PollingInvInit ==
  ASSUME PollingInit
  PROVE  PollingInv
<1>1. TableInv
  BY TableInvInit DEF PollingInit
<1>2. /\ condition \in [Polling -> Conditions]
      /\ lastAnswer = [t \in Polling |-> NoAnswer] /\ learned = lastAnswer
      /\ poller = [p \in Poller |-> IdlePoller]
  BY DEF PollingInit
<1>3. PollingTypeOK
  BY <1>2, RestingPoller DEF PollingTypeOK, Answer
<1>4. PollersFit /\ PollerOwnsCapture /\ StoredAnswersFit
  BY <1>2, RestingPoller DEF PollersFit, PollerOwnsCapture, StoredAnswersFit
<1> QED
  BY <1>1, <1>3, <1>4 DEF PollingInv

\* What the poller holds and has read stays true of the rows, through every step.
THEOREM PollingInvariant == PollingSpec => []PollingInv
<1>1. PollingInit => PollingInv
  BY PollingInvInit
<1>2. PollingInv /\ [PollingNext]_pollingVars => PollingInv'
  BY PollingTableInvKept, PollingTypeKept, PollersFitKept, PollerOwnsCaptureKept,
     StoredAnswersFitKept DEF PollingInv
<1> QED
  BY <1>1, <1>2, PTL DEF PollingSpec

\* The poller's variables keep their types.
THEOREM PollingTypeCorrect == PollingSpec => []PollingTypeOK
<1>1. PollingInv => PollingTypeOK
  BY DEF PollingInv
<1> QED
  BY <1>1, PollingInvariant, PTL

\* A poller's copy that still has the row's version is the row, and nobody else
\* works on that capture (TryAcquirePollingTaskAsync, UpdateAsync).
THEOREM CapturesOwned == PollingSpec => []PollerOwnsCapture
<1>1. PollingInv => PollerOwnsCapture
  BY DEF PollingInv
<1> QED
  BY <1>1, PollingInvariant, PTL

\* The answer a recorded check was compared with is the stored one
\* (RunPollingCheckCommandHandler.HandleAsync).
THEOREM LatestCompared == PollingSpec => ComparesWithLatest
<1>1. ASSUME PollingInv, [PollingNext]_pollingVars, NEW t \in Polling, NEW p \in Poller,
             lastAnswer'[t] # lastAnswer[t], poller[p].task = t, poller'[p].task # t
      PROVE  poller[p].previous = lastAnswer[t]
  <2>0. poller \in [Poller -> PollerState] /\ lastAnswer \in [Polling -> Answer]
    BY <1>1 DEF PollingInv, PollingTypeOK
  <2>1. PICK q \in Poller : RecordCheck(q)
    BY <1>1, AnswersRecorded
  <2>2. q = p
    BY <1>1, <2>0, <2>1, RecordedCheck
  <2> QED
    BY <1>1, <2>1, <2>2, RecordedCheck
<1>2. PollingInv /\ [PollingNext]_pollingVars =>
        [\A t \in Polling, p \in Poller :
           lastAnswer'[t] # lastAnswer[t] /\ poller[p].task = t /\ poller'[p].task # t
             => poller[p].previous = lastAnswer[t]]_pollingVars
  BY <1>1
<1> QED
  BY <1>2, PollingInvariant, PTL DEF PollingSpec, ComparesWithLatest

\* What the code compares, written as what the watcher waits for.
LEMMA ChangedIsNews ==
  ASSUME NEW t \in Polling, NEW old \in Value, NEW new \in Value,
         condition \in [Polling -> Conditions]
  PROVE  HasChanged(t, old, new) <=> News(t, old, new)
<1>1. /\ condition[t] \in {"none", "changed", "greater_than", "unknown"}
      /\ old # NoAnswer /\ new # NoAnswer
      /\ FieldOf[old] \in Nat \cup {NoField} /\ FieldOf[new] \in Nat \cup {NoField}
  BY PollingAssumption DEF Conditions
<1>2. CASE condition[t] = "none"
  BY <1>1, <1>2 DEF HasChanged, News
<1>3. CASE condition[t] = "changed"
  BY <1>1, <1>3 DEF HasChanged, News
<1>4. CASE condition[t] = "greater_than"
  BY <1>1, <1>4 DEF HasChanged, News
<1>5. CASE condition[t] = "unknown"
  BY <1>1, <1>5 DEF HasChanged, News
<1> QED
  BY <1>1, <1>2, <1>3, <1>4, <1>5

\* A check that is being compared and leaves a changed row behind has been recorded.
LEMMA ComparedIsRecorded ==
  ASSUME PollingInv, [PollingNext]_pollingVars, NEW p \in Poller,
         poller[p].pc = "comparing", poller'[p].task # poller[p].task,
         tasks'[poller[p].task] # tasks[poller[p].task]
  PROVE  RecordCheck(p)
<1>0. /\ poller \in [Poller -> PollerState]
      /\ PollingTypeOK /\ PollersFit /\ TypeOK
  BY DEF PollingInv, PollingTypeOK, TableInv
<1>1. ~UNCHANGED poller /\ ~UNCHANGED tasks
  OBVIOUS
<1>2. PICK q \in Poller : ReadBatch(q) \/ CheckStep(q) \/ PollerFails(q)
  BY <1>1 DEF PollingNext, polled, pollingVars
<1>3. q = p
  <2>1. \A r \in Poller \ {q} : poller'[r] = poller[r]
    BY <1>0, <1>2 DEF CheckStep, ReadBatch, PollerFails, AcquirePolling, SkipPolling,
       FinishBatch, ServiceAnswers, LoadState, RecordCheck, RecordThrow, CompareThrows,
       PollingConflicts
  <2> QED
    BY <2>1
<1>4. ReadBatch(p) \/ CheckStep(p) \/ PollerFails(p)
  BY <1>2, <1>3
<1> QED
  BY <1>1, <1>4 DEF CheckStep, ReadBatch, PollerFails, AcquirePolling, SkipPolling,
     FinishBatch, ServiceAnswers, LoadState, RecordThrow, CompareThrows, PollingConflicts,
     vars, rows

\* What a recorded check found is delivered exactly when it is news against the last
\* good answer, or none is stored (RunPollingCheckCommandHandler.HandleAsync).
THEOREM NewsDelivered == PollingSpec => NewsIsDelivered
<1>1. ASSUME PollingInv, [PollingNext]_pollingVars,
             NEW t \in Polling \cap Delivering, NEW p \in Poller,
             poller[p].task = t, poller[p].pc = "comparing",
             poller'[p].task # t, tasks'[t] # tasks[t]
      PROVE  IF poller[p].answer # NoAnswer
                /\ (lastAnswer[t] = NoAnswer \/ News(t, learned[t], poller[p].answer))
             THEN DeliveryRequest(t, tasks'[t].version) \in outbox'
             ELSE UNCHANGED outbox
  <2> DEFINE a == poller[p].answer
  <2>0. /\ learned \in [Polling -> Answer] /\ lastAnswer \in [Polling -> Answer]
        /\ condition \in [Polling -> Conditions]
        /\ lastAnswer[t] \in {NoAnswer, learned[t]}
    BY <1>1 DEF PollingInv, PollingTypeOK, StoredAnswersFit
  <2>1. RecordCheck(p)
    BY <1>1, ComparedIsRecorded
  <2>2. /\ a \in Answer
        /\ poller[p].previous = lastAnswer[t]
        /\ tasks'[t].version = tasks[t].version + 1
    BY <1>1, <2>1, RecordedCheck
  <2>3. outbox' = IF HasChanged(t, lastAnswer[t], a)
                  THEN outbox \cup {DeliveryRequest(t, tasks'[t].version)} ELSE outbox
    BY <1>1, <2>1, <2>2 DEF RecordCheck
  <2>4. HasChanged(t, lastAnswer[t], a)
          <=> a # NoAnswer /\ (lastAnswer[t] = NoAnswer \/ News(t, learned[t], a))
    <3>1. CASE a = NoAnswer
      BY <3>1 DEF HasChanged
    <3>2. CASE lastAnswer[t] = NoAnswer
      BY <3>2 DEF HasChanged
    <3>3. CASE a # NoAnswer /\ lastAnswer[t] # NoAnswer
      <4>1. a \in Value /\ learned[t] \in Value /\ lastAnswer[t] = learned[t]
        BY <2>0, <2>2, <3>3 DEF Answer
      <4>2. HasChanged(t, learned[t], a) <=> News(t, learned[t], a)
        BY <2>0, <4>1, ChangedIsNews
      <4> QED
        BY <3>3, <4>1, <4>2
    <3> QED
      BY <3>1, <3>2, <3>3
  <2> QED
    BY <2>3, <2>4
<1>2. PollingInv /\ [PollingNext]_pollingVars =>
        [\A t \in Polling \cap Delivering, p \in Poller :
           /\ poller[p].task = t /\ poller[p].pc = "comparing"
           /\ poller'[p].task # t /\ tasks'[t] # tasks[t]
           => IF poller[p].answer # NoAnswer
                 /\ (lastAnswer[t] = NoAnswer \/ News(t, learned[t], poller[p].answer))
              THEN DeliveryRequest(t, tasks'[t].version) \in outbox'
              ELSE UNCHANGED outbox]_pollingVars
  BY <1>1
<1> QED
  BY <1>2, PollingInvariant, PTL DEF PollingSpec, NewsIsDelivered

\* An executing polling task is changed by its holder, worker or poller, by the
\* heartbeat after the lock has expired, or by a cancellation.
THEOREM ChecksByHolder == PollingSpec => CheckByHolder
<1>1. ASSUME PollingInv, [PollingNext]_pollingVars, NEW t \in Polling,
             tasks[t].status = "Executing", tasks'[t] # tasks[t]
      PROVE  \/ tasks'[t].status = "Cancelled"
             \/ t \in expired
             \/ \E w \in Worker : worker[w].pc = "calling" /\ worker[w].task = t
                                  /\ worker[w].copy = tasks[t] /\ worker'[w].pc = "acking"
             \/ \E p \in Poller : poller[p].task = t /\ poller[p].copy = tasks[t]
                                  /\ poller'[p].task = NoTask
  <2>0. /\ TableInv /\ TypeOK /\ PollingTypeOK /\ PollersFit /\ PollerOwnsCapture
        /\ tasks \in [Task -> Row] /\ t \in Task /\ poller \in [Poller -> PollerState]
    BY <1>1, PollingTasks DEF PollingInv, TableInv, TypeOK, PollingTypeOK
  <2>1. CASE EngineStep
    BY <1>1, <2>0, <2>1, TakenFromHolder DEF EngineStep
  <2>2. ASSUME NEW p \in Poller, NEW u \in Polling, Captures(p, u) PROVE FALSE
    BY <1>1, <2>0, <2>2 DEF Captures
  <2>3. ASSUME NEW p \in Poller, Records(p)
        PROVE  poller[p].task = t /\ poller[p].copy = tasks[t] /\ poller'[p].task = NoTask
    <3>1. poller[p].task = t
      BY <1>1, <2>0, <2>3 DEF Records
    <3>2. poller[p].copy = tasks[t]
      BY <2>0, <2>3, <3>1 DEF Records, PollerOwnsCapture
    <3>3. PICK S \in SUBSET Planned : poller' = [poller EXCEPT ![p] = Waiting(S)]
      BY <2>3 DEF Records
    <3> QED
      BY <2>0, <3>1, <3>2, <3>3, WalkingPoller
  <2>4. CASE Looks
    BY <1>1, <2>4 DEF Looks
  <2> QED
    BY <1>1, <2>0, <2>1, <2>2, <2>3, <2>4, PollingSteps
<1>2. PollingInv /\ [PollingNext]_pollingVars =>
        [\A t \in Polling : tasks[t].status = "Executing" /\ tasks'[t] # tasks[t] =>
           \/ tasks'[t].status = "Cancelled"
           \/ t \in expired
           \/ \E w \in Worker : worker[w].pc = "calling" /\ worker[w].task = t
                                /\ worker[w].copy = tasks[t] /\ worker'[w].pc = "acking"
           \/ \E p \in Poller : poller[p].task = t /\ poller[p].copy = tasks[t]
                                /\ poller'[p].task = NoTask]_pollingVars
  BY <1>1
<1> QED
  BY <1>2, PollingInvariant, PTL DEF PollingSpec, CheckByHolder

\* With pollers about, too, a row in a final status is left alone.
LEMMA FinalRowKeptWithPollers ==
  ASSUME PollingInv, [PollingNext]_pollingVars,
         NEW t \in Task, tasks[t].status \in FinalStatuses
  PROVE  tasks'[t] = tasks[t]
<1>1. ~PollStep(tasks[t], tasks'[t]) /\ ~RowStep(t, tasks[t], tasks'[t])
  BY DEF PollStep, RowStep, FinalStatuses, Operation, Allows, CanPause, CanResume, CanCancel
<1> QED
  BY <1>1, PollingEvolves

\* No poller that had captured a task writes it once it is final (UpdateAsync).
THEOREM FinalStatusStaysWithPollers == PollingSpec => FinalStatusIsFinal
<1>1. PollingInv /\ [PollingNext]_pollingVars =>
        [\A t \in Task : tasks[t].status \in FinalStatuses => tasks'[t] = tasks[t]]_vars
  BY FinalRowKeptWithPollers
<1> QED
  BY <1>1, PollingInvariant, PTL DEF PollingSpec, FinalStatusIsFinal

\* A polling task dies, like any other, with its attempts used up and one letter,
\* and never by a check of the poller.
THEOREM DeadLettersExactWithPollers == PollingSpec => []DeadLetterExact
<1>1. PollingInit => DeadLetterExact
  BY MaxAttemptsAssumption DEF PollingInit, Init, AbsentRow, DeadLetterExact
<1>2. ASSUME PollingInv, DeadLetterExact, [PollingNext]_pollingVars
      PROVE  DeadLetterExact'
  <2>0. /\ TableInv /\ TypeOK /\ PollingTypeOK /\ PollersFit
        /\ tasks \in [Task -> Row] /\ \A t \in Task : RowOK(tasks[t])
    BY <1>2 DEF PollingInv, TableInv, TypeOK
  <2>1. CASE EngineStep
    <3>1. LettersFollow
      BY <2>0, <2>1, StepBuries DEF EngineStep
    <3>2. ASSUME NEW t \in Task
          PROVE  dlq'[t] = IF tasks'[t].status = "Dead" THEN 1 ELSE 0
      <4>1. tasks[t].status = "Dead" => tasks'[t] = tasks[t]
        BY <1>2, FinalRowKeptWithPollers DEF FinalStatuses
      <4> QED
        BY <1>2, <3>1, <4>1 DEF LettersFollow, DeadLetterExact
    <3>3. \A t \in Task : RowOK(tasks'[t])
      BY <1>2, PollingVersionsGrow
    <3> QED
      BY <3>2, <3>3 DEF RowOK, DeadLetterExact
  <2>2. CASE ~EngineStep
    <3>1. /\ UNCHANGED dlq
          /\ \A t \in Task : tasks'[t] = tasks[t] \/ tasks'[t].status # "Dead"
      <4>1. CASE Looks
        BY <4>1 DEF Looks
      <4>2. ASSUME NEW p \in Poller, NEW u \in Polling, Captures(p, u)
            PROVE  \A t \in Task : tasks'[t] = tasks[t] \/ tasks'[t].status # "Dead"
        <5>1. tasks'[u].status = "Executing"
          BY <1>2, <4>2, CapturedForCheck
        <5> QED
          BY <2>0, <4>2, <5>1 DEF Captures
      <4>3. ASSUME NEW p \in Poller, Records(p)
            PROVE  \A t \in Task : tasks'[t] = tasks[t] \/ tasks'[t].status # "Dead"
        <5> DEFINE new == Saved(RescheduleAfterPolling(poller[p].copy))
        <5>1. poller[p].copy \in Row
          BY <2>0, BusyPoller
        <5>2. new.status = "Scheduled"
          BY <5>1 DEF Saved, RescheduleAfterPolling, Row
        <5>3. tasks' = [tasks EXCEPT ![poller[p].task] = new]
          BY <4>3 DEF Records
        <5> HIDE DEF new
        <5> QED
          BY <2>0, <5>2, <5>3
      <4> QED
        BY <1>2, <2>0, <2>2, <4>1, <4>2, <4>3, PollingSteps DEF Looks, Captures, Records
    <3>2. ASSUME NEW t \in Task
          PROVE  tasks'[t].status = "Dead" <=> tasks[t].status = "Dead"
      BY <1>2, <3>1, FinalRowKeptWithPollers DEF FinalStatuses
    <3>3. \A t \in Task : RowOK(tasks'[t])
      BY <1>2, PollingVersionsGrow
    <3> QED
      BY <1>2, <3>1, <3>2, <3>3 DEF RowOK, DeadLetterExact
  <2> QED
    BY <2>1, <2>2
<1> QED
  BY <1>1, <1>2, PollingInvariant, PTL DEF PollingSpec
=============================================================================
