------------------------ MODULE TaskRefinementProofs ------------------------
(***************************************************************************)
(* TaskEngine implements TaskContract, for any number of tasks, workers,   *)
(* relays and clients: every update the invariant of TaskEngineProofs      *)
(* allows a row (RowStep), with the dead letter it leaves (LettersFollow), *)
(* is one step of the job in the contract.                                 *)
(***************************************************************************)
EXTENDS TaskRefinement, TaskEngineProofs

\* The images of the statuses.
LEMMA PhaseOfStatus ==
  /\ PhaseOf["Absent"] = "unknown" /\ PhaseOf["Scheduled"] = "waiting"
  /\ PhaseOf["Queued"] = "handedOver" /\ PhaseOf["Executing"] = "running"
  /\ PhaseOf["Paused"] = "suspended" /\ PhaseOf["Completed"] = "succeeded"
  /\ PhaseOf["Dead"] = "dead" /\ PhaseOf["Cancelled"] = "cancelled"
BY DEF PhaseOf, StatusTask

\* A row in the status of a persisted row has an image.
LEMMA PhaseOfRow ==
  ASSUME NEW row \in Row, RowOK(row)
  PROVE  PhaseOf[row.status] \in Contract!Phase
<1>1. row.status \in StatusTask \ {"Created", "Failed"}
  BY DEF RowOK, Row
<1> QED
  BY <1>1, PhaseOfStatus DEF StatusTask, Contract!Phase, Contract!Ended

\* One transition of the aggregate, in terms of status and attempts.
Transition(t, old, new) ==
  \/ old.status = "Absent" /\ new.status = "Scheduled" /\ new.attempt = old.attempt
  \/ old.status = "Scheduled" /\ new.status = "Queued" /\ new.attempt = old.attempt
  \/ old.status = "Queued" /\ new.status = "Executing" /\ new.attempt = old.attempt
  \/ /\ old.status = "Executing" /\ new.attempt = old.attempt
     /\ new.status = IF t \in Periodic THEN "Scheduled" ELSE "Completed"
  \/ /\ old.status = "Executing" /\ new.status = "Scheduled"
     /\ new.attempt = old.attempt + 1 /\ new.attempt < MaxAttempts
  \/ /\ old.status = "Executing" /\ new.status = "Dead"
     /\ new.attempt = old.attempt + 1 /\ new.attempt = MaxAttempts
  \/ old.status = "Scheduled" /\ new.status = "Paused" /\ new.attempt = old.attempt
  \/ old.status = "Paused" /\ new.status = "Scheduled" /\ new.attempt = old.attempt
  \/ /\ old.status \notin FinalStatuses \cup {"Absent"}
     /\ new.status = "Cancelled" /\ new.attempt = old.attempt

LEMMA RowStepTransition ==
  ASSUME NEW t \in Task, NEW old \in Row, NEW new,
         RowOK(old), RowStep(t, old, new)
  PROVE  Transition(t, old, new)
<1>0. old.attempt \in Nat /\ MaxAttempts \in Nat \ {0}
  BY MaxAttemptsAssumption DEF Row
<1>1. CASE old.status = "Absent" /\ new = BuildTask
  <2>1. BuildTask.status = "Scheduled" /\ BuildTask.attempt = 0
    BY DEF BuildTask, ScheduleTask, NewTask
  <2>2. old.attempt = 0
    BY <1>1 DEF RowOK, AbsentRow
  <2> QED
    BY <1>1, <2>1, <2>2 DEF Transition
<1>2. CASE old.status = "Scheduled" /\ new = Saved(Enqueue(old))
  <2>1. Saved(Enqueue(old)).status = "Queued" /\ Saved(Enqueue(old)).attempt = old.attempt
    BY DEF Saved, Enqueue, Row
  <2> QED
    BY <1>2, <2>1 DEF Transition
<1>3. CASE old.status = "Queued" /\ new = TryAcquireQueuedTask(old)
  <2>1. /\ TryAcquireQueuedTask(old).status = "Executing"
        /\ TryAcquireQueuedTask(old).attempt = old.attempt
    BY DEF Saved, TryAcquireQueuedTask, Row
  <2> QED
    BY <1>3, <2>1 DEF Transition
<1>4. CASE old.status = "Executing" /\ new = Saved(Finished(t, old))
  <2>1. /\ Saved(Reschedule(old)).status = "Scheduled"
        /\ Saved(Reschedule(old)).attempt = old.attempt
    BY DEF Saved, Reschedule, Row
  <2>2. /\ Saved(CompleteSuccessfully(old)).status = "Completed"
        /\ Saved(CompleteSuccessfully(old)).attempt = old.attempt
    BY DEF Saved, CompleteSuccessfully, Row
  <2> QED
    BY <1>4, <2>1, <2>2 DEF Transition, Finished
<1>5. CASE old.status = "Executing" /\ new = Saved(FailAttempt(old))
  <2> DEFINE f == FailAttempt(old)
  <2>1. f \in Row
    BY FailAttemptFields
  <2>2. new.status = f.status /\ new.attempt = f.attempt
    BY <1>5, <2>1 DEF Saved, Row
  <2>3. /\ f.attempt = old.attempt + 1
        /\ old.attempt + 1 >= MaxAttempts => f.status = "Dead"
        /\ old.attempt + 1 < MaxAttempts => f.status = "Scheduled"
    BY FailAttemptFields
  <2> HIDE DEF f
  <2>4. old.attempt + 1 <= MaxAttempts
    BY <1>0, <1>5 DEF RowOK
  <2> QED
    BY <1>0, <1>5, <2>2, <2>3, <2>4 DEF Transition
<1>6. ASSUME NEW op \in Operation, Allows(op, old), new = Saved(Apply(op, old))
      PROVE  Transition(t, old, new)
  <2>1. /\ Saved(Pause(old)).status = "Paused" /\ Saved(Pause(old)).attempt = old.attempt
        /\ Saved(Resume(old)).status = "Scheduled" /\ Saved(Resume(old)).attempt = old.attempt
        /\ Saved(Cancel(old)).status = "Cancelled" /\ Saved(Cancel(old)).attempt = old.attempt
    BY DEF Saved, Pause, Resume, Cancel, Row
  <2>2. CASE op = "Pause"
    BY <1>6, <2>1, <2>2 DEF Transition, Allows, Apply, CanPause
  <2>3. CASE op = "Resume"
    BY <1>6, <2>1, <2>3 DEF Transition, Allows, Apply, CanResume
  <2>4. CASE op = "Cancel"
    BY <1>6, <2>1, <2>4 DEF Transition, Allows, Apply, CanCancel
  <2> QED
    BY <2>2, <2>3, <2>4 DEF Operation
<1> QED
  BY <1>1, <1>2, <1>3, <1>4, <1>5, <1>6 DEF RowStep

-----------------------------------------------------------------------------

\* The initial states of the engine are initial states of the contract.
LEMMA ContractInit ==
  ASSUME Init
  PROVE  Contract!Init
BY PhaseOfStatus DEF Init, AbsentRow, Contract!Init

\* A step of the engine is a step, or a rest, of every job.
LEMMA ContractStep ==
  ASSUME TableInv, [Next]_vars, NEW t \in Task
  PROVE  Contract!Step(t)
<1>1. /\ tasks[t] \in Row /\ tasks'[t] \in Row /\ RowOK(tasks[t])
      /\ dlq[t] \in Nat
      /\ tasks'[t] = tasks[t] \/ RowStep(t, tasks[t], tasks'[t])
  BY StepEvolves DEF TableInv, TypeOK, RowsEvolve
<1>2. dlq'[t] = IF tasks[t].status # "Dead" /\ tasks'[t].status = "Dead"
                  THEN dlq[t] + 1 ELSE dlq[t]
  BY StepBuries DEF LettersFollow
<1> USE DEF Contract!Quiet, Contract!Move, Contract!Ended
<1>3. CASE tasks'[t] = tasks[t]
  BY <1>2, <1>3 DEF Contract!Step, Contract!Rest
<1>4. ASSUME tasks[t].status # "Dead", tasks'[t].status # "Dead",
             tasks'[t].attempt = tasks[t].attempt
      PROVE  Contract!Quiet(t)
  BY <1>2, <1>4
<1>5. CASE Transition(t, tasks[t], tasks'[t])
  <2> DEFINE old == tasks[t]
             new == tasks'[t]
  <2>1. CASE old.status = "Absent" /\ new.status = "Scheduled" /\ new.attempt = old.attempt
    BY <1>4, <2>1, PhaseOfStatus DEF Contract!Step, Contract!Submit
  <2>2. CASE old.status = "Scheduled" /\ new.status = "Queued" /\ new.attempt = old.attempt
    BY <1>4, <2>2, PhaseOfStatus DEF Contract!Step, Contract!HandOver
  <2>3. CASE old.status = "Queued" /\ new.status = "Executing" /\ new.attempt = old.attempt
    BY <1>4, <2>3, PhaseOfStatus DEF Contract!Step, Contract!Start
  <2>4. CASE /\ old.status = "Executing" /\ new.attempt = old.attempt
             /\ new.status = IF t \in Periodic THEN "Scheduled" ELSE "Completed"
    BY <1>4, <2>4, PhaseOfStatus DEF Contract!Step, Contract!Succeed
  <2>5. CASE /\ old.status = "Executing" /\ new.status = "Scheduled"
             /\ new.attempt = old.attempt + 1 /\ new.attempt < MaxAttempts
    BY <1>2, <2>5, PhaseOfStatus DEF Contract!Step, Contract!Retry
  <2>6. CASE /\ old.status = "Executing" /\ new.status = "Dead"
             /\ new.attempt = old.attempt + 1 /\ new.attempt = MaxAttempts
    BY <1>2, <2>6, PhaseOfStatus DEF Contract!Step, Contract!Bury
  <2>7. CASE old.status = "Scheduled" /\ new.status = "Paused" /\ new.attempt = old.attempt
    BY <1>4, <2>7, PhaseOfStatus DEF Contract!Step, Contract!Suspend
  <2>8. CASE old.status = "Paused" /\ new.status = "Scheduled" /\ new.attempt = old.attempt
    BY <1>4, <2>8, PhaseOfStatus DEF Contract!Step, Contract!Continue
  <2>9. CASE /\ old.status \notin FinalStatuses \cup {"Absent"}
             /\ new.status = "Cancelled" /\ new.attempt = old.attempt
    <3>1. old.status \in {"Scheduled", "Queued", "Executing", "Paused"}
      BY <1>1, <2>9 DEF RowOK, Row, StatusTask, FinalStatuses
    <3> QED
      BY <1>4, <2>9, <3>1, PhaseOfStatus DEF Contract!Step, Contract!Withdraw
  <2> QED
    BY <1>5, <2>1, <2>2, <2>3, <2>4, <2>5, <2>6, <2>7, <2>8, <2>9 DEF Transition
<1> QED
  BY <1>1, <1>3, <1>5, RowStepTransition

LEMMA ContractNext ==
  ASSUME TableInv, [Next]_vars
  PROVE  Contract!Next
<1>1. TableInv'
  BY TableInvKept
<1>2. /\ tasks' \in [Task -> Row] /\ dlq' \in [Task -> Nat]
      /\ \A t \in Task : RowOK(tasks'[t])
  BY <1>1, VersionsGrow DEF TableInv, TypeOK
<1>3. \A t \in Task : PhaseOf[tasks'[t].status] \in Contract!Phase
  BY <1>2, PhaseOfRow
<1>4. \A t \in Task : tasks'[t].attempt \in Nat
  BY <1>2 DEF Row
<1> QED
  BY <1>2, <1>3, <1>4, ContractStep DEF Contract!Next

\* The engine, with its batches, retries, crashes, stale workers and users,
\* keeps the contract, whatever the number of each.
THEOREM Implements == Spec => KeepsContract
<1>1. Init => Contract!Init
  BY ContractInit
<1>2. TableInv /\ [Next]_vars => [Contract!Next]_(Contract!vars)
  BY ContractNext
<1> QED
  BY <1>1, <1>2, TableInvariant, PTL DEF Spec, KeepsContract, Contract!Spec
=============================================================================
