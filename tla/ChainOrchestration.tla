-------------------------- MODULE ChainOrchestration --------------------------
(***************************************************************************)
(* A job chain at work: the chain's row, the tasks of its steps, and the   *)
(* transactions that end a task and, inside the same transaction, call the *)
(* event handlers that move the chain on.  A task is followed the way      *)
(* TaskContract sees it (the engine of TaskEngine keeps that contract);    *)
(* every running task has a worker of its own until the worker is lost.    *)
(*                                                                         *)
(* A transaction that ends a task writes the task's row first, and so      *)
(* holds it until it ends; it then reads the chain without a lock and      *)
(* writes it under the version it read.  Between that read and the commit  *)
(* other transactions take their steps.  Everything after the write of the *)
(* chain happens under its row lock and is one step with the commit.       *)
(***************************************************************************)
EXTENDS JobChain, FiniteSets

CONSTANTS
  Plans,         \* the sequences of steps a sender may ask for
  Bystander,     \* tasks that belong to no chain
  Failing,       \* the tasks whose requests may fail
  MaxFailures,   \* RetryPolicy.MaxAttempts
  KeysDeferred,  \* are foreign keys checked at commit (TRUE) or at each statement?
  ChainUser,     \* the requests on the chain the API handles at a time
  TaskUser,      \* do users also pause, resume and cancel single tasks?
  MaxVersion,    \* bound: no user changes the chain from this version on
  MaxFaults      \* bound: workers and transactions lost in a behaviour

Job == Step \cup Bystander

ASSUME ChainAssumption ==
  /\ Plans \subseteq [Step -> ChainStep]
  /\ Bystander \cap Step = {}
  /\ NoTask \notin Bystander
  /\ Failing \subseteq Job
  /\ MaxFailures \in Nat \ {0}
  /\ KeysDeferred \in BOOLEAN
  /\ TaskUser \in BOOLEAN
  /\ MaxVersion \in Nat
  /\ MaxFaults \in Nat

VARIABLES
  plan,       \* the steps of the chain
  chain,      \* the chain's row
  phase,      \* where each task is
  failures,   \* how many of its attempts have failed
  overdue,    \* the running tasks whose LockedUntil <= now
  calling,    \* the running tasks whose worker can still record a result
  recording,  \* the workers' open transactions, by task
  sweep,      \* the heartbeat's open transaction
  user,       \* what each API request has loaded of the chain
  rejected,   \* has a request to create the chain been answered with an error?
  faults      \* faults so far

jobs == <<phase, failures, overdue, calling>>
vars == <<plan, chain, jobs, recording, sweep, user, rejected, faults>>

Phase == {"unknown", "waiting", "handedOver", "running", "suspended",
          "succeeded", "dead", "cancelled"}
Over  == {"succeeded", "dead", "cancelled"}

\* An open transaction and the chain its event handlers have read.
NoRecording == [outcome |-> "none", seen |-> AbsentChain]
Recording   == {NoRecording} \cup [outcome : {"success", "death"}, seen : Chain]
NoSweep     == [jobs |-> {}, seen |-> AbsentChain]
Sweep       == [jobs : SUBSET Job, seen : Chain]

ChainOperation == {"Pause", "Resume", "Cancel"}
IdleUser       == [op |-> "none", seen |-> AbsentChain]
UserState      == {IdleUser} \cup [op : ChainOperation, seen : Chain]

TypeOK ==
  /\ plan \in Plans
  /\ chain \in Chain
  /\ phase \in [Job -> Phase]
  /\ failures \in [Job -> 0..MaxFailures]
  /\ overdue \subseteq Job
  /\ calling \subseteq Job
  /\ recording \in [Job -> Recording]
  /\ sweep \in Sweep
  /\ user \in [ChainUser -> UserState]
  /\ rejected \in BOOLEAN
  /\ faults \in 0..MaxFaults

Init ==
  /\ plan \in Plans
  /\ chain = AbsentChain
  /\ phase = [j \in Job |-> "unknown"]
  /\ failures = [j \in Job |-> 0]
  /\ overdue = {}
  /\ calling = {}
  /\ recording = [j \in Job |-> NoRecording]
  /\ sweep = NoSweep
  /\ user = [u \in ChainUser |-> IdleUser]
  /\ rejected = FALSE
  /\ faults = 0

Fault == /\ faults < MaxFaults
         /\ faults' = faults + 1

-----------------------------------------------------------------------------
(* The constraints of the database.                                        *)

\* fk_job_chains_current_task: the chain's current task exists.  It is checked
\* when the chain is written, before the handlers insert the task.
ForeignKeyHolds(row) ==
  row.current \in Step /\ ~KeysDeferred => phase[row.current] # "unknown"

\* ux_tasks_idempotency_key: a step has one task.
KeyIsFree(i) == i \in Step => phase[i] = "unknown"

\* The phases once the tasks of S have moved to phase p and the task of step
\* begin, if any, has been inserted.
Moved(S, p, begin) ==
  [j \in Job |-> IF j \in S THEN p[j] ELSE IF j = begin THEN "waiting" ELSE phase[j]]

-----------------------------------------------------------------------------
(* Creation.                                                               *)

ChainIsAccepted ==
  /\ CanCreateTaskForStep(plan, 0)
  /\ ForeignKeyHolds(Start(NewChain, 0))
  /\ KeyIsFree(0)

CreateJobChain ==
  /\ chain.status = "Absent"
  /\ ChainIsAccepted
  /\ chain' = Start(NewChain, 0)
  /\ phase' = [phase EXCEPT ![0] = "waiting"]
  /\ UNCHANGED <<plan, failures, overdue, calling, recording, sweep, user, rejected, faults>>

\* An exception of the factory or of the database: nothing is stored.
RejectJobChain ==
  /\ chain.status = "Absent"
  /\ ~ChainIsAccepted
  /\ ~rejected
  /\ rejected' = TRUE
  /\ UNCHANGED <<plan, chain, jobs, recording, sweep, user, faults>>

CreateBystander(j) ==
  /\ phase[j] = "unknown"
  /\ phase' = [phase EXCEPT ![j] = "waiting"]
  /\ UNCHANGED <<plan, chain, failures, overdue, calling, recording, sweep, user, rejected, faults>>

-----------------------------------------------------------------------------
(* A task on its way to a result.                                          *)

Locked(j) == recording[j] # NoRecording \/ j \in sweep.jobs

\* Scheduled to Queued: the scheduler, once the date is reached.
HandOver(j) ==
  /\ phase[j] = "waiting"
  /\ phase' = [phase EXCEPT ![j] = "handedOver"]
  /\ UNCHANGED <<plan, chain, failures, overdue, calling, recording, sweep, user, rejected, faults>>

\* Queued to Executing: the capture.
Capture(j) ==
  /\ phase[j] = "handedOver"
  /\ phase' = [phase EXCEPT ![j] = "running"]
  /\ calling' = calling \cup {j}
  /\ UNCHANGED <<plan, chain, failures, overdue, recording, sweep, user, rejected, faults>>

LockExpires(j) ==
  /\ phase[j] = "running"
  /\ j \notin overdue
  /\ overdue' = overdue \cup {j}
  /\ UNCHANGED <<plan, chain, phase, failures, calling, recording, sweep, user, rejected, faults>>

WorkerLost(j) ==
  /\ j \in calling
  /\ recording[j] = NoRecording
  /\ Fault
  /\ calling' = calling \ {j}
  /\ UNCHANGED <<plan, chain, phase, failures, overdue, recording, sweep, user, rejected>>

-----------------------------------------------------------------------------
(* The worker's second transaction: it writes the task, dispatches the     *)
(* task's events, and commits.                                             *)

\* Mutant: one attempt too many.
LastAttemptLate(j) == failures[j] >= MaxFailures

LastAttempt(j) == failures[j] + 1 >= MaxFailures

CanRecord(j) == j \in calling /\ ~Locked(j)

BeginRecording(j, outcome) ==
  /\ recording' = [recording EXCEPT ![j] = [outcome |-> outcome, seen |-> chain]]
  /\ UNCHANGED <<plan, chain, jobs, sweep, user, rejected, faults>>

BeginSuccess(j) == CanRecord(j) /\ BeginRecording(j, "success")

BeginDeath(j) ==
  /\ CanRecord(j)
  /\ j \in Failing
  /\ LastAttempt(j)
  /\ BeginRecording(j, "death")

\* No event of an intermediate failure concerns the chain.
RecordRetry(j) ==
  /\ CanRecord(j)
  /\ j \in Failing
  /\ ~LastAttempt(j)
  /\ phase' = [phase EXCEPT ![j] = "waiting"]
  /\ failures' = [failures EXCEPT ![j] = @ + 1]
  /\ overdue' = overdue \ {j}
  /\ calling' = calling \ {j}
  /\ UNCHANGED <<plan, chain, recording, sweep, user, rejected, faults>>

\* What the handlers do in the transaction of task j; a task without ChainId
\* is ignored.
ReactionTo(j, outcome, seen) ==
  IF j \notin Step THEN Ignored(seen)
  ELSE IF outcome = "success" THEN OnTaskCompleted(plan, seen, j)
  ELSE OnTaskMovedToDlq(plan, seen, j)

\* Mutant: the chain is saved whatever its version has become.
PassesAnyVersion(reaction, seen) ==
  \/ reaction.verdict = "ignore"
  \/ /\ reaction.verdict = "save"
     /\ ForeignKeyHolds(reaction.chain)
     /\ KeyIsFree(reaction.begin)

\* The writes of the handlers go through.
Passes(reaction, seen) ==
  \/ reaction.verdict = "ignore"
  \/ /\ reaction.verdict = "save"
     /\ seen.version = chain.version
     /\ ForeignKeyHolds(reaction.chain)
     /\ KeyIsFree(reaction.begin)

Saved(reaction) == IF reaction.verdict = "save" THEN SavedChain(reaction.chain) ELSE chain

RecordReaction(j) == ReactionTo(j, recording[j].outcome, recording[j].seen)

\* Mutant: the task is recorded although its event could not be handled.
CommitWithoutChain(j) ==
  LET reaction == RecordReaction(j)
      success  == recording[j].outcome = "success"
      begun    == IF Passes(reaction, recording[j].seen) THEN reaction.begin ELSE NoTask
  IN  /\ recording[j] # NoRecording
      /\ phase' = Moved({j}, [i \in {j} |-> IF success THEN "succeeded" ELSE "dead"], begun)
      /\ failures' = [failures EXCEPT ![j] = IF success THEN @ ELSE @ + 1]
      /\ chain' = IF Passes(reaction, recording[j].seen) THEN Saved(reaction) ELSE chain
      /\ overdue' = overdue \ {j}
      /\ calling' = calling \ {j}
      /\ recording' = [recording EXCEPT ![j] = NoRecording]
      /\ UNCHANGED <<plan, sweep, user, rejected, faults>>

CommitRecording(j) ==
  LET reaction == RecordReaction(j)
      success  == recording[j].outcome = "success"
  IN  /\ recording[j] # NoRecording
      /\ Passes(reaction, recording[j].seen)
      /\ phase' = Moved({j}, [i \in {j} |-> IF success THEN "succeeded" ELSE "dead"],
                        reaction.begin)
      /\ failures' = [failures EXCEPT ![j] = IF success THEN @ ELSE @ + 1]
      /\ chain' = Saved(reaction)
      /\ overdue' = overdue \ {j}
      /\ calling' = calling \ {j}
      /\ recording' = [recording EXCEPT ![j] = NoRecording]
      /\ UNCHANGED <<plan, sweep, user, rejected, faults>>

\* The transaction is rolled back and the message returned to the queue; when it
\* comes again the task is Executing and the delivery is skipped: the result of
\* the request is lost, and only the heartbeat finds the task.
DropRecording(j) ==
  /\ recording' = [recording EXCEPT ![j] = NoRecording]
  /\ calling' = calling \ {j}
  /\ UNCHANGED <<plan, chain, phase, failures, overdue, sweep, user, rejected>>

\* Mutant: the next task is inserted outside the transaction.
RollBackKeepingTask(j) ==
  /\ recording[j] # NoRecording
  /\ ~Passes(RecordReaction(j), recording[j].seen)
  /\ phase' = IF KeyIsFree(RecordReaction(j).begin) THEN Moved({}, <<>>, RecordReaction(j).begin)
                                                    ELSE phase
  /\ recording' = [recording EXCEPT ![j] = NoRecording]
  /\ calling' = calling \ {j}
  /\ UNCHANGED <<plan, chain, failures, overdue, sweep, user, rejected, faults>>

RollBackRecording(j) ==
  /\ recording[j] # NoRecording
  /\ ~Passes(RecordReaction(j), recording[j].seen)
  /\ DropRecording(j)
  /\ UNCHANGED faults

LoseRecording(j) ==
  /\ recording[j] # NoRecording
  /\ Fault
  /\ DropRecording(j)

-----------------------------------------------------------------------------
(* The heartbeat: one transaction over all the stale tasks no other        *)
(* transaction holds.                                                      *)

\* Mutant: a task with no attempt left is not looked for.
StaleWithRetries == {j \in overdue : phase[j] = "running" /\ ~Locked(j) /\ ~LastAttempt(j)}

Stale == {j \in overdue : phase[j] = "running" /\ ~Locked(j)}

BeginSweep ==
  /\ sweep = NoSweep
  /\ Stale # {}
  /\ sweep' = [jobs |-> Stale, seen |-> chain]
  /\ UNCHANGED <<plan, chain, jobs, recording, user, rejected, faults>>

\* Of the tasks that die in the sweep the chain reacts to its current one.
SweepReaction ==
  LET task == sweep.seen.current
  IN  IF task \in sweep.jobs /\ LastAttempt(task)
      THEN ReactionTo(task, "death", sweep.seen)
      ELSE Ignored(sweep.seen)

CommitSweep ==
  LET S == sweep.jobs
  IN  /\ S # {}
      /\ Passes(SweepReaction, sweep.seen)
      /\ phase' = Moved(S, [j \in S |-> IF LastAttempt(j) THEN "dead" ELSE "waiting"],
                        SweepReaction.begin)
      /\ failures' = [j \in Job |-> IF j \in S THEN failures[j] + 1 ELSE failures[j]]
      /\ chain' = Saved(SweepReaction)
      /\ overdue' = overdue \ S
      /\ calling' = calling \ S
      /\ sweep' = NoSweep
      /\ UNCHANGED <<plan, recording, user, rejected, faults>>

\* One task's handler throws and no task of the batch is recovered.
RollBackSweep ==
  /\ sweep.jobs # {}
  /\ ~Passes(SweepReaction, sweep.seen)
  /\ sweep' = NoSweep
  /\ UNCHANGED <<plan, chain, jobs, recording, user, rejected, faults>>

LoseSweep ==
  /\ sweep.jobs # {}
  /\ Fault
  /\ sweep' = NoSweep
  /\ UNCHANGED <<plan, chain, jobs, recording, user, rejected>>

-----------------------------------------------------------------------------
(* Users.  The operations on a chain load it and save it under the version *)
(* they loaded, and touch none of its tasks; those on a task do not look   *)
(* at its chain, and their events have no handler that does.               *)

AllowsChain(op, row) == CASE op = "Pause"  -> CanPauseChain(row)
                          [] op = "Resume" -> CanResumeChain(row)
                          [] op = "Cancel" -> CanCancelChain(row)

ApplyChain(op, row) == CASE op = "Pause"  -> PauseChain(row)
                         [] op = "Resume" -> ResumeChain(row)
                         [] op = "Cancel" -> CancelChain(row)

LoadChain(u, op) ==
  /\ user[u].op = "none"
  /\ chain.version < MaxVersion
  /\ AllowsChain(op, chain)
  /\ user' = [user EXCEPT ![u] = [op |-> op, seen |-> chain]]
  /\ UNCHANGED <<plan, chain, jobs, recording, sweep, rejected, faults>>

SaveChain(u) ==
  LET row == ApplyChain(user[u].op, user[u].seen)
  IN  /\ user[u].op # "none"
      /\ user[u].seen.version = chain.version
      /\ ForeignKeyHolds(row)
      /\ chain' = SavedChain(row)
      /\ user' = [user EXCEPT ![u] = IdleUser]
      /\ UNCHANGED <<plan, jobs, recording, sweep, rejected, faults>>

SaveChainConflicts(u) ==
  /\ user[u].op # "none"
  /\ user[u].seen.version # chain.version
  /\ user' = [user EXCEPT ![u] = IdleUser]
  /\ UNCHANGED <<plan, chain, jobs, recording, sweep, rejected, faults>>

\* A user's update of a task waits for its row, and then fails on its version.
UserMoves(j, from, to) ==
  /\ TaskUser
  /\ phase[j] \in from
  /\ ~Locked(j)
  /\ phase' = [phase EXCEPT ![j] = to]
  /\ overdue' = overdue \ {j}
  /\ calling' = calling \ {j}
  /\ UNCHANGED <<plan, chain, failures, recording, sweep, user, rejected, faults>>

\* Mutant: a task is paused that is already on its way to a worker.
PauseQueuedTask(j) == UserMoves(j, {"waiting", "handedOver"}, "suspended")

PauseTask(j)  == UserMoves(j, {"waiting"}, "suspended")
ResumeTask(j) == UserMoves(j, {"suspended"}, "waiting")
CancelTask(j) == UserMoves(j, Phase \ (Over \cup {"unknown"}), "cancelled")

-----------------------------------------------------------------------------
(* The specification.                                                      *)

JobStep(j) ==
  \/ HandOver(j) \/ Capture(j) \/ LockExpires(j) \/ WorkerLost(j)
  \/ BeginSuccess(j) \/ BeginDeath(j) \/ RecordRetry(j)
  \/ CommitRecording(j) \/ RollBackRecording(j) \/ LoseRecording(j)
  \/ PauseTask(j) \/ ResumeTask(j) \/ CancelTask(j)

Heartbeat == BeginSweep \/ CommitSweep \/ RollBackSweep \/ LoseSweep

UserStep(u) ==
  \/ \E op \in ChainOperation : LoadChain(u, op)
  \/ SaveChain(u)
  \/ SaveChainConflicts(u)

Next ==
  \/ CreateJobChain
  \/ RejectJobChain
  \/ \E j \in Bystander : CreateBystander(j)
  \/ \E j \in Job : JobStep(j)
  \/ Heartbeat
  \/ \E u \in ChainUser : UserStep(u)

Spec == Init /\ [][Next]_vars

\* Tasks are handed over and captured, requests end (if only by their timeout),
\* locks expire, the heartbeat ticks, and what a user has started ends.  A
\* worker that finds its row locked waits, and the lock's queue lets it through
\* in the end (SF).  Nothing is promised of users or of faults.
Fairness ==
  /\ \A j \in Job :
       /\ WF_vars(HandOver(j))
       /\ WF_vars(Capture(j))
       /\ WF_vars(LockExpires(j))
       /\ SF_vars(BeginSuccess(j) \/ BeginDeath(j) \/ RecordRetry(j))
       /\ WF_vars(CommitRecording(j) \/ RollBackRecording(j))
  /\ WF_vars(BeginSweep)
  /\ WF_vars(CommitSweep \/ RollBackSweep)
  /\ \A u \in ChainUser : WF_vars(SaveChain(u) \/ SaveChainConflicts(u))

FairSpec == Spec /\ Fairness

-----------------------------------------------------------------------------
(* What holds of the chain and the tasks of its steps.                     *)

\* The chain's row and the rows of its tasks agree, whatever ran between the
\* read and the write of a handler: a chain that goes on points to a task that
\* exists, and it is the task of its current step -- or, after SkipToNext, the
\* dead task of the step before, while the current step's task exists as well.
\* An ended chain points to none.
ChainPointsToItsStep ==
  IF chain.status \in {"Active", "Paused"}
  THEN /\ chain.index \in Step
       /\ chain.current \in Step
       /\ phase[chain.index] # "unknown"
       /\ \/ chain.current = chain.index
          \/ /\ chain.current + 1 = chain.index
             /\ phase[chain.current] = "dead"
             /\ plan[chain.current].onFailure = "SkipToNext"
  ELSE chain.current = NoTask

\* The end of step p made the orchestrator begin step i.
Causes(p, i) ==
  \/ p + 1 = i /\ phase[p] = "succeeded" /\ Advances(plan[p])
  \/ p + 1 = i /\ phase[p] = "dead" /\ plan[p].onFailure = "SkipToNext"
  \/ /\ phase[p] = "dead"
     /\ plan[p].onFailure = "Compensate"
     /\ plan[p].compensateIndex = i

\* No step runs unless the sender's plan says so: every task of a step but the
\* first has been caused by the recorded end of a step, through rolled back
\* transactions, lost workers and users who pause, resume and cancel meanwhile.
StepsHaveCause ==
  \A i \in Step \ {0} : phase[i] # "unknown" => \E p \in Step \ {i} : Causes(p, i)

\* A chain has failed only because of a step that died for good; it is
\* cancelled by nobody but a user or a step's condition.
EndHasCause ==
  /\ chain.status = "Failed" =>
       \E i \in Step : /\ phase[i] = "dead"
                       /\ \/ plan[i].onFailure = "Stop"
                          \/ plan[i].onFailure = "SkipToNext" /\ i + 1 = StepCount
  /\ chain.status = "Cancelled" =>
       \/ ChainUser # {}
       \/ \E i \in Step : phase[i] = "succeeded" /\ ~Advances(plan[i])

\* An active chain's current step has not ended yet: the event of its end is
\* never lost, because the chain is moved on in the transaction that records it.
\* (ChainStatus.Active: the chain is active, its steps are being executed.)
ActiveChainHasLiveStep ==
  chain.status = "Active" => phase[chain.index] \notin Over

\* An active chain loses its live step in three ways only: a user cancels the step's
\* task; the chain was paused when the step ended, or when the transaction that ended it
\* read the chain, and is resumed; or the chain still points to the task of the step
\* before, after SkipToNext.  Whatever else is lost, rolled back, overtaken or taken
\* over, the end of a step is heard (ChainStepCompletionHandler, ChainStepFailureHandler,
\* in the transaction of RunExecutionCommandHandler or RunHeartbeatCommandHandler).
StallsHaveCause ==
  [][ActiveChainHasLiveStep /\ ~ActiveChainHasLiveStep' =>
       \/ phase'[chain.index] = "cancelled"
       \/ chain.status = "Paused"
       \/ recording[chain.index].seen.status = "Paused"
       \/ chain.index \in sweep.jobs /\ sweep.seen.status = "Paused"
       \/ chain.current # chain.index]_vars

-----------------------------------------------------------------------------
(* What must eventually happen.                                            *)

\* No task of a chain, and no task beside it, stays running for ever.
RunningEnds == \A j \in Job : phase[j] = "running" ~> phase[j] # "running"

\* An active chain comes to an end.
ChainEnds == chain.status = "Active" ~> chain.status \in FinalChainStatuses

-----------------------------------------------------------------------------
(* What the documentation and the tests say and the code does not do.      *)

\* CreateJobChainCommandHandler: creates the chain, the task of its first step,
\* and starts the chain.  ChainStep.Schedule: null means at once.
ValidChainAccepted == ~rejected

\* JobChain.CurrentTaskId: the id of the task created for the current step.
CurrentTaskOfCurrentStep == chain.status = "Active" => chain.current = chain.index

\* JobChain.AdvanceToNextStep: if this was the last step, the chain is completed
\* -- by the time the transaction that records the success of the last step ends.
LastStepCompletesChain ==
  [][\A i \in Step :
       /\ i + 1 = StepCount
       /\ recording[i].outcome = "success"
       /\ recording'[i] = NoRecording
       => chain'.status = "Completed"]_vars

\* TransitionCondition.IfStatusCode and IfBodyContains: go on if the answer has the status,
\* or contains the text, that is asked for -- let every successful answer be such a one.
MetConditionAdvances ==
  [][\A i \in Step :
       /\ plan[i].condition \in {"IfStatusCode", "IfBodyContains"}
       /\ phase[i] = "running" /\ phase'[i] = "succeeded"
       => chain'.status # "Cancelled"]_vars

\* RunHeartbeatCommandHandlerTests, OneTaskFails_OthersStillProcessed: one task
\* that cannot be recovered does not keep the others from being recovered.
OthersStillProcessed ==
  \A j \in Bystander : phase[j] = "running" /\ j \in overdue ~> phase[j] # "running"
=============================================================================
