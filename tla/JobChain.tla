------------------------------- MODULE JobChain -------------------------------
(***************************************************************************)
(* The chain aggregate (Domain/Entities/JobChain.cs) as a row of the table *)
(* job_chains, its transitions as functions from row to row, and what the  *)
(* two domain event handlers decide about a chain they have read.  The     *)
(* task of a step carries the idempotency key chain:<id>:step:<i>, and the *)
(* key is unique: a chain has at most one task per step, so a step's index *)
(* also names its task.                                                    *)
(***************************************************************************)
EXTENDS Integers

CONSTANTS
  StepCount,    \* Steps.Length
  NoTask        \* no task id

ASSUME StepCountAssumption == StepCount \in Nat \ {0}

Step == 0..(StepCount - 1)

ASSUME NoTaskAssumption == NoTask \notin Step

-----------------------------------------------------------------------------
(* The data.                                                               *)

ChainStatus == {"Created", "Active", "Completed", "Failed", "Paused", "Cancelled"}

\* The statuses Cancel refuses.
FinalChainStatuses == {"Completed", "Failed", "Cancelled"}

TransitionCondition == {"Always", "OnSuccess", "OnFailure", "IfStatusCode", "IfBodyContains"}
FailureAction == {"Stop", "SkipToNext", "Compensate"}

\* scheduled: the step has a Schedule of its own.
ChainStep == [condition       : TransitionCondition,
              onFailure       : FailureAction,
              compensateIndex : Int,
              scheduled       : BOOLEAN]

\* "Absent" stands for a chain that has not been inserted.
Chain == [status  : ChainStatus \cup {"Absent"},
          index   : Int,                      \* CurrentStepIndex
          current : Step \cup {NoTask},       \* CurrentTaskId
          version : Nat]

AbsentChain == [status |-> "Absent", index |-> -1, current |-> NoTask, version |-> 0]

-----------------------------------------------------------------------------
(* The transitions of the aggregate.                                       *)

NewChain == [status |-> "Created", index |-> -1, current |-> NoTask, version |-> 1]

Start(chain, task) == [chain EXCEPT !.status = "Active", !.index = 0, !.current = task]

CanAdvance(chain, task) == chain.status = "Active" /\ task # NoTask

AdvanceToNextStep(chain, task) ==
  IF chain.index + 1 >= StepCount
  THEN [chain EXCEPT !.status = "Completed", !.index = @ + 1, !.current = NoTask]
  ELSE [chain EXCEPT !.index = @ + 1, !.current = task]

CanFailStep(steps, chain, task) ==
  /\ chain.status = "Active"
  /\ chain.index \in Step
  /\ steps[chain.index].onFailure = "Compensate" => task # NoTask

\* Mutant: the chain forgets its task and goes on.
StoppedInName(chain) == [chain EXCEPT !.current = NoTask]

FailedChain(chain) == [chain EXCEPT !.status = "Failed", !.current = NoTask]

\* Mutant: a skipped last step leaves the chain as it is.
SkipLastForgotten(steps, chain, task) ==
  LET step == steps[chain.index]
  IN  CASE step.onFailure = "Stop"       -> FailedChain(chain)
        [] step.onFailure = "SkipToNext" -> [chain EXCEPT !.index = @ + 1]
        [] step.onFailure = "Compensate" ->
             [chain EXCEPT !.index = step.compensateIndex, !.current = task]

\* Mutant: the step before the last cannot be skipped.
SkipOffByOne(steps, chain, task) ==
  LET step == steps[chain.index]
  IN  CASE step.onFailure = "Stop"       -> FailedChain(chain)
        [] step.onFailure = "SkipToNext" ->
             IF chain.index + 2 >= StepCount THEN FailedChain(chain)
                                             ELSE [chain EXCEPT !.index = @ + 1]
        [] step.onFailure = "Compensate" ->
             [chain EXCEPT !.index = step.compensateIndex, !.current = task]

\* SkipToNext leaves CurrentTaskId with the task that has just died.
FailCurrentStep(steps, chain, task) ==
  LET step == steps[chain.index]
  IN  CASE step.onFailure = "Stop"       -> FailedChain(chain)
        [] step.onFailure = "SkipToNext" ->
             IF chain.index + 1 >= StepCount THEN FailedChain(chain)
                                             ELSE [chain EXCEPT !.index = @ + 1]
        [] step.onFailure = "Compensate" ->
             [chain EXCEPT !.index = step.compensateIndex, !.current = task]

CanPauseChain(chain)  == chain.status = "Active"
CanResumeChain(chain) == chain.status = "Paused"
CanCancelChain(chain) == chain.status \notin FinalChainStatuses \cup {"Absent"}

PauseChain(chain)  == [chain EXCEPT !.status = "Paused"]
ResumeChain(chain) == [chain EXCEPT !.status = "Active"]
CancelChain(chain) == [chain EXCEPT !.status = "Cancelled", !.current = NoTask]

\* UPDATE job_chains SET ..., version = version + 1 WHERE id AND version = expected.
SavedChain(chain) == [chain EXCEPT !.version = @ + 1]

-----------------------------------------------------------------------------
(* What an event handler decides: nothing, an exception, or a chain to save *)
(* and a task to insert after it.                                          *)

Reaction == [verdict : {"ignore", "throw", "save"},
             chain   : Chain,
             begin   : Step \cup {NoTask}]

Ignored(chain)      == [verdict |-> "ignore", chain |-> chain, begin |-> NoTask]
Thrown(chain)       == [verdict |-> "throw",  chain |-> chain, begin |-> NoTask]
Saving(chain, task) == [verdict |-> "save",   chain |-> chain, begin |-> task]

\* A step without a Schedule is requested with the offset "0s", which
\* Schedule.FromOffset refuses; no task is asked for with NoTask.
CanCreateTaskForStep(steps, i) == i \in Step => steps[i].scheduled

Advances(step) == step.condition \in {"Always", "OnSuccess"}

\* Both handlers act on the current task of an active chain only.
Concerns(chain, task) == chain.status = "Active" /\ chain.current = task

\* ChainStepCompletionHandler, for the task of step done.
OnTaskCompleted(steps, chain, done) ==
  LET next == chain.index + 1
      task == IF next \in Step THEN next ELSE NoTask
  IN  IF ~Concerns(chain, done)
        THEN Ignored(chain)
      ELSE IF ~Advances(steps[chain.index])
        THEN Saving(CancelChain(chain), NoTask)
      ELSE IF CanCreateTaskForStep(steps, task) /\ CanAdvance(chain, task)
        THEN Saving(AdvanceToNextStep(chain, task), task)
      ELSE Thrown(chain)

\* The step a failure makes the orchestrator create a task for.
StepAfterFailure(steps, chain) ==
  LET step == steps[chain.index]
      wanted == CASE step.onFailure = "SkipToNext" -> chain.index + 1
                  [] step.onFailure = "Compensate" -> step.compensateIndex
                  [] step.onFailure = "Stop"       -> StepCount
  IN  IF wanted \in Step THEN wanted ELSE NoTask

\* ChainStepFailureHandler, for the task of step dead.
OnTaskMovedToDlq(steps, chain, dead) ==
  LET task == StepAfterFailure(steps, chain)
  IN  IF ~Concerns(chain, dead)
        THEN Ignored(chain)
      ELSE IF CanCreateTaskForStep(steps, task) /\ CanFailStep(steps, chain, task)
        THEN Saving(FailCurrentStep(steps, chain, task), task)
      ELSE Thrown(chain)
=============================================================================
