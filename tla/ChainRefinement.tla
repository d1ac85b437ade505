--------------------------- MODULE ChainRefinement ---------------------------
(* The orchestration seen as the chain of ChainContract, and its tasks as   *)
(* the jobs of TaskContract.                                                *)
EXTENDS ChainOrchestration

GoingOf(status) ==
  CASE status = "Absent" -> "absent"
    [] status = "Active" -> "active"
    [] status = "Paused" -> "paused"
    [] status \in FinalChainStatuses -> "over"

StageOf(p) ==
  CASE p = "unknown" -> "ahead"
    [] p \in {"waiting", "handedOver", "running", "suspended"} -> "underway"
    [] p = "cancelled" -> "withdrawn"
    [] p \in {"succeeded", "dead"} -> p

ChainAsPromised == INSTANCE ChainContract WITH
  going <- GoingOf(chain.status),
  stage <- [i \in Step |-> StageOf(phase[i])]

\* A dead task leaves one letter: the dead letter is written with its row.
TasksAsPromised == INSTANCE TaskContract WITH
  Job         <- Job,
  PeriodicJob <- {},
  MaxFailures <- MaxFailures,
  phase       <- phase,
  failures    <- failures,
  letters     <- [j \in Job |-> IF phase[j] = "dead" THEN 1 ELSE 0]

\* The steps of a chain take turns: whatever the workers, the heartbeat and the
\* users do to its tasks and its row, a step begins only as another one ends,
\* in one transaction, while the chain is active.
KeepsChainContract == ChainAsPromised!Spec

\* What this module assumes of single tasks, above the engine, is no more than
\* TaskContract allows them: no attempt too many, no second success.
KeepsTaskContract == TasksAsPromised!Spec
=============================================================================
