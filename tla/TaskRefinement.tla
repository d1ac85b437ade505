--------------------------- MODULE TaskRefinement ---------------------------
(***************************************************************************)
(* TaskEngine implements TaskContract: what a sender can see of a row is   *)
(* its status, its attempts and its dead letters.  Created and Failed have *)
(* no image, no transaction leaves a row in them.                          *)
(***************************************************************************)
EXTENDS TaskEngine

PhaseOf == [s \in StatusTask |->
  CASE s = "Absent"    -> "unknown"
    [] s = "Scheduled" -> "waiting"
    [] s = "Queued"    -> "handedOver"
    [] s = "Executing" -> "running"
    [] s = "Paused"    -> "suspended"
    [] s = "Completed" -> "succeeded"
    [] s = "Dead"      -> "dead"
    [] s = "Cancelled" -> "cancelled"
    [] OTHER           -> "transient"]

Contract == INSTANCE TaskContract WITH
  Job         <- Task,
  PeriodicJob <- Periodic,
  MaxFailures <- MaxAttempts,
  phase       <- [t \in Task |-> PhaseOf[tasks[t].status]],
  failures    <- [t \in Task |-> tasks[t].attempt],
  letters     <- dlq

\* The engine keeps the contract: every behaviour of it, seen through PhaseOf,
\* is a behaviour of the contract -- with batches, retries, crashes, stale
\* workers and users in it.
KeepsContract == Contract!Spec
=============================================================================
