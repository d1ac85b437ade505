---------------------------- MODULE TaskContract ----------------------------
(***************************************************************************)
(* What the scheduler promises the sender of a task, and nothing about how *)
(* it keeps the promise: no rows, versions, locks, messages or workers.    *)
(* A job runs at most MaxAttempts unsuccessful times in its whole life; a  *)
(* job that is not periodic succeeds at most once; a suspended job does    *)
(* not run; an ended job stays as it ended; and a job that has used up its *)
(* attempts leaves a dead letter in the same instant.  The engine works on *)
(* batches, so any number of jobs may take a step at the same time.        *)
(***************************************************************************)
EXTENDS Naturals

CONSTANTS Job, PeriodicJob, MaxFailures

VARIABLES
  phase,     \* where each job is
  failures,  \* how many of its runs have failed
  letters    \* how many dead letters it has left

vars == <<phase, failures, letters>>

Ended == {"succeeded", "dead", "cancelled"}
Phase == {"unknown", "waiting", "handedOver", "running", "suspended"} \cup Ended

Init == /\ phase = [j \in Job |-> "unknown"]
        /\ failures = [j \in Job |-> 0]
        /\ letters = [j \in Job |-> 0]

Move(j, from, to) == phase[j] = from /\ phase'[j] = to

Quiet(j) == failures'[j] = failures[j] /\ letters'[j] = letters[j]

Submit(j)   == Move(j, "unknown", "waiting") /\ Quiet(j)
HandOver(j) == Move(j, "waiting", "handedOver") /\ Quiet(j)
Start(j)    == Move(j, "handedOver", "running") /\ Quiet(j)
Succeed(j)  == /\ Move(j, "running", IF j \in PeriodicJob THEN "waiting" ELSE "succeeded")
               /\ Quiet(j)
Retry(j)    == /\ Move(j, "running", "waiting")
               /\ failures'[j] = failures[j] + 1
               /\ failures'[j] < MaxFailures
               /\ letters'[j] = letters[j]
Bury(j)     == /\ Move(j, "running", "dead")
               /\ failures'[j] = failures[j] + 1
               /\ failures'[j] = MaxFailures
               /\ letters'[j] = letters[j] + 1
Suspend(j)  == Move(j, "waiting", "suspended") /\ Quiet(j)
Continue(j) == Move(j, "suspended", "waiting") /\ Quiet(j)
Withdraw(j) == /\ phase[j] \notin Ended \cup {"unknown"}
               /\ phase'[j] = "cancelled"
               /\ Quiet(j)
Rest(j)     == phase'[j] = phase[j] /\ Quiet(j)

Step(j) == \/ Submit(j) \/ HandOver(j) \/ Start(j) \/ Succeed(j) \/ Retry(j)
           \/ Bury(j) \/ Suspend(j) \/ Continue(j) \/ Withdraw(j) \/ Rest(j)

Next == /\ phase' \in [Job -> Phase]
        /\ failures' \in [Job -> Nat]
        /\ letters' \in [Job -> Nat]
        /\ \A j \in Job : Step(j)

Spec == Init /\ [][Next]_vars
=============================================================================
