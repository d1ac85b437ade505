----------------------------- MODULE ChainContract -----------------------------
(***************************************************************************)
(* What a chain promises its sender, without tasks, events, versions or    *)
(* transactions: its steps take turns.  A step begins once, at the instant *)
(* the chain is created or another step has ended while the chain is       *)
(* active; so no two steps are under way at a time.  What has ended stays  *)
(* as it ended, and a chain that is over begins nothing.                   *)
(***************************************************************************)
EXTENDS Integers

CONSTANT StepCount

VARIABLES
  going,   \* what the chain is doing
  stage    \* how far each step is

vars == <<going, stage>>

Step  == 0..(StepCount - 1)
Ended == {"succeeded", "dead", "withdrawn"}
Stage == {"ahead", "underway"} \cup Ended
Going == {"absent", "active", "paused", "over"}

Init == going = "absent" /\ stage = [i \in Step |-> "ahead"]

\* Step 0 of a new chain.
Begin ==
  /\ going = "absent"
  /\ going' = "active"
  /\ stage' = [stage EXCEPT ![0] = "underway"]

EndedStage(i, how) == stage[i] = "underway" /\ how \in Ended \ {"withdrawn"}

\* One step ends and another one begins.
PassOn(i, k, how) ==
  /\ going = "active"
  /\ EndedStage(i, how)
  /\ stage[k] = "ahead"
  /\ stage' = [stage EXCEPT ![i] = how, ![k] = "underway"]
  /\ UNCHANGED going

\* The last thing a chain does: a step ends, and the chain with it.
Finish(i, how) ==
  /\ going = "active"
  /\ EndedStage(i, how)
  /\ stage' = [stage EXCEPT ![i] = how]
  /\ going' = "over"

\* A step ends and the chain takes no notice.
EndUnheard(i, how) ==
  /\ EndedStage(i, how)
  /\ stage' = [stage EXCEPT ![i] = how]
  /\ UNCHANGED going

\* A user withdraws a step, or pauses, resumes or cancels the chain.
Withdraw(i) ==
  /\ stage[i] = "underway"
  /\ stage' = [stage EXCEPT ![i] = "withdrawn"]
  /\ UNCHANGED going

Control ==
  /\ \/ going = "active" /\ going' \in {"paused", "over"}
     \/ going = "paused" /\ going' \in {"active", "over"}
  /\ UNCHANGED stage

Next ==
  \/ Begin
  \/ \E i \in Step, how \in {"succeeded", "dead"} :
       \/ \E k \in Step : PassOn(i, k, how)
       \/ Finish(i, how)
       \/ EndUnheard(i, how)
  \/ \E i \in Step : Withdraw(i)
  \/ Control

Spec == Init /\ [][Next]_vars
=============================================================================
