------------------------------ MODULE MCPolling ------------------------------
(* Instances of PollingEngine small enough for TLC. *)
EXTENDS PollingEngine, TLC

CONSTANTS Low, High, Bare, Garbled

\* Two answers with a number in the field, one without the field, one that is no JSON.
Fields == [v \in Value |-> CASE v = Low -> 1 [] v = High -> 2 [] OTHER -> NoField]

\* The pollers and the workers are interchangeable.
Symmetry == Permutations(Poller) \cup Permutations(Worker)
=============================================================================
