---------------------------- MODULE MCTaskEngine ----------------------------
(* Instances of TaskEngine small enough for TLC. *)
EXTENDS TaskRefinement, TLC

\* The workers, and the relays, are interchangeable.
Symmetry == Permutations(Worker) \cup Permutations(Relay)
=============================================================================
