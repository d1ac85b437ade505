--------------------------- MODULE MCTaskRegistry ---------------------------
(* Instances of TaskRegistry small enough for TLC. *)
EXTENDS TaskRegistry, TLC

\* The clients and the keys are interchangeable; so are the requests, and with
\* them the rows they name.
Symmetry == Permutations(Request) \cup Permutations(Sender) \cup Permutations(Key)
=============================================================================
