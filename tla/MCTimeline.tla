----------------------------- MODULE MCTimeline -----------------------------
(* Instances of TaskTimeline small enough for TLC. *)
EXTENDS TaskTimeline, TLC

Described(type, mode, period, policy, timeout) ==
  [type |-> type, mode |-> mode, period |-> period, policy |-> policy, timeout |-> timeout]

Tries(n) == [i \in 1..n |-> 1]

SlowCall == {Described("OneTime", "offset", 1, Tries(5), 9)}
SlowPoll == {Described("Polling", "offset", 1, Tries(5), 3)}
TwoTries == {Described("OneTime", "offset", 1, Tries(2), 3)}
Cron     == {Described("Periodic", "cron", 3, Tries(5), 3)}

\* A task of each type, with a policy shorter than the default, of its length and
\* longer; requests within the default and beyond it.
Mixed == {Described("Periodic", "offset", 3, Tries(7), 3)} \cup SlowCall \cup SlowPoll \cup TwoTries

\* The workers are interchangeable.
Symmetry == Permutations(Worker)
=============================================================================
