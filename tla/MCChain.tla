------------------------------- MODULE MCChain -------------------------------
(* Instances of ChainOrchestration small enough for TLC. *)
EXTENDS ChainRefinement, TLC

StepOf(condition, onFailure, compensate, scheduled) ==
  [condition |-> condition, onFailure |-> onFailure,
   compensateIndex |-> compensate, scheduled |-> scheduled]

Stops         == StepOf("OnSuccess", "Stop", -1, TRUE)
StopsHere     == StepOf("OnFailure", "Stop", -1, TRUE)
Skips         == StepOf("Always", "SkipToNext", -1, TRUE)
Asks          == StepOf("IfStatusCode", "Stop", -1, TRUE)
AtOnce        == StepOf("Always", "Stop", -1, FALSE)
UndoneBy(i)   == StepOf("Always", "Compensate", i, TRUE)

Seq3(a, b, c) == [i \in 0..2 |-> CASE i = 0 -> a [] i = 1 -> b [] i = 2 -> c]
Seq2(a, b)    == [i \in 0..1 |-> CASE i = 0 -> a [] i = 1 -> b]

\* Every failure action at the first, a middle and the last step; a condition
\* that stops the chain; steps without a schedule; compensation forwards,
\* backwards, to the step itself and out of range.
MixedPlans == {
  Seq3(Stops, Skips, Skips),
  Seq3(Skips, UndoneBy(0), Stops),
  Seq3(UndoneBy(2), UndoneBy(1), Stops),
  Seq3(Skips, StopsHere, UndoneBy(7)),
  Seq3(Stops, AtOnce, Stops),
  Seq3(AtOnce, Stops, Stops)}

\* The plans that can be carried through: everything scheduled, compensation
\* forwards only, no skipping but past the last step.
SoundPlans == {
  Seq3(Stops, Stops, Stops),
  Seq3(UndoneBy(2), StopsHere, Skips),
  Seq3(Stops, UndoneBy(2), Stops)}

TwoStops    == {Seq2(Stops, Stops)}
SkipsFirst  == {Seq2(Skips, Stops)}
UndoesFirst == {Seq2(Stops, UndoneBy(0))}
FirstAsks   == {Seq2(Asks, Stops)}
FirstAtOnce == {Seq2(AtOnce, Stops)}
=============================================================================
