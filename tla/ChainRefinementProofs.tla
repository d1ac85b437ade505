------------------------ MODULE ChainRefinementProofs ------------------------
(***************************************************************************)
(* The orchestration implements ChainContract, and its tasks implement     *)
(* TaskContract, for chains of any length and plan.  What ChainProofs      *)
(* shows every step to be (Sound) is step for step what the two contracts  *)
(* allow: a turn is PassOn or Finish, a chain that takes no notice lets    *)
(* its step move, end unheard or be withdrawn.                             *)
(***************************************************************************)
EXTENDS ChainRefinement, ChainProofs

going == GoingOf(chain.status)
stage == [i \in Step |-> StageOf(phase[i])]

\* The images of the statuses and the phases.
LEMMA Images ==
  /\ GoingOf("Absent") = "absent" /\ GoingOf("Active") = "active"
  /\ GoingOf("Paused") = "paused"
  /\ \A s \in FinalChainStatuses : GoingOf(s) = "over"
  /\ StageOf("unknown") = "ahead" /\ StageOf("cancelled") = "withdrawn"
  /\ StageOf("succeeded") = "succeeded" /\ StageOf("dead") = "dead"
  /\ \A p \in Live : StageOf(p) = "underway"
BY DEF GoingOf, StageOf, FinalChainStatuses, Live

LEMMA StepAsPromised == ChainAsPromised!Step = Step
BY DEF ChainAsPromised!Step, Step

LEMMA StageAt == \A i \in Step : stage[i] = StageOf(phase[i]) /\ stage'[i] = StageOf(phase'[i])
BY DEF stage

LEMMA StageOfRest ==
  ASSUME NEW S, StepsRestBut(S)
  PROVE  \A i \in Step \ S : stage'[i] = stage[i]
BY StageAt DEF StepsRestBut

-----------------------------------------------------------------------------
(* The chain.                                                              *)

LEMMA CreatesBegins ==
  ASSUME Creates
  PROVE  ChainAsPromised!Begin
<1>1. going = "absent" /\ going' = "active"
  BY Images DEF Creates, going
<1>2. 0 \in Step /\ stage'[0] = "underway" /\ \A i \in Step \ {0} : stage'[i] = stage[i]
  BY Images, JobFacts, StageAt, StageOfRest DEF Creates, Live
<1>3. stage' = [stage EXCEPT ![0] = "underway"]
  BY <1>2 DEF stage
<1> QED
  BY <1>1, <1>3 DEF ChainAsPromised!Begin, going, stage

LEMMA RestsStutters ==
  ASSUME chain'.status = chain.status, \A i \in Step : stage'[i] = stage[i]
  PROVE  UNCHANGED ChainAsPromised!vars
<1>1. stage' = stage
  BY DEF stage
<1>2. going' = going
  BY DEF going
<1> QED
  BY <1>1, <1>2 DEF ChainAsPromised!vars, going, stage

LEMMA ControlsIsControl ==
  ASSUME Controls
  PROVE  ChainAsPromised!Control
<1>1. stage' = stage
  BY StageOfRest DEF Controls, stage
<1>2. \/ going = "active" /\ going' \in {"paused", "over"}
      \/ going = "paused" /\ going' \in {"active", "over"}
  BY Images DEF Controls, going, FinalChainStatuses
<1> QED
  BY <1>1, <1>2 DEF ChainAsPromised!Control, going, stage

\* A chain that takes no notice lets a step move, end unheard or be withdrawn.
LEMMA NoNoticeAllowed ==
  ASSUME TakesNoNotice, \A i \in Job : TaskMoves(i)
  PROVE  [ChainAsPromised!Next]_(ChainAsPromised!vars)
<1>0. chain' = chain /\ going' = going
  BY DEF TakesNoNotice, going
<1>1. CASE StepsRestBut({})
  BY <1>0, <1>1, StageOfRest, RestsStutters
<1>2. ASSUME NEW i \in Step, phase[i] \in Live, StepsRestBut({i})
      PROVE  [ChainAsPromised!Next]_(ChainAsPromised!vars)
  <2>1. /\ stage[i] = "underway"
        /\ stage' = [stage EXCEPT ![i] = stage'[i]]
        /\ stage'[i] = StageOf(phase'[i])
    <3>1. stage[i] = "underway" /\ stage'[i] = StageOf(phase'[i])
      BY <1>2, Images, StageAt
    <3>2. \A k \in Step \ {i} : stage'[k] = stage[k]
      BY <1>2, StageOfRest
    <3>3. stage' = [stage EXCEPT ![i] = stage'[i]]
      BY <3>2 DEF stage
    <3> QED
      BY <3>1, <3>3
  <2>2. phase'[i] \in Live \cup {"succeeded", "dead", "cancelled"}
    BY <1>2, JobFacts DEF TaskMoves, Live
  <2>3. CASE phase'[i] \in Live
    <3>1. stage'[i] = stage[i]
      BY <2>1, <2>3, Images
    <3> QED
      BY <1>0, <1>2, <3>1, StageOfRest, RestsStutters
  <2>4. ASSUME NEW how \in {"succeeded", "dead"}, phase'[i] = how
        PROVE  ChainAsPromised!Next
    <3>1. stage'[i] = how
      BY <2>1, <2>4, Images
    <3>2. ChainAsPromised!EndUnheard(i, how)
      BY <1>0, <2>1, <3>1
      DEF ChainAsPromised!EndUnheard, ChainAsPromised!EndedStage, ChainAsPromised!Ended, going, stage
    <3> QED
      BY <3>2, StepAsPromised DEF ChainAsPromised!Next
  <2>5. CASE phase'[i] = "cancelled"
    <3>1. ChainAsPromised!Withdraw(i)
      BY <1>0, <2>1, <2>5, Images DEF ChainAsPromised!Withdraw, going, stage
    <3> QED
      BY <3>1, StepAsPromised DEF ChainAsPromised!Next
  <2> QED
    BY <2>2, <2>3, <2>4, <2>5
<1> QED
  BY <1>1, <1>2 DEF TakesNoNotice

\* A turn passes the chain on, or finishes it.
LEMMA TurnAllowed ==
  ASSUME NEW j \in Step, NEW outcome \in {"success", "death"},
         NEW begun \in Step \cup {NoTask}, TakesTurn(j, outcome, begun)
  PROVE  ChainAsPromised!Next
<1> DEFINE how == IF outcome = "success" THEN "succeeded" ELSE "dead"
<1>0. Turn(j, outcome, chain', begun) /\ how \in {"succeeded", "dead"}
  BY DEF TakesTurn
<1>1. stage[j] = "underway" /\ stage'[j] = how /\ phase'[j] = how
  BY Images, StageAt DEF TakesTurn, Live
<1>2. going = "active"
  BY <1>0, Images DEF Turn, going
<1>3. ChainAsPromised!EndedStage(j, how)
  BY <1>0, <1>1 DEF ChainAsPromised!EndedStage, ChainAsPromised!Ended, stage
<1>4. \A i \in Step \ {j, begun} : stage'[i] = stage[i]
  BY StageOfRest DEF TakesTurn
<1> HIDE DEF how
<1>5. CASE begun = NoTask
  <2>1. chain'.status \in FinalChainStatuses
    BY <1>0, <1>5, JobFacts DEF Turn, FinalChainStatuses
  <2>2. going' = "over"
    BY <2>1, Images DEF going
  <2>3. stage' = [stage EXCEPT ![j] = how]
    BY <1>1, <1>4, <1>5, JobFacts DEF stage
  <2>4. ChainAsPromised!Finish(j, how)
    BY <1>2, <1>3, <2>2, <2>3 DEF ChainAsPromised!Finish, going, stage
  <2> QED
    BY <1>0, <2>4, StepAsPromised DEF ChainAsPromised!Next
<1>6. CASE begun \in Step
  <2>1. chain'.status = "Active" /\ phase[begun] = "unknown" /\ begun # j
    BY <1>0, <1>6, JobFacts DEF Turn
  <2>2. going' = going
    BY <1>2, <2>1, Images DEF going
  <2>3. stage[begun] = "ahead" /\ stage'[begun] = "underway"
    BY <1>6, <2>1, Images, StageAt DEF TakesTurn, Live
  <2>4. stage' = [stage EXCEPT ![j] = how, ![begun] = "underway"]
    BY <1>1, <1>4, <1>6, <2>1, <2>3 DEF stage
  <2>5. ChainAsPromised!PassOn(j, begun, how)
    BY <1>2, <1>3, <2>2, <2>3, <2>4 DEF ChainAsPromised!PassOn, going, stage
  <2> QED
    BY <1>0, <1>6, <2>5, StepAsPromised DEF ChainAsPromised!Next
<1> QED
  BY <1>5, <1>6

LEMMA ChainContractInit ==
  ASSUME Init
  PROVE  ChainAsPromised!Init
<1>1. GoingOf(chain.status) = "absent"
  BY Images DEF Init, AbsentChain
<1>2. \A i \in Step : StageOf(phase[i]) = "ahead"
  BY Images, JobFacts DEF Init
<1> QED
  BY <1>1, <1>2, StepAsPromised DEF ChainAsPromised!Init

LEMMA ChainContractNext ==
  ASSUME ChainInv, [Next]_vars
  PROVE  [ChainAsPromised!Next]_(ChainAsPromised!vars)
<1>1. ChainMoves /\ \A i \in Job : TaskMoves(i)
  BY NextSound DEF Sound
<1>2. CASE Creates
  BY <1>2, CreatesBegins DEF ChainAsPromised!Next
<1>3. CASE Controls
  BY <1>3, ControlsIsControl DEF ChainAsPromised!Next
<1>4. CASE TakesNoNotice
  BY <1>1, <1>4, NoNoticeAllowed
<1>5. ASSUME NEW j \in Step, NEW outcome \in {"success", "death"},
             NEW begun \in Step \cup {NoTask}, TakesTurn(j, outcome, begun)
      PROVE  ChainAsPromised!Next
  BY <1>5, TurnAllowed
<1> QED
  BY <1>1, <1>2, <1>3, <1>4, <1>5 DEF ChainMoves

\* The steps of a chain take turns: a step begins once, and only at the chain's
\* creation or in the transaction that ends another step, while the chain is
\* active; what has ended stays as it ended, and a chain that is over begins
\* nothing.
THEOREM ImplementsChain == Spec => KeepsChainContract
<1>1. Init => ChainAsPromised!Init
  BY ChainContractInit
<1>2. ChainInv /\ [Next]_vars => [ChainAsPromised!Next]_(ChainAsPromised!vars)
  BY ChainContractNext
<1> QED
  BY <1>1, <1>2, ChainInvariant, PTL
  DEF Spec, KeepsChainContract, ChainAsPromised!Spec

-----------------------------------------------------------------------------
(* Its tasks.                                                              *)

letters == [j \in Job |-> IF phase[j] = "dead" THEN 1 ELSE 0]

LEMMA TaskContractStep ==
  ASSUME ChainInv, Sound, NEW j \in Job
  PROVE  TasksAsPromised!Step(j)
<1>1. TaskMoves(j)
  BY DEF Sound
<1>2. /\ letters[j] = IF phase[j] = "dead" THEN 1 ELSE 0
      /\ letters'[j] = IF phase'[j] = "dead" THEN 1 ELSE 0
  BY DEF letters
<1> USE DEF TasksAsPromised!Quiet, TasksAsPromised!Move, letters
<1>3. CASE phase'[j] = phase[j] /\ failures'[j] = failures[j]
  BY <1>2, <1>3 DEF TasksAsPromised!Step, TasksAsPromised!Rest
<1>4. CASE phase[j] = "unknown" /\ phase'[j] = "waiting" /\ failures'[j] = failures[j]
  BY <1>2, <1>4 DEF TasksAsPromised!Step, TasksAsPromised!Submit
<1>5. CASE phase[j] = "waiting" /\ phase'[j] = "handedOver" /\ failures'[j] = failures[j]
  BY <1>2, <1>5 DEF TasksAsPromised!Step, TasksAsPromised!HandOver
<1>6. CASE phase[j] = "handedOver" /\ phase'[j] = "running" /\ failures'[j] = failures[j]
  BY <1>2, <1>6 DEF TasksAsPromised!Step, TasksAsPromised!Start
<1>7. CASE phase[j] = "running" /\ phase'[j] = "succeeded" /\ failures'[j] = failures[j]
  BY <1>2, <1>7 DEF TasksAsPromised!Step, TasksAsPromised!Succeed
<1>8. CASE phase[j] = "waiting" /\ phase'[j] = "suspended" /\ failures'[j] = failures[j]
  BY <1>2, <1>8 DEF TasksAsPromised!Step, TasksAsPromised!Suspend
<1>9. CASE phase[j] = "suspended" /\ phase'[j] = "waiting" /\ failures'[j] = failures[j]
  BY <1>2, <1>9 DEF TasksAsPromised!Step, TasksAsPromised!Continue
<1>10. CASE phase[j] \in Live /\ phase'[j] = "cancelled" /\ failures'[j] = failures[j]
  BY <1>2, <1>10
  DEF TasksAsPromised!Step, TasksAsPromised!Withdraw, TasksAsPromised!Ended, Live
<1>11. CASE /\ phase[j] = "running" /\ phase'[j] = "waiting"
            /\ failures'[j] = failures[j] + 1 /\ failures'[j] < MaxFailures
  BY <1>2, <1>11 DEF TasksAsPromised!Step, TasksAsPromised!Retry
<1>12. CASE /\ phase[j] = "running" /\ phase'[j] = "dead"
            /\ failures'[j] = failures[j] + 1 /\ failures'[j] = MaxFailures
  BY <1>2, <1>12 DEF TasksAsPromised!Step, TasksAsPromised!Bury
<1> QED
  BY <1>1, <1>3, <1>4, <1>5, <1>6, <1>7, <1>8, <1>9, <1>10, <1>11, <1>12 DEF TaskMoves

LEMMA TaskContractNext ==
  ASSUME ChainInv, [Next]_vars
  PROVE  TasksAsPromised!Next
<1>1. Sound
  BY NextSound
<1>2. phase' \in [Job -> Phase] /\ failures' \in [Job -> Nat]
  <2>1. phase' \in [Job -> Phase] /\ failures' \in [Job -> 0..MaxFailures]
    BY <1>1 DEF Sound, TypeOK
  <2>2. \A j \in Job : failures'[j] \in Nat
    BY <2>1, JobFacts
  <2> QED
    BY <2>1, <2>2
<1>3. Phase = TasksAsPromised!Phase
  BY DEF Phase, TasksAsPromised!Phase, TasksAsPromised!Ended
<1>4. \A j \in Job : TasksAsPromised!Step(j)
  BY <1>1, TaskContractStep
<1> QED
  BY <1>2, <1>3, <1>4 DEF TasksAsPromised!Next

LEMMA TaskContractInit ==
  ASSUME Init
  PROVE  TasksAsPromised!Init
BY DEF Init, TasksAsPromised!Init

\* What this model assumes of single tasks, above the engine, stays within the
\* contract the engine keeps: no attempt too many, no second success, a dead
\* letter for every death, and a recorded end that nothing takes back.
THEOREM TasksImplement == Spec => KeepsTaskContract
<1>1. Init => TasksAsPromised!Init
  BY TaskContractInit
<1>2. ChainInv /\ [Next]_vars => [TasksAsPromised!Next]_(TasksAsPromised!vars)
  BY TaskContractNext
<1> QED
  BY <1>1, <1>2, ChainInvariant, PTL
  DEF Spec, KeepsTaskContract, TasksAsPromised!Spec
=============================================================================
