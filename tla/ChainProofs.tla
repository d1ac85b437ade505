----------------------------- MODULE ChainProofs -----------------------------
(***************************************************************************)
(* Theorems about ChainOrchestration, for chains of any length and plan,   *)
(* any number of tasks beside the chain and of users.  Whatever the        *)
(* workers, the heartbeat and the users do, a step of the orchestration is *)
(* one of four things to the chain (ChainMoves): it is created, a user     *)
(* pauses, resumes or cancels it, it takes no notice, or it takes a turn,  *)
(* in the transaction that ends its one step under way.  That is what the  *)
(* version the chain is saved under is for: a handler whose write goes     *)
(* through has read the chain as it still is (ReadBefore).                 *)
(***************************************************************************)
EXTENDS ChainOrchestration, TLAPS

Live == {"waiting", "handedOver", "running", "suspended"}

-----------------------------------------------------------------------------
(* The inductive invariant.                                                *)

\* What has been read of the chain is the chain, or an earlier version of it.
ReadBefore(seen) ==
  /\ seen.version <= chain.version
  /\ seen.version = chain.version => seen = chain

\* Workers, locks and the heartbeat's transaction are about running tasks.
InHand == \A j \in calling \cup overdue \cup sweep.jobs : phase[j] = "running"

\* A task has at most one open transaction, and what it is about to record is
\* what the task may record.
RecordingsFit ==
  \A j \in Job : recording[j] # NoRecording =>
    /\ phase[j] = "running"
    /\ j \notin sweep.jobs
    /\ recording[j].outcome = "death" => LastAttempt(j)

JobsOK ==
  /\ \A j \in Job : phase[j] # "dead" => failures[j] < MaxFailures
  /\ InHand
  /\ RecordingsFit

ReadsOK ==
  /\ \A j \in Job : recording[j] # NoRecording => ReadBefore(recording[j].seen)
  /\ sweep.jobs # {} => ReadBefore(sweep.seen)
  /\ \A u \in ChainUser : user[u].op # "none" =>
       /\ ReadBefore(user[u].seen)
       /\ AllowsChain(user[u].op, user[u].seen)

\* A chain that has been stored is started, and at most one of its steps is
\* under way; before that there is nothing.
ChainOK ==
  /\ ChainPointsToItsStep
  /\ chain.status # "Created"
  /\ \A i, k \in Step : phase[i] \in Live /\ phase[k] \in Live => i = k
  /\ chain.status = "Absent" =>
       chain.version = 0 /\ \A i \in Step : phase[i] = "unknown"

ChainInv == TypeOK /\ JobsOK /\ ReadsOK /\ ChainOK /\ StepsHaveCause /\ EndHasCause

-----------------------------------------------------------------------------
(* What a step of the orchestration is to a task and to the chain.         *)

TaskMoves(j) ==
  \/ phase'[j] = phase[j] /\ failures'[j] = failures[j]
  \/ phase[j] = "unknown" /\ phase'[j] = "waiting" /\ failures'[j] = failures[j]
  \/ phase[j] = "waiting" /\ phase'[j] = "handedOver" /\ failures'[j] = failures[j]
  \/ phase[j] = "handedOver" /\ phase'[j] = "running" /\ failures'[j] = failures[j]
  \/ phase[j] = "running" /\ phase'[j] = "succeeded" /\ failures'[j] = failures[j]
  \/ phase[j] = "waiting" /\ phase'[j] = "suspended" /\ failures'[j] = failures[j]
  \/ phase[j] = "suspended" /\ phase'[j] = "waiting" /\ failures'[j] = failures[j]
  \/ phase[j] \in Live /\ phase'[j] = "cancelled" /\ failures'[j] = failures[j]
  \/ /\ phase[j] = "running" /\ phase'[j] = "waiting"
     /\ failures'[j] = failures[j] + 1 /\ failures'[j] < MaxFailures
  \/ /\ phase[j] = "running" /\ phase'[j] = "dead"
     /\ failures'[j] = failures[j] + 1 /\ failures'[j] = MaxFailures

StepsRestBut(S) == \A i \in Step \ S : phase'[i] = phase[i]

\* The row the chain gets, and the step begun, when step j ends.
Turn(j, outcome, row, begun) ==
  /\ chain.status = "Active" /\ chain.index = j /\ chain.current = j
  /\ row \in Chain
  /\ row.version = chain.version + 1
  /\ \/ /\ outcome = "success" /\ ~Advances(plan[j])
        /\ begun = NoTask
        /\ row.status = "Cancelled" /\ row.current = NoTask
     \/ /\ outcome = "death"
        /\ \/ plan[j].onFailure = "Stop"
           \/ plan[j].onFailure = "SkipToNext" /\ j + 1 = StepCount
        /\ begun = NoTask
        /\ row.status = "Failed" /\ row.current = NoTask
     \/ /\ begun \in Step \ {j}
        /\ phase[begun] = "unknown"
        /\ row.status = "Active" /\ row.index = begun
        /\ \/ /\ outcome = "success" /\ Advances(plan[j])
              /\ begun = j + 1 /\ row.current = begun
           \/ /\ outcome = "death" /\ plan[j].onFailure = "Compensate"
              /\ begun = plan[j].compensateIndex /\ row.current = begun
           \/ /\ outcome = "death" /\ plan[j].onFailure = "SkipToNext"
              /\ begun = j + 1 /\ row.current = j

Creates ==
  /\ chain.status = "Absent"
  /\ chain' = [status |-> "Active", index |-> 0, current |-> 0, version |-> 1]
  /\ phase'[0] = "waiting"
  /\ StepsRestBut({0})

Controls ==
  /\ ChainUser # {}
  /\ chain' \in Chain
  /\ chain'.version = chain.version + 1
  /\ chain'.index = chain.index
  /\ \/ chain.status = "Active" /\ chain'.status = "Paused" /\ chain'.current = chain.current
     \/ chain.status = "Paused" /\ chain'.status = "Active" /\ chain'.current = chain.current
     \/ /\ chain.status \in {"Active", "Paused"}
        /\ chain'.status = "Cancelled" /\ chain'.current = NoTask
  /\ StepsRestBut({})

\* At most one step of the chain moves, one that is under way.
TakesNoNotice ==
  /\ chain' = chain
  /\ \/ StepsRestBut({})
     \/ \E i \in Step : phase[i] \in Live /\ StepsRestBut({i})

TakesTurn(j, outcome, begun) ==
  /\ Turn(j, outcome, chain', begun)
  /\ phase[j] = "running"
  /\ phase'[j] = IF outcome = "success" THEN "succeeded" ELSE "dead"
  /\ begun \in Step => phase'[begun] = "waiting"
  /\ StepsRestBut({j, begun})

ChainMoves ==
  \/ Creates
  \/ Controls
  \/ TakesNoNotice
  \/ \E j \in Step, outcome \in {"success", "death"}, begun \in Step \cup {NoTask} :
       TakesTurn(j, outcome, begun)

-----------------------------------------------------------------------------
(* The event handlers.                                                     *)

LEMMA JobFacts ==
  /\ Step \subseteq Job
  /\ NoTask \notin Job
  /\ Step \subseteq Int
  /\ StepCount \in Nat \ {0}
  /\ MaxFailures \in Nat \ {0}
  /\ \A i \in Int : i \in Step <=> 0 <= i /\ i < StepCount
BY StepCountAssumption, NoTaskAssumption, ChainAssumption DEF Step, Job

LEMMA PlanFacts ==
  ASSUME TypeOK, NEW j \in Step
  PROVE  /\ plan[j] \in ChainStep
         /\ plan[j].onFailure \in {"Stop", "SkipToNext", "Compensate"}
         /\ plan[j].compensateIndex \in Int
BY ChainAssumption DEF TypeOK, ChainStep, FailureAction

\* UPDATE job_chains: the same row, one version later.
LEMMA SavedFields ==
  ASSUME NEW row \in Chain
  PROVE  /\ SavedChain(row) \in Chain
         /\ SavedChain(row).status = row.status
         /\ SavedChain(row).index = row.index
         /\ SavedChain(row).current = row.current
         /\ SavedChain(row).version = row.version + 1
BY DEF Chain, SavedChain

\* The transitions of the aggregate, by field.
LEMMA EndedFields ==
  ASSUME NEW row \in Chain
  PROVE  /\ CancelChain(row) \in Chain
         /\ CancelChain(row).status = "Cancelled"
         /\ CancelChain(row).index = row.index
         /\ CancelChain(row).current = NoTask
         /\ CancelChain(row).version = row.version
         /\ FailedChain(row) \in Chain
         /\ FailedChain(row).status = "Failed"
         /\ FailedChain(row).current = NoTask
         /\ FailedChain(row).version = row.version
<1>1. "Cancelled" \in ChainStatus /\ "Failed" \in ChainStatus
  BY DEF ChainStatus
<1>2. /\ CancelChain(row) \in Chain
      /\ CancelChain(row).status = "Cancelled"
      /\ CancelChain(row).index = row.index
      /\ CancelChain(row).current = NoTask
      /\ CancelChain(row).version = row.version
  BY <1>1 DEF Chain, CancelChain
<1>3. /\ FailedChain(row) \in Chain
      /\ FailedChain(row).status = "Failed"
      /\ FailedChain(row).current = NoTask
      /\ FailedChain(row).version = row.version
  BY <1>1 DEF Chain, FailedChain
<1> QED
  BY <1>2, <1>3

LEMMA SkippedFields ==
  ASSUME NEW row \in Chain, NEW i \in Int, NEW new, new = [row EXCEPT !.index = i]
  PROVE  /\ new \in Chain /\ new.status = row.status /\ new.version = row.version
         /\ new.index = i /\ new.current = row.current
BY DEF Chain

\* The current task of an active chain that has not died is that of its step.
LEMMA CurrentIsRunning ==
  ASSUME ChainPointsToItsStep, chain.status = "Active",
         NEW j, chain.current = j, phase[j] = "running"
  PROVE  chain.index = j /\ j \in Step
BY DEF ChainPointsToItsStep

\* ChainStepCompletionHandler and ChainStepFailureHandler: a chain that is saved,
\* for a task that runs, takes its turn.
LEMMA CompletionSaved ==
  ASSUME TypeOK, ChainPointsToItsStep, NEW j \in Step, phase[j] = "running",
         OnTaskCompleted(plan, chain, j).verdict = "save",
         KeyIsFree(OnTaskCompleted(plan, chain, j).begin)
  PROVE  LET r == OnTaskCompleted(plan, chain, j)
         IN  Turn(j, "success", SavedChain(r.chain), r.begin)
<1> DEFINE next == chain.index + 1
           task == IF next \in Step THEN next ELSE NoTask
<1>1. Concerns(chain, j)
  BY DEF OnTaskCompleted, Ignored
<1>2. chain.status = "Active" /\ chain.current = j /\ chain.index = j
  BY <1>1, CurrentIsRunning DEF Concerns
<1>3. chain \in Chain
  BY DEF TypeOK
<1>4. CASE ~Advances(plan[j])
  <2>1. OnTaskCompleted(plan, chain, j) = Saving(CancelChain(chain), NoTask)
    BY <1>1, <1>2, <1>4 DEF OnTaskCompleted
  <2>2. /\ SavedChain(CancelChain(chain)) \in Chain
        /\ SavedChain(CancelChain(chain)).status = "Cancelled"
        /\ SavedChain(CancelChain(chain)).current = NoTask
        /\ SavedChain(CancelChain(chain)).version = chain.version + 1
    BY <1>3, SavedFields, EndedFields
  <2> QED
    BY <1>2, <1>4, <2>1, <2>2 DEF Turn, Saving
<1>5. CASE Advances(plan[j])
  <2>1. /\ OnTaskCompleted(plan, chain, j) = Saving(AdvanceToNextStep(chain, task), task)
        /\ task # NoTask
    BY <1>1, <1>2, <1>5 DEF OnTaskCompleted, Thrown, CanAdvance
  <2>2. task = next /\ next \in Step /\ next = j + 1
    BY <1>2, <2>1
  <2>3. ~(chain.index + 1 >= StepCount)
    BY <1>2, <2>2, JobFacts
  <2>4. AdvanceToNextStep(chain, task) = [chain EXCEPT !.index = @ + 1, !.current = task]
    BY <2>3 DEF AdvanceToNextStep
  <2>5. LET row == SavedChain(AdvanceToNextStep(chain, task))
        IN  /\ row \in Chain /\ row.status = "Active" /\ row.index = j + 1
            /\ row.current = j + 1 /\ row.version = chain.version + 1
    <3>1. next \in Int /\ next \in Step
      BY <2>2, JobFacts
    <3>2. AdvanceToNextStep(chain, task) = [chain EXCEPT !.index = next, !.current = next]
      BY <2>2, <2>4
    <3> DEFINE new == AdvanceToNextStep(chain, task)
    <3>3. /\ new \in Chain /\ new.status = chain.status /\ new.version = chain.version
          /\ new.index = next /\ new.current = next
      <4> HIDE DEF next, task
      <4> QED
        BY <1>3, <3>1, <3>2 DEF Chain
    <3> QED
      BY <1>2, <2>2, <3>3, SavedFields
  <2>6. phase[j + 1] = "unknown" /\ j + 1 # j
    BY <2>1, <2>2, JobFacts DEF KeyIsFree, Saving
  <2> QED
    BY <1>2, <1>5, <2>1, <2>2, <2>5, <2>6 DEF Turn, Saving
<1> QED
  BY <1>4, <1>5

LEMMA FailureSaved ==
  ASSUME TypeOK, ChainPointsToItsStep, NEW j \in Step, phase[j] = "running",
         OnTaskMovedToDlq(plan, chain, j).verdict = "save",
         KeyIsFree(OnTaskMovedToDlq(plan, chain, j).begin)
  PROVE  LET r == OnTaskMovedToDlq(plan, chain, j)
         IN  Turn(j, "death", SavedChain(r.chain), r.begin)
<1> DEFINE task == StepAfterFailure(plan, chain)
<1>1. Concerns(chain, j)
  BY DEF OnTaskMovedToDlq, Ignored
<1>2. chain.status = "Active" /\ chain.current = j /\ chain.index = j
  BY <1>1, CurrentIsRunning DEF Concerns
<1>3. chain \in Chain
  BY DEF TypeOK
<1>4. /\ OnTaskMovedToDlq(plan, chain, j) = Saving(FailCurrentStep(plan, chain, task), task)
      /\ CanFailStep(plan, chain, task)
  BY <1>1 DEF OnTaskMovedToDlq, Thrown
<1>5. /\ OnTaskMovedToDlq(plan, chain, j).chain = FailCurrentStep(plan, chain, task)
      /\ OnTaskMovedToDlq(plan, chain, j).begin = task
  BY <1>4 DEF Saving
<1>6. KeyIsFree(task)
  BY <1>5
<1>7. /\ SavedChain(FailedChain(chain)) \in Chain
      /\ SavedChain(FailedChain(chain)).status = "Failed"
      /\ SavedChain(FailedChain(chain)).current = NoTask
      /\ SavedChain(FailedChain(chain)).version = chain.version + 1
  BY <1>3, SavedFields, EndedFields
<1>8. /\ plan[j].onFailure = "Stop" => task = NoTask
      /\ plan[j].onFailure = "SkipToNext" =>
           task = IF j + 1 \in Step THEN j + 1 ELSE NoTask
      /\ plan[j].onFailure = "Compensate" =>
           task = IF plan[j].compensateIndex \in Step THEN plan[j].compensateIndex ELSE NoTask
  <2>1. StepCount \notin Step
    BY JobFacts
  <2> QED
    BY <1>2, <2>1 DEF StepAfterFailure
<1> HIDE DEF task
<1>9. CASE plan[j].onFailure = "Stop"
  <2>1. FailCurrentStep(plan, chain, task) = FailedChain(chain)
    BY <1>2, <1>9 DEF FailCurrentStep
  <2> QED
    BY <1>2, <1>5, <1>7, <1>8, <1>9, <2>1 DEF Turn
<1>10. CASE plan[j].onFailure = "SkipToNext" /\ j + 1 = StepCount
  <2>1. FailCurrentStep(plan, chain, task) = FailedChain(chain)
    BY <1>2, <1>10, JobFacts DEF FailCurrentStep
  <2>2. task = NoTask
    BY <1>8, <1>10, JobFacts
  <2> QED
    BY <1>2, <1>5, <1>7, <1>10, <2>1, <2>2 DEF Turn
<1>11. CASE plan[j].onFailure = "SkipToNext" /\ j + 1 # StepCount
  <2>1. ~(j + 1 >= StepCount) /\ j + 1 \in Step /\ j + 1 # j /\ j + 1 \in Int
    BY <1>11, JobFacts
  <2>2. FailCurrentStep(plan, chain, task) = [chain EXCEPT !.index = @ + 1]
    BY <1>2, <1>11, <2>1 DEF FailCurrentStep
  <2>3. LET row == SavedChain(FailCurrentStep(plan, chain, task))
        IN  /\ row \in Chain /\ row.status = "Active" /\ row.index = j + 1
            /\ row.current = j /\ row.version = chain.version + 1
    <3>1. FailCurrentStep(plan, chain, task) = [chain EXCEPT !.index = j + 1]
      BY <1>2, <2>2
    <3> DEFINE new == FailCurrentStep(plan, chain, task)
    <3>2. /\ new \in Chain /\ new.status = chain.status /\ new.version = chain.version
          /\ new.index = j + 1 /\ new.current = chain.current
      BY <1>3, <2>1, <3>1, SkippedFields
    <3> QED
      BY <1>2, <3>2, SavedFields
  <2>4. task = j + 1 /\ phase[j + 1] = "unknown"
    BY <1>6, <1>8, <1>11, <2>1 DEF KeyIsFree
  <2> QED
    BY <1>2, <1>5, <1>11, <2>1, <2>3, <2>4 DEF Turn
<1>12. CASE plan[j].onFailure = "Compensate"
  <2> DEFINE back == plan[j].compensateIndex
  <2>1. task # NoTask
    BY <1>2, <1>4, <1>12 DEF CanFailStep
  <2>2. task = back /\ back \in Step
    BY <1>8, <1>12, <2>1
  <2>3. phase[back] = "unknown" /\ back # j
    BY <1>6, <2>2 DEF KeyIsFree
  <2>4. FailCurrentStep(plan, chain, task) =
          [chain EXCEPT !.index = back, !.current = task]
    BY <1>2, <1>12 DEF FailCurrentStep
  <2>5. LET row == SavedChain(FailCurrentStep(plan, chain, task))
        IN  /\ row \in Chain /\ row.status = "Active" /\ row.index = back
            /\ row.current = back /\ row.version = chain.version + 1
    <3> DEFINE new == FailCurrentStep(plan, chain, task)
    <3>1. /\ new \in Chain /\ new.status = chain.status /\ new.version = chain.version
          /\ new.index = back /\ new.current = back
      <4>1. new = [chain EXCEPT !.index = back, !.current = back] /\ back \in Int
        BY <2>2, <2>4, PlanFacts
      <4> QED
        BY <1>3, <2>2, <4>1 DEF Chain
    <3> QED
      BY <1>2, <2>2, <3>1, SavedFields
  <2> QED
    BY <1>2, <1>5, <1>12, <2>2, <2>3, <2>5 DEF Turn
<1> QED
  BY <1>9, <1>10, <1>11, <1>12, PlanFacts

\* The writes of a transaction that ends running task j: the chain takes its
\* turn, or no notice.
LEMMA ReactionSound ==
  ASSUME TypeOK, ChainPointsToItsStep,
         NEW j \in Job, phase[j] = "running", NEW outcome \in {"success", "death"},
         NEW seen, ReadBefore(seen), Passes(ReactionTo(j, outcome, seen), seen)
  PROVE  LET r == ReactionTo(j, outcome, seen)
         IN  \/ Saved(r) = chain /\ r.begin = NoTask
             \/ /\ j \in Step
                /\ r.begin \in Step \cup {NoTask}
                /\ Turn(j, outcome, Saved(r), r.begin)
<1> DEFINE r == ReactionTo(j, outcome, seen)
<1>1. CASE r.verdict = "ignore"
  <2>1. r.begin = NoTask
    BY <1>1 DEF ReactionTo, OnTaskCompleted, OnTaskMovedToDlq, Ignored, Thrown, Saving
  <2>2. Saved(r) = chain
    BY <1>1 DEF Saved
  <2> QED
    BY <2>1, <2>2
<1>2. CASE r.verdict = "save"
  <2>1. seen = chain /\ KeyIsFree(r.begin)
    BY <1>2 DEF Passes, ReadBefore
  <2>2. j \in Step
    BY <1>2 DEF ReactionTo, Ignored
  <2>3. Saved(r) = SavedChain(r.chain)
    BY <1>2 DEF Saved
  <2>4. Turn(j, outcome, SavedChain(r.chain), r.begin)
    <3>1. CASE outcome = "success"
      <4>1. r = OnTaskCompleted(plan, chain, j)
        BY <2>1, <2>2, <3>1 DEF ReactionTo
      <4> QED
        BY <1>2, <2>1, <2>2, <3>1, <4>1, CompletionSaved
    <3>2. CASE outcome = "death"
      <4>1. r = OnTaskMovedToDlq(plan, chain, j)
        BY <2>1, <2>2, <3>2 DEF ReactionTo
      <4> QED
        BY <1>2, <2>1, <2>2, <3>2, <4>1, FailureSaved
    <3> QED
      BY <3>1, <3>2
  <2>5. r.begin \in Step \cup {NoTask}
    BY <2>4 DEF Turn
  <2> QED
    BY <2>2, <2>3, <2>4, <2>5
<1> QED
  BY <1>1, <1>2 DEF Passes

-----------------------------------------------------------------------------
(* Every step of the orchestration, as a step of its tasks and its chain.  *)

LEMMA RecordingFacts ==
  ASSUME TypeOK, NEW j \in Job, recording[j] # NoRecording
  PROVE  recording[j].outcome \in {"success", "death"} /\ recording[j].seen \in Chain
<1>1. recording[j] \in [outcome : {"success", "death"}, seen : Chain]
  BY DEF TypeOK, Recording
<1> QED
  BY <1>1

\* A task under way that moves alone.
LEMMA OneTaskMoves ==
  ASSUME TypeOK, NEW j \in Job, NEW p, phase[j] \in Live,
         phase' = [phase EXCEPT ![j] = p], chain' = chain
  PROVE  TakesNoNotice
<1>1. \A i \in Step : i # j => phase'[i] = phase[i]
  BY JobFacts DEF TypeOK
<1>2. CASE j \in Step
  BY <1>1, <1>2 DEF TakesNoNotice, StepsRestBut
<1>3. CASE j \notin Step
  BY <1>1, <1>3 DEF TakesNoNotice, StepsRestBut
<1> QED
  BY <1>2, <1>3

\* The worker's transaction.
LEMMA CommitRecordingMoves ==
  ASSUME ChainInv, NEW j \in Job, CommitRecording(j)
  PROVE  ChainMoves /\ \A i \in Job : TaskMoves(i)
<1> DEFINE r == RecordReaction(j)
           outcome == recording[j].outcome
           seen == recording[j].seen
           ends == IF outcome = "success" THEN "succeeded" ELSE "dead"
<1>1. /\ TypeOK /\ ChainPointsToItsStep /\ ReadBefore(seen)
      /\ phase[j] = "running" /\ outcome \in {"success", "death"}
      /\ failures[j] < MaxFailures
      /\ outcome = "death" => LastAttempt(j)
  BY RecordingFacts DEF ChainInv, ChainOK, JobsOK, RecordingsFit, ReadsOK, CommitRecording
<1>2. r = ReactionTo(j, outcome, seen) /\ Passes(r, seen)
  BY DEF CommitRecording, RecordReaction
<1>3. \/ Saved(r) = chain /\ r.begin = NoTask
      \/ j \in Step /\ r.begin \in Step \cup {NoTask} /\ Turn(j, outcome, Saved(r), r.begin)
  BY <1>1, <1>2, ReactionSound
<1>4. /\ chain' = Saved(r)
      /\ \A i \in Job : phase'[i] = IF i = j THEN ends
                                    ELSE IF i = r.begin THEN "waiting" ELSE phase[i]
      /\ \A i \in Job : failures'[i] = IF i = j /\ ends = "dead" THEN failures[i] + 1
                                       ELSE failures[i]
  BY <1>1 DEF CommitRecording, Moved, TypeOK
<1>5. failures[j] + 1 = MaxFailures \/ outcome = "success"
  BY <1>1, JobFacts DEF LastAttempt, TypeOK
<1> HIDE DEF r, outcome, seen
<1>6. ASSUME Saved(r) = chain, r.begin = NoTask
      PROVE  ChainMoves /\ \A i \in Job : TaskMoves(i)
  <2>1. \A i \in Job : phase'[i] = IF i = j THEN ends ELSE phase[i]
    BY <1>4, <1>6, JobFacts
  <2>2. \A i \in Job : TaskMoves(i)
    BY <1>1, <1>4, <1>5, <2>1 DEF TaskMoves
  <2>3. TakesNoNotice
    BY <1>1, <1>4, <1>6, <2>1, JobFacts DEF TakesNoNotice, StepsRestBut, Live
  <2> QED
    BY <2>2, <2>3 DEF ChainMoves
<1>7. ASSUME j \in Step, r.begin \in Step \cup {NoTask}, Turn(j, outcome, Saved(r), r.begin)
      PROVE  ChainMoves /\ \A i \in Job : TaskMoves(i)
  <2>1. r.begin \in Step => r.begin # j /\ phase[r.begin] = "unknown"
    BY <1>7, JobFacts DEF Turn
  <2>2. \A i \in Job : TaskMoves(i)
    <3>1. ASSUME NEW i \in Job PROVE TaskMoves(i)
      <4>1. CASE i = j
        BY <1>1, <1>4, <1>5, <4>1 DEF TaskMoves
      <4>2. CASE i # j /\ i = r.begin
        <5>1. phase[i] = "unknown"
          BY <1>7, <2>1, <4>2, JobFacts
        <5> QED
          BY <1>4, <4>2, <5>1 DEF TaskMoves
      <4>3. CASE i # j /\ i # r.begin
        BY <1>4, <4>3 DEF TaskMoves
      <4> QED
        BY <4>1, <4>2, <4>3
    <3> QED
      BY <3>1
  <2>3. TakesTurn(j, outcome, r.begin)
    BY <1>1, <1>4, <1>7, <2>1, JobFacts DEF TakesTurn, StepsRestBut
  <2> QED
    BY <1>1, <1>7, <2>2, <2>3 DEF ChainMoves
<1> QED
  BY <1>3, <1>6, <1>7

\* The heartbeat's transaction: of the steps of the chain it holds at most one.
LEMMA CommitSweepMoves ==
  ASSUME ChainInv, CommitSweep
  PROVE  ChainMoves /\ \A i \in Job : TaskMoves(i)
<1> DEFINE S == sweep.jobs
           task == sweep.seen.current
           r == SweepReaction
<1>1. /\ TypeOK /\ ChainPointsToItsStep /\ ReadBefore(sweep.seen)
      /\ S \subseteq Job /\ \A i \in S : phase[i] = "running" /\ failures[i] < MaxFailures
      /\ \A i, k \in S \cap Step : i = k
  BY DEF ChainInv, ChainOK, JobsOK, InHand, ReadsOK, CommitSweep, TypeOK, Sweep, Live
<1>2. \/ Saved(r) = chain /\ r.begin = NoTask
      \/ /\ task \in S /\ LastAttempt(task)
         /\ task \in Step /\ r.begin \in Step \cup {NoTask}
         /\ Turn(task, "death", Saved(r), r.begin)
  <2>1. CASE task \in S /\ LastAttempt(task)
    <3>1. r = ReactionTo(task, "death", sweep.seen)
      BY <2>1 DEF SweepReaction
    <3>2. Passes(ReactionTo(task, "death", sweep.seen), sweep.seen)
      BY <3>1 DEF CommitSweep
    <3> QED
      BY <1>1, <2>1, <3>1, <3>2, ReactionSound
  <2>2. CASE ~(task \in S /\ LastAttempt(task))
    <3>1. r = Ignored(sweep.seen)
      BY <2>2 DEF SweepReaction
    <3> QED
      BY <3>1 DEF Saved, Ignored
  <2> QED
    BY <2>1, <2>2
<1>3. /\ chain' = Saved(r)
      /\ \A i \in Job : phase'[i] = IF i \in S THEN IF LastAttempt(i) THEN "dead" ELSE "waiting"
                                    ELSE IF i = r.begin THEN "waiting" ELSE phase[i]
      /\ \A i \in Job : failures'[i] = IF i \in S THEN failures[i] + 1 ELSE failures[i]
  BY <1>1 DEF CommitSweep, Moved
<1>4. \A i \in S : /\ LastAttempt(i) => failures[i] + 1 = MaxFailures
                   /\ ~LastAttempt(i) => failures[i] + 1 < MaxFailures
  <2>1. \A i \in S : failures[i] \in Int
    BY <1>1 DEF TypeOK
  <2> QED
    BY <1>1, <2>1, JobFacts DEF LastAttempt
<1>5. \A i \in S : TaskMoves(i)
  BY <1>1, <1>3, <1>4 DEF TaskMoves
<1> HIDE DEF r, task
<1>6. ASSUME Saved(r) = chain, r.begin = NoTask
      PROVE  ChainMoves /\ \A i \in Job : TaskMoves(i)
  <2>1. \A i \in Job \ S : phase'[i] = phase[i] /\ failures'[i] = failures[i]
    BY <1>3, <1>6, JobFacts
  <2>2. \A i \in Job : TaskMoves(i)
    BY <1>5, <2>1 DEF TaskMoves
  <2>3. TakesNoNotice
    <3>1. CASE S \cap Step = {}
      BY <1>3, <1>6, <2>1, <3>1, JobFacts DEF TakesNoNotice, StepsRestBut
    <3>2. CASE S \cap Step # {}
      <4>1. PICK i \in S \cap Step : TRUE
        BY <3>2
      <4>2. \A k \in Step \ {i} : phase'[k] = phase[k]
        BY <1>1, <2>1, <4>1, JobFacts
      <4> QED
        BY <1>1, <1>3, <1>6, <4>1, <4>2 DEF TakesNoNotice, StepsRestBut, Live
    <3> QED
      BY <3>1, <3>2
  <2> QED
    BY <2>2, <2>3 DEF ChainMoves
<1>7. ASSUME task \in S, LastAttempt(task), task \in Step, r.begin \in Step \cup {NoTask},
             Turn(task, "death", Saved(r), r.begin)
      PROVE  ChainMoves /\ \A i \in Job : TaskMoves(i)
  <2>1. r.begin \in Step => r.begin # task /\ r.begin \notin S /\ phase[r.begin] = "unknown"
    BY <1>1, <1>7, JobFacts DEF Turn
  <2>2. \A i \in Job : TaskMoves(i)
    <3>1. ASSUME NEW i \in Job \ S PROVE TaskMoves(i)
      <4>1. CASE i = r.begin
        <5>1. phase[i] = "unknown"
          BY <1>7, <2>1, <4>1, JobFacts
        <5> QED
          BY <1>3, <4>1, <5>1 DEF TaskMoves
      <4>2. CASE i # r.begin
        BY <1>3, <4>2 DEF TaskMoves
      <4> QED
        BY <4>1, <4>2
    <3> QED
      BY <1>5, <3>1
  <2>3. \A k \in Step \ {task, r.begin} : phase'[k] = phase[k]
    <3>1. \A k \in Step \ {task} : k \notin S
      BY <1>1, <1>7
    <3> QED
      BY <1>3, <3>1, JobFacts
  <2>4. TakesTurn(task, "death", r.begin)
    BY <1>1, <1>3, <1>7, <2>1, <2>3, JobFacts DEF TakesTurn, StepsRestBut
  <2> QED
    BY <1>7, <2>2, <2>4 DEF ChainMoves
<1> QED
  BY <1>2, <1>6, <1>7

\* The API's requests.
LEMMA SaveChainMoves ==
  ASSUME ChainInv, NEW u \in ChainUser, SaveChain(u)
  PROVE  Controls
<1> DEFINE op == user[u].op
           row == ApplyChain(op, user[u].seen)
<1>1. user[u] \in [op : ChainOperation, seen : Chain]
  BY DEF ChainInv, TypeOK, UserState, SaveChain, IdleUser
<1>2. op \in ChainOperation /\ user[u].seen = chain /\ AllowsChain(op, chain)
  BY <1>1 DEF ChainInv, ReadsOK, ReadBefore, SaveChain
<1>3. chain \in Chain /\ chain.status \notin {"Created"} /\ chain' = SavedChain(row)
  BY DEF ChainInv, TypeOK, ChainOK, SaveChain
<1>4. /\ row \in Chain /\ row.version = chain.version /\ row.index = chain.index
      /\ \/ chain.status = "Active" /\ row.status = "Paused" /\ row.current = chain.current
         \/ chain.status = "Paused" /\ row.status = "Active" /\ row.current = chain.current
         \/ /\ chain.status \in {"Active", "Paused"}
            /\ row.status = "Cancelled" /\ row.current = NoTask
  <2>1. CASE op = "Pause"
    <3>1. row = [chain EXCEPT !.status = "Paused"] /\ chain.status = "Active"
      BY <1>2, <2>1 DEF ApplyChain, PauseChain, AllowsChain, CanPauseChain
    <3> QED
      BY <1>3, <3>1 DEF Chain, ChainStatus
  <2>2. CASE op = "Resume"
    <3>1. row = [chain EXCEPT !.status = "Active"] /\ chain.status = "Paused"
      BY <1>2, <2>2 DEF ApplyChain, ResumeChain, AllowsChain, CanResumeChain
    <3> QED
      BY <1>3, <3>1 DEF Chain, ChainStatus
  <2>3. CASE op = "Cancel"
    <3>1. row = CancelChain(chain) /\ chain.status \notin FinalChainStatuses \cup {"Absent"}
      BY <1>2, <2>3 DEF ApplyChain, AllowsChain, CanCancelChain
    <3>2. chain.status \in {"Active", "Paused"}
      BY <1>3, <3>1 DEF Chain, ChainStatus, FinalChainStatuses
    <3> QED
      BY <1>3, <3>1, <3>2, EndedFields
  <2> QED
    BY <1>2, <2>1, <2>2, <2>3 DEF ChainOperation
<1>5. phase' = phase
  BY DEF SaveChain, jobs
<1> HIDE DEF row
<1> QED
  BY <1>3, <1>4, <1>5, SavedFields DEF Controls, StepsRestBut

\* What stays as it is unless a task moves, the chain is saved, or both.
StaysPut == UNCHANGED <<plan, chain, phase, failures>>

LEMMA StaysPutMoves ==
  ASSUME StaysPut
  PROVE  ChainMoves /\ \A j \in Job : TaskMoves(j)
BY DEF StaysPut, ChainMoves, TakesNoNotice, StepsRestBut, TaskMoves

\* The moves of a single task that no event handler hears of.
Alone(j, from, p, f) ==
  /\ chain' = chain
  /\ phase[j] = from
  /\ phase' = [phase EXCEPT ![j] = p]
  /\ failures' = [failures EXCEPT ![j] = f]

LEMMA AloneMoves ==
  ASSUME ChainInv, NEW j \in Job, NEW from \in Live,
         \/ Alone(j, "waiting", "handedOver", failures[j])
         \/ Alone(j, "handedOver", "running", failures[j])
         \/ Alone(j, "waiting", "suspended", failures[j])
         \/ Alone(j, "suspended", "waiting", failures[j])
         \/ Alone(j, from, "cancelled", failures[j])
         \/ failures[j] + 1 < MaxFailures /\ Alone(j, "running", "waiting", failures[j] + 1)
  PROVE  ChainMoves /\ \A i \in Job : TaskMoves(i)
<1>1. TypeOK
  BY DEF ChainInv
<1>2. \A i \in Job : i # j => phase'[i] = phase[i] /\ failures'[i] = failures[i]
  BY <1>1 DEF Alone, TypeOK
<1>3. TaskMoves(j)
  BY <1>1 DEF Alone, TaskMoves, TypeOK
<1>4. TakesNoNotice
  BY <1>1, OneTaskMoves DEF Alone, Live
<1> QED
  BY <1>2, <1>3, <1>4 DEF TaskMoves, ChainMoves

-----------------------------------------------------------------------------
(* The bookkeeping of the transactions is kept by every step.              *)

\* A read returns the chain as it is; a step that reads does not write.
NewReads ==
  /\ \A j \in Job : \/ recording'[j] \in {recording[j], NoRecording}
                    \/ chain' = chain /\ recording'[j].seen = chain
  /\ sweep' \in {sweep, NoSweep} \/ (chain' = chain /\ sweep'.seen = chain)
  /\ \A u \in ChainUser : \/ user'[u] \in {user[u], IdleUser}
                          \/ /\ chain' = chain /\ user'[u].seen = chain
                             /\ AllowsChain(user'[u].op, chain)

\* A saved chain has a version no transaction has read.
LEMMA VersionGrows ==
  ASSUME ChainInv, ChainMoves
  PROVE  /\ chain' \in Chain
         /\ chain' = chain \/ chain'.version = chain.version + 1
<1>1. chain \in Chain /\ (chain.status = "Absent" => chain.version = 0)
  BY DEF ChainInv, ChainOK, TypeOK
<1>2. CASE Creates
  <2>1. 0 \in Step
    BY JobFacts
  <2> QED
    BY <1>1, <1>2, <2>1 DEF Creates, Chain, ChainStatus
<1>3. CASE Controls
  BY <1>3 DEF Controls
<1>4. CASE TakesNoNotice
  BY <1>1, <1>4 DEF TakesNoNotice
<1>5. ASSUME NEW j \in Step, NEW outcome \in {"success", "death"},
             NEW begun \in Step \cup {NoTask}, TakesTurn(j, outcome, begun)
      PROVE  chain' \in Chain /\ chain'.version = chain.version + 1
  BY <1>5 DEF TakesTurn, Turn
<1> QED
  BY <1>2, <1>3, <1>4, <1>5 DEF ChainMoves

LEMMA ReadsKept ==
  ASSUME ChainInv, ChainMoves, NewReads
  PROVE  ReadsOK'
<1>1. /\ chain \in Chain /\ chain.version \in Nat
      /\ chain' = chain \/ chain'.version = chain.version + 1
  BY VersionGrows DEF ChainInv, TypeOK, Chain
<1>2. ASSUME NEW seen, seen.version \in Nat, ReadBefore(seen)
      PROVE  /\ seen.version <= chain'.version
             /\ seen.version = chain'.version => seen = chain'
  BY <1>1, <1>2 DEF ReadBefore
<1>3. chain' = chain => chain.version <= chain'.version
  BY <1>1
<1>4. ASSUME NEW j \in Job, recording'[j] # NoRecording
      PROVE  ReadBefore(recording[j].seen)'
  <2>1. CASE recording'[j] = recording[j]
    <3>1. ReadBefore(recording[j].seen) /\ recording[j].seen \in Chain
      BY <1>4, <2>1, RecordingFacts DEF ChainInv, ReadsOK
    <3> QED
      BY <1>2, <2>1, <3>1 DEF ReadBefore, Chain
  <2>2. CASE chain' = chain /\ recording'[j].seen = chain
    BY <1>3, <2>2 DEF ReadBefore
  <2> QED
    BY <1>4, <2>1, <2>2 DEF NewReads
<1>5. ASSUME (sweep.jobs # {})'
      PROVE  ReadBefore(sweep.seen)'
  <2>1. CASE sweep' = sweep
    <3>1. ReadBefore(sweep.seen) /\ sweep.seen \in Chain
      BY <1>5, <2>1 DEF ChainInv, ReadsOK, TypeOK, Sweep
    <3> QED
      BY <1>2, <2>1, <3>1 DEF ReadBefore, Chain
  <2>2. CASE chain' = chain /\ sweep'.seen = chain
    BY <1>3, <2>2 DEF ReadBefore
  <2> QED
    BY <1>5, <2>1, <2>2 DEF NewReads, NoSweep
<1>6. ASSUME NEW u \in ChainUser, (user[u].op # "none")'
      PROVE  ReadBefore(user[u].seen)' /\ AllowsChain(user[u].op, user[u].seen)'
  <2>1. CASE user'[u] = user[u]
    <3>1. user[u].op # "none"
      BY <1>6, <2>1
    <3>2. user[u] \in [op : ChainOperation, seen : Chain]
      BY <3>1 DEF ChainInv, TypeOK, UserState, IdleUser
    <3>3. /\ ReadBefore(user[u].seen) /\ user[u].seen \in Chain
          /\ AllowsChain(user[u].op, user[u].seen)
      BY <3>1, <3>2 DEF ChainInv, ReadsOK
    <3>4. ReadBefore(user[u].seen)'
      BY <1>2, <2>1, <3>3 DEF ReadBefore, Chain
    <3> QED
      BY <2>1, <3>3, <3>4 DEF AllowsChain
  <2>2. CASE chain' = chain /\ user'[u].seen = chain /\ AllowsChain(user'[u].op, chain)
    BY <1>3, <2>2 DEF ReadBefore, AllowsChain
  <2> QED
    BY <1>6, <2>1, <2>2 DEF NewReads, IdleUser
<1> QED
  BY <1>4, <1>5, <1>6 DEF ReadsOK

LEMMA AttemptsLeft ==
  ASSUME ChainInv, \A j \in Job : TaskMoves(j)
  PROVE  \A j \in Job : phase'[j] # "dead" => failures'[j] < MaxFailures
<1> SUFFICES ASSUME NEW j \in Job, phase'[j] # "dead"
             PROVE  failures'[j] < MaxFailures
  OBVIOUS
<1>1. phase[j] # "dead" => failures[j] < MaxFailures
  BY DEF ChainInv, JobsOK
<1> QED
  BY <1>1 DEF TaskMoves, Live

\* What every step is shown to be.
Sound ==
  /\ TypeOK' /\ JobsOK' /\ ReadsOK'
  /\ NewReads
  /\ plan' = plan
  /\ ChainMoves
  /\ \A j \in Job : TaskMoves(j)

LEMMA SoundStep ==
  ASSUME ChainInv, TypeOK', ChainMoves, \A j \in Job : TaskMoves(j), NewReads,
         plan' = plan, InHand', RecordingsFit'
  PROVE  Sound
<1>1. ReadsOK'
  BY ReadsKept
<1>2. JobsOK'
  BY AttemptsLeft DEF JobsOK
<1> QED
  BY <1>1, <1>2 DEF Sound

\* A step that moves no task and leaves the chain alone.
LEMMA QuietSound ==
  ASSUME ChainInv, TypeOK', StaysPut, NewReads, InHand', RecordingsFit'
  PROVE  Sound
BY SoundStep, StaysPutMoves DEF StaysPut

LEMMA InvParts ==
  ASSUME ChainInv
  PROVE  /\ TypeOK /\ InHand /\ RecordingsFit /\ chain \in Chain
         /\ calling \subseteq Job /\ overdue \subseteq Job /\ sweep.jobs \subseteq Job
BY DEF ChainInv, JobsOK, TypeOK, Sweep

LEMMA StutterSound ==
  ASSUME ChainInv, UNCHANGED vars
  PROVE  Sound
<1>1. TypeOK' /\ InHand' /\ RecordingsFit'
  BY InvParts DEF vars, jobs, TypeOK, InHand, RecordingsFit, LastAttempt
<1>2. StaysPut /\ NewReads
  BY DEF vars, jobs, StaysPut, NewReads
<1> QED
  BY <1>1, <1>2, QuietSound

LEMMA RejectSound ==
  ASSUME ChainInv, RejectJobChain
  PROVE  Sound
<1>1. TypeOK' /\ InHand' /\ RecordingsFit'
  BY InvParts DEF RejectJobChain, jobs, TypeOK, InHand, RecordingsFit, LastAttempt
<1>2. StaysPut /\ NewReads
  BY DEF RejectJobChain, jobs, StaysPut, NewReads
<1> QED
  BY <1>1, <1>2, QuietSound

LEMMA LockExpiresSound ==
  ASSUME ChainInv, NEW j \in Job, LockExpires(j)
  PROVE  Sound
<1>1. TypeOK' /\ InHand' /\ RecordingsFit'
  BY InvParts DEF LockExpires, TypeOK, InHand, RecordingsFit, LastAttempt
<1>2. StaysPut /\ NewReads
  BY DEF LockExpires, StaysPut, NewReads
<1> QED
  BY <1>1, <1>2, QuietSound

\* A fault is counted.
LEMMA FaultCounted ==
  ASSUME TypeOK, Fault
  PROVE  faults' \in 0..MaxFaults
BY ChainAssumption DEF TypeOK, Fault

LEMMA WorkerLostSound ==
  ASSUME ChainInv, NEW j \in Job, WorkerLost(j)
  PROVE  Sound
<1>1. TypeOK' /\ InHand' /\ RecordingsFit'
  BY InvParts, FaultCounted DEF WorkerLost, TypeOK, InHand, RecordingsFit, LastAttempt
<1>2. StaysPut /\ NewReads
  BY DEF WorkerLost, StaysPut, NewReads
<1> QED
  BY <1>1, <1>2, QuietSound

\* A worker's transaction opens.
LEMMA BeginRecordingSound ==
  ASSUME ChainInv, NEW j \in Job, NEW outcome \in {"success", "death"},
         CanRecord(j), outcome = "death" => LastAttempt(j), BeginRecording(j, outcome)
  PROVE  Sound
<1> DEFINE opened == [outcome |-> outcome, seen |-> chain]
<1>1. opened \in Recording
  BY InvParts DEF Recording
<1>2. /\ recording' = [recording EXCEPT ![j] = opened]
      /\ UNCHANGED <<plan, chain, phase, failures, overdue, calling, sweep, user, rejected, faults>>
      /\ j \notin sweep.jobs /\ phase[j] = "running"
  BY InvParts DEF BeginRecording, jobs, CanRecord, Locked, InHand
<1>3. opened.outcome = outcome /\ opened.seen = chain
  OBVIOUS
<1> HIDE DEF opened
<1>4. \A i \in Job : recording'[i] = IF i = j THEN opened ELSE recording[i]
  BY <1>2, InvParts DEF TypeOK
<1>5. TypeOK' /\ InHand'
  BY <1>1, <1>2, InvParts DEF TypeOK, InHand
<1>6. RecordingsFit'
  BY <1>2, <1>3, <1>4, InvParts DEF RecordingsFit, LastAttempt
<1>7. StaysPut /\ NewReads
  BY <1>2, <1>3, <1>4 DEF StaysPut, NewReads
<1> QED
  BY <1>5, <1>6, <1>7, QuietSound

\* A worker's transaction is lost or rolled back.
LEMMA DropRecordingSound ==
  ASSUME ChainInv, NEW j \in Job, DropRecording(j), faults' \in 0..MaxFaults
  PROVE  Sound
<1>1. NoRecording \in Recording
  BY DEF Recording
<1>2. \A i \in Job : recording'[i] = IF i = j THEN NoRecording ELSE recording[i]
  BY InvParts DEF DropRecording, TypeOK
<1>3. TypeOK' /\ InHand'
  BY <1>1, InvParts DEF DropRecording, TypeOK, InHand
<1>4. RecordingsFit'
  BY <1>2, InvParts DEF DropRecording, RecordingsFit, LastAttempt
<1>5. StaysPut /\ NewReads
  BY <1>2 DEF DropRecording, StaysPut, NewReads
<1> QED
  BY <1>3, <1>4, <1>5, QuietSound

\* The heartbeat opens its transaction over running tasks nobody holds.
LEMMA BeginSweepSound ==
  ASSUME ChainInv, BeginSweep
  PROVE  Sound
<1>1. /\ sweep' = [jobs |-> Stale, seen |-> chain]
      /\ UNCHANGED <<plan, chain, phase, failures, overdue, calling, recording, user, rejected, faults>>
  BY DEF BeginSweep, jobs
<1>2. /\ Stale \subseteq Job
      /\ \A j \in Stale : phase[j] = "running" /\ recording[j] = NoRecording
  BY InvParts DEF Stale, Locked
<1>3. sweep'.jobs = Stale /\ sweep'.seen = chain /\ sweep' \in Sweep
  BY <1>1, <1>2, InvParts DEF Sweep
<1>4. TypeOK'
  BY <1>1, <1>3, InvParts DEF TypeOK
<1>5. InHand' /\ RecordingsFit'
  BY <1>1, <1>2, <1>3, InvParts DEF InHand, RecordingsFit, LastAttempt
<1>6. StaysPut /\ NewReads
  BY <1>1, <1>3 DEF StaysPut, NewReads
<1> QED
  BY <1>4, <1>5, <1>6, QuietSound

LEMMA DropSweepSound ==
  ASSUME ChainInv, sweep' = NoSweep, faults' \in 0..MaxFaults,
         UNCHANGED <<plan, chain, jobs, recording, user, rejected>>
  PROVE  Sound
<1>1. NoSweep \in Sweep /\ NoSweep.jobs = {}
  BY DEF NoSweep, Sweep, AbsentChain, Chain
<1>2. TypeOK' /\ InHand' /\ RecordingsFit'
  BY <1>1, InvParts DEF jobs, TypeOK, InHand, RecordingsFit, LastAttempt
<1>3. StaysPut /\ NewReads
  BY DEF jobs, StaysPut, NewReads
<1> QED
  BY <1>2, <1>3, QuietSound

LEMMA LoadChainSound ==
  ASSUME ChainInv, NEW u \in ChainUser, NEW op \in ChainOperation, LoadChain(u, op)
  PROVE  Sound
<1> DEFINE loaded == [op |-> op, seen |-> chain]
<1>1. loaded \in UserState /\ loaded.op = op /\ loaded.seen = chain
  BY InvParts DEF UserState
<1>2. /\ user' = [user EXCEPT ![u] = loaded] /\ AllowsChain(op, chain)
      /\ UNCHANGED <<plan, chain, phase, failures, overdue, calling, recording, sweep, rejected, faults>>
  BY DEF LoadChain, jobs
<1> HIDE DEF loaded
<1>3. \A v \in ChainUser : user'[v] = IF v = u THEN loaded ELSE user[v]
  BY <1>2, InvParts DEF TypeOK
<1>4. TypeOK' /\ InHand' /\ RecordingsFit'
  BY <1>1, <1>2, InvParts DEF TypeOK, InHand, RecordingsFit, LastAttempt
<1>5. NewReads
  <2>1. /\ \A j \in Job : recording'[j] = recording[j]
        /\ sweep' = sweep
    BY <1>2
  <2>2. ASSUME NEW v \in ChainUser
        PROVE  \/ user'[v] = user[v]
               \/ chain' = chain /\ user'[v].seen = chain /\ AllowsChain(user'[v].op, chain)
    <3>1. CASE v = u
      <4>1. user'[v] = loaded
        BY <1>3, <3>1
      <4>2. user'[v].op = op /\ user'[v].seen = chain
        BY <1>1, <4>1
      <4> QED
        BY <1>2, <4>2
    <3>2. CASE v # u
      BY <1>3, <3>2
    <3> QED
      BY <3>1, <3>2
  <2> QED
    BY <2>1, <2>2 DEF NewReads
<1>6. StaysPut
  BY <1>2 DEF StaysPut
<1> QED
  BY <1>4, <1>5, <1>6, QuietSound

LEMMA IdleTyped == IdleUser \in UserState
BY DEF UserState

LEMMA SaveChainConflictsSound ==
  ASSUME ChainInv, NEW u \in ChainUser, SaveChainConflicts(u)
  PROVE  Sound
<1>1. \A v \in ChainUser : user'[v] = IF v = u THEN IdleUser ELSE user[v]
  BY InvParts DEF SaveChainConflicts, TypeOK
<1>2. TypeOK' /\ InHand' /\ RecordingsFit'
  BY InvParts, IdleTyped
  DEF SaveChainConflicts, jobs, TypeOK, InHand, RecordingsFit, LastAttempt
<1>3. StaysPut /\ NewReads
  BY <1>1 DEF SaveChainConflicts, jobs, StaysPut, NewReads
<1> QED
  BY <1>2, <1>3, QuietSound

LEMMA SaveChainSound ==
  ASSUME ChainInv, NEW u \in ChainUser, SaveChain(u)
  PROVE  Sound
<1>1. ChainMoves
  BY SaveChainMoves DEF ChainMoves
<1>2. /\ user' = [user EXCEPT ![u] = IdleUser]
      /\ UNCHANGED <<plan, phase, failures, overdue, calling, recording, sweep, rejected, faults>>
  BY DEF SaveChain, jobs
<1>3. \A v \in ChainUser : user'[v] = IF v = u THEN IdleUser ELSE user[v]
  BY <1>2, InvParts DEF TypeOK
<1>4. chain' \in Chain
  BY <1>1, VersionGrows
<1>5. TypeOK' /\ InHand' /\ RecordingsFit'
  BY <1>2, <1>4, InvParts, IdleTyped DEF TypeOK, InHand, RecordingsFit, LastAttempt
<1>6. NewReads /\ \A j \in Job : TaskMoves(j)
  BY <1>2, <1>3 DEF NewReads, TaskMoves
<1> QED
  BY <1>1, <1>2, <1>5, <1>6, SoundStep

-----------------------------------------------------------------------------
(* The steps that move tasks.                                              *)

LEMMA CreateSound ==
  ASSUME ChainInv, CreateJobChain
  PROVE  Sound
<1>1. /\ chain' = Start(NewChain, 0) /\ chain.status = "Absent"
      /\ phase' = [phase EXCEPT ![0] = "waiting"]
      /\ UNCHANGED <<plan, failures, overdue, calling, recording, sweep, user, rejected, faults>>
  BY DEF CreateJobChain
<1>2. 0 \in Step /\ 0 \in Job /\ phase[0] = "unknown"
  BY <1>1, JobFacts DEF ChainInv, ChainOK
<1>3. \A j \in Job : phase'[j] = IF j = 0 THEN "waiting" ELSE phase[j]
  BY <1>1, <1>2, InvParts DEF TypeOK
<1>4. chain' = [status |-> "Active", index |-> 0, current |-> 0, version |-> 1]
  BY <1>1 DEF Start, NewChain
<1>5. ChainMoves /\ \A j \in Job : TaskMoves(j)
  BY <1>1, <1>2, <1>3, <1>4, JobFacts DEF ChainMoves, Creates, StepsRestBut, TaskMoves
<1>6. chain' \in Chain
  BY <1>5, VersionGrows
<1>7. TypeOK'
  BY <1>1, <1>6, InvParts DEF TypeOK, Phase
<1>8. InHand' /\ RecordingsFit'
  BY <1>1, <1>2, <1>3, InvParts DEF InHand, RecordingsFit, LastAttempt
<1>9. NewReads
  BY <1>1 DEF NewReads
<1> QED
  BY <1>1, <1>5, <1>7, <1>8, <1>9, SoundStep

LEMMA CreateBystanderSound ==
  ASSUME ChainInv, NEW j \in Bystander, CreateBystander(j)
  PROVE  Sound
<1>1. j \in Job /\ j \notin Step
  BY ChainAssumption DEF Job
<1>2. \A i \in Job : phase'[i] = IF i = j THEN "waiting" ELSE phase[i]
  BY <1>1, InvParts DEF CreateBystander, TypeOK
<1>3. ChainMoves /\ \A i \in Job : TaskMoves(i)
  BY <1>1, <1>2, JobFacts
  DEF CreateBystander, ChainMoves, TakesNoNotice, StepsRestBut, TaskMoves
<1>4. TypeOK'
  BY <1>1, InvParts DEF CreateBystander, TypeOK, Phase
<1>5. InHand' /\ RecordingsFit'
  BY <1>1, <1>2, InvParts DEF CreateBystander, InHand, RecordingsFit, LastAttempt
<1>6. NewReads /\ plan' = plan
  BY DEF CreateBystander, NewReads
<1> QED
  BY <1>3, <1>4, <1>5, <1>6, SoundStep

LEMMA HandOverSound ==
  ASSUME ChainInv, NEW j \in Job, HandOver(j)
  PROVE  Sound
<1>1. Alone(j, "waiting", "handedOver", failures[j])
  BY InvParts DEF HandOver, Alone, TypeOK
<1>2. ChainMoves /\ \A i \in Job : TaskMoves(i)
  BY <1>1, AloneMoves DEF Live
<1>3. \A i \in Job : phase'[i] = IF i = j THEN "handedOver" ELSE phase[i]
  BY InvParts DEF HandOver, TypeOK
<1>4. TypeOK'
  BY InvParts DEF HandOver, TypeOK, Phase
<1>5. InHand' /\ RecordingsFit'
  BY <1>3, InvParts DEF HandOver, InHand, RecordingsFit, LastAttempt
<1>6. NewReads /\ plan' = plan
  BY DEF HandOver, NewReads
<1> QED
  BY <1>2, <1>4, <1>5, <1>6, SoundStep

LEMMA CaptureSound ==
  ASSUME ChainInv, NEW j \in Job, Capture(j)
  PROVE  Sound
<1>1. Alone(j, "handedOver", "running", failures[j])
  BY InvParts DEF Capture, Alone, TypeOK
<1>2. ChainMoves /\ \A i \in Job : TaskMoves(i)
  BY <1>1, AloneMoves DEF Live
<1>3. \A i \in Job : phase'[i] = IF i = j THEN "running" ELSE phase[i]
  BY InvParts DEF Capture, TypeOK
<1>4. TypeOK'
  BY InvParts DEF Capture, TypeOK, Phase
<1>5. InHand' /\ RecordingsFit'
  BY <1>3, InvParts DEF Capture, InHand, RecordingsFit, LastAttempt
<1>6. NewReads /\ plan' = plan
  BY DEF Capture, NewReads
<1> QED
  BY <1>2, <1>4, <1>5, <1>6, SoundStep

\* A failed attempt that is not the last one.
LEMMA RecordRetrySound ==
  ASSUME ChainInv, NEW j \in Job, RecordRetry(j)
  PROVE  Sound
<1>1. /\ phase[j] = "running" /\ recording[j] = NoRecording /\ j \notin sweep.jobs
      /\ failures[j] \in Int
  BY InvParts DEF RecordRetry, CanRecord, Locked, InHand, TypeOK
<1>2. failures[j] + 1 < MaxFailures
  BY <1>1, JobFacts DEF RecordRetry, LastAttempt
<1>3. Alone(j, "running", "waiting", failures[j] + 1)
  BY <1>1 DEF RecordRetry, Alone
<1>4. ChainMoves /\ \A i \in Job : TaskMoves(i)
  BY <1>2, <1>3, AloneMoves DEF Live
<1>5. \A i \in Job : /\ phase'[i] = IF i = j THEN "waiting" ELSE phase[i]
                     /\ i # j => failures'[i] = failures[i]
  BY InvParts DEF RecordRetry, TypeOK
<1>6. failures' \in [Job -> 0..MaxFailures]
  <2>1. failures[j] + 1 \in 0..MaxFailures
    BY <1>1, <1>2, JobFacts, InvParts DEF TypeOK
  <2> QED
    BY <2>1, InvParts DEF RecordRetry, TypeOK
<1>7. TypeOK'
  BY <1>6, InvParts DEF RecordRetry, TypeOK, Phase
<1>8. InHand' /\ RecordingsFit'
  BY <1>1, <1>5, InvParts DEF RecordRetry, InHand, RecordingsFit, LastAttempt
<1>9. NewReads /\ plan' = plan
  BY DEF RecordRetry, NewReads
<1> QED
  BY <1>4, <1>7, <1>8, <1>9, SoundStep

\* A user's request on a task.
LEMMA UserMovesSound ==
  ASSUME ChainInv, NEW j \in Job, PauseTask(j) \/ ResumeTask(j) \/ CancelTask(j)
  PROVE  Sound
<1>1. PICK from \in SUBSET Phase, to \in Phase :
        UserMoves(j, from, to) /\ to # "running" /\ "unknown" \notin from
  BY DEF PauseTask, ResumeTask, CancelTask, Phase, Over
<1>2. ChainMoves /\ \A i \in Job : TaskMoves(i)
  <2>1. CASE PauseTask(j)
    <3>1. Alone(j, "waiting", "suspended", failures[j])
      BY <2>1, InvParts DEF PauseTask, UserMoves, Alone, TypeOK
    <3> QED
      BY <3>1, AloneMoves DEF Live
  <2>2. CASE ResumeTask(j)
    <3>1. Alone(j, "suspended", "waiting", failures[j])
      BY <2>2, InvParts DEF ResumeTask, UserMoves, Alone, TypeOK
    <3> QED
      BY <3>1, AloneMoves DEF Live
  <2>3. CASE CancelTask(j)
    <3>1. phase[j] \in Live
      BY <2>3, InvParts DEF CancelTask, UserMoves, Phase, Over, Live
    <3>2. Alone(j, phase[j], "cancelled", failures[j])
      BY <2>3, InvParts DEF CancelTask, UserMoves, Alone, TypeOK
    <3> QED
      BY <3>1, <3>2, AloneMoves
  <2> QED
    BY <2>1, <2>2, <2>3
<1>3. \A i \in Job : phase'[i] = IF i = j THEN to ELSE phase[i]
  BY <1>1, InvParts DEF UserMoves, TypeOK
<1>4. TypeOK'
  BY <1>1, InvParts DEF UserMoves, TypeOK
<1>5. recording[j] = NoRecording /\ j \notin sweep.jobs
  BY <1>1 DEF UserMoves, Locked
<1>6. InHand' /\ RecordingsFit'
  BY <1>1, <1>3, <1>5, InvParts DEF UserMoves, InHand, RecordingsFit, LastAttempt
<1>7. NewReads /\ plan' = plan
  BY <1>1 DEF UserMoves, NewReads
<1> QED
  BY <1>2, <1>4, <1>6, <1>7, SoundStep

\* The worker's and the heartbeat's transactions commit.
LEMMA CommitRecordingSound ==
  ASSUME ChainInv, NEW j \in Job, CommitRecording(j)
  PROVE  Sound
<1> DEFINE begin == RecordReaction(j).begin
<1>1. ChainMoves /\ \A i \in Job : TaskMoves(i)
  BY CommitRecordingMoves
<1>2. /\ recording[j] # NoRecording /\ j \notin sweep.jobs
      /\ overdue' = overdue \ {j} /\ calling' = calling \ {j}
      /\ recording' = [recording EXCEPT ![j] = NoRecording]
      /\ UNCHANGED <<plan, sweep, user, rejected, faults>>
  BY InvParts DEF CommitRecording, RecordingsFit
<1>3. /\ phase' \in [Job -> Phase]
      /\ \A i \in Job : i # j /\ phase[i] = "running" =>
           phase'[i] = "running" /\ failures'[i] = failures[i]
  <2>1. /\ phase' = Moved({j}, [i \in {j} |-> IF recording[j].outcome = "success"
                                              THEN "succeeded" ELSE "dead"], begin)
        /\ failures' = [failures EXCEPT ![j] = IF recording[j].outcome = "success"
                                               THEN @ ELSE @ + 1]
    BY DEF CommitRecording
  <2>2. phase' \in [Job -> Phase]
    BY <2>1, InvParts DEF Moved, TypeOK, Phase
  <2>3. ASSUME NEW i \in Job, i # j, phase[i] = "running"
        PROVE  phase'[i] = "running" /\ failures'[i] = failures[i]
    <3>1. failures'[i] = failures[i]
      BY <2>1, <2>3, InvParts DEF TypeOK
    <3>2. phase'[i] = "running" \/ phase'[i] = "waiting"
      BY <2>1, <2>3 DEF Moved
    <3>3. TaskMoves(i) /\ failures[i] \in Int
      BY <1>1, InvParts DEF TypeOK
    <3> QED
      BY <2>3, <3>1, <3>2, <3>3 DEF TaskMoves, Live
  <2> QED
    BY <2>2, <2>3
<1>4. failures' \in [Job -> 0..MaxFailures]
  <2>1. failures' = [failures EXCEPT ![j] = failures'[j]]
    BY InvParts DEF CommitRecording, TypeOK
  <2>2. TaskMoves(j) /\ failures[j] \in 0..MaxFailures
    BY <1>1, InvParts DEF TypeOK
  <2>3. failures'[j] \in 0..MaxFailures
    BY <2>2, JobFacts DEF TaskMoves
  <2> QED
    BY <2>1, <2>3, InvParts DEF TypeOK
<1>5. \A i \in Job : recording'[i] = IF i = j THEN NoRecording ELSE recording[i]
  BY <1>2, InvParts DEF TypeOK
<1>6. TypeOK'
  <2>1. chain' \in Chain /\ NoRecording \in Recording
    BY <1>1, VersionGrows DEF Recording
  <2> QED
    BY <1>2, <1>3, <1>4, <2>1, InvParts DEF TypeOK
<1>7. InHand'
  BY <1>2, <1>3, InvParts DEF InHand
<1>8. RecordingsFit'
  BY <1>2, <1>3, <1>5, InvParts DEF RecordingsFit, LastAttempt
<1>9. NewReads
  BY <1>2, <1>5 DEF NewReads
<1> QED
  BY <1>1, <1>2, <1>6, <1>7, <1>8, <1>9, SoundStep

LEMMA CommitSweepSound ==
  ASSUME ChainInv, CommitSweep
  PROVE  Sound
<1> DEFINE S == sweep.jobs
           begin == SweepReaction.begin
<1>1. ChainMoves /\ \A i \in Job : TaskMoves(i)
  BY CommitSweepMoves
<1>2. /\ overdue' = overdue \ S /\ calling' = calling \ S /\ sweep' = NoSweep
      /\ UNCHANGED <<plan, recording, user, rejected, faults>>
  BY DEF CommitSweep
<1>3. NoSweep \in Sweep /\ NoSweep.jobs = {}
  BY DEF NoSweep, Sweep, AbsentChain, Chain
<1>4. /\ phase' = [i \in Job |-> IF i \in S THEN IF LastAttempt(i) THEN "dead" ELSE "waiting"
                                 ELSE IF i = begin THEN "waiting" ELSE phase[i]]
      /\ failures' = [i \in Job |-> IF i \in S THEN failures[i] + 1 ELSE failures[i]]
  BY InvParts DEF CommitSweep, Moved
<1>5. phase' \in [Job -> Phase]
  BY <1>4, InvParts DEF TypeOK, Phase
<1>6. failures' \in [Job -> 0..MaxFailures]
  <2>1. ASSUME NEW i \in Job PROVE failures'[i] \in 0..MaxFailures
    <3>1. TaskMoves(i) /\ failures[i] \in 0..MaxFailures
      BY <1>1, InvParts DEF TypeOK
    <3> QED
      BY <3>1, JobFacts DEF TaskMoves
  <2> QED
    BY <1>4, <2>1
<1>7. \A i \in Job \ S : phase[i] = "running" =>
        phase'[i] = "running" /\ failures'[i] = failures[i]
  <2>1. ASSUME NEW i \in Job \ S, phase[i] = "running"
        PROVE  phase'[i] = "running" /\ failures'[i] = failures[i]
    <3>1. failures'[i] = failures[i] /\ (phase'[i] = "running" \/ phase'[i] = "waiting")
      BY <1>4, <2>1
    <3>2. TaskMoves(i) /\ failures[i] \in Int
      BY <1>1, InvParts DEF TypeOK
    <3> QED
      BY <2>1, <3>1, <3>2 DEF TaskMoves, Live
  <2> QED
    BY <2>1
<1>8. TypeOK'
  <2>1. chain' \in Chain
    BY <1>1, VersionGrows
  <2> QED
    BY <1>2, <1>3, <1>5, <1>6, <2>1, InvParts DEF TypeOK
<1>9. InHand'
  BY <1>2, <1>3, <1>7, InvParts DEF InHand
<1>10. RecordingsFit'
  BY <1>2, <1>3, <1>7, InvParts DEF RecordingsFit, LastAttempt
<1>11. NewReads
  BY <1>2 DEF NewReads
<1> QED
  BY <1>1, <1>2, <1>8, <1>9, <1>10, <1>11, SoundStep

\* One step per action.
LEMMA NextSound ==
  ASSUME ChainInv, [Next]_vars
  PROVE  Sound
<1>0. faults \in 0..MaxFaults
  BY DEF ChainInv, TypeOK
<1>1. CASE UNCHANGED vars
  BY <1>1, StutterSound
<1>2. CASE CreateJobChain
  BY <1>2, CreateSound
<1>3. CASE RejectJobChain
  BY <1>3, RejectSound
<1>4. ASSUME NEW j \in Bystander, CreateBystander(j)
      PROVE  Sound
  BY <1>4, CreateBystanderSound
<1>5. ASSUME NEW j \in Job, JobStep(j)
      PROVE  Sound
  <2>1. CASE HandOver(j)
    BY <2>1, HandOverSound
  <2>2. CASE Capture(j)
    BY <2>2, CaptureSound
  <2>3. CASE LockExpires(j)
    BY <2>3, LockExpiresSound
  <2>4. CASE WorkerLost(j)
    BY <2>4, WorkerLostSound
  <2>5. CASE BeginSuccess(j)
    BY <2>5, BeginRecordingSound DEF BeginSuccess
  <2>6. CASE BeginDeath(j)
    BY <2>6, BeginRecordingSound DEF BeginDeath
  <2>7. CASE RecordRetry(j)
    BY <2>7, RecordRetrySound
  <2>8. CASE CommitRecording(j)
    BY <2>8, CommitRecordingSound
  <2>9. CASE RollBackRecording(j)
    BY <1>0, <2>9, DropRecordingSound DEF RollBackRecording
  <2>10. CASE LoseRecording(j)
    BY <2>10, DropRecordingSound, FaultCounted DEF LoseRecording, ChainInv
  <2>11. CASE PauseTask(j) \/ ResumeTask(j) \/ CancelTask(j)
    BY <2>11, UserMovesSound
  <2> QED
    BY <1>5, <2>1, <2>2, <2>3, <2>4, <2>5, <2>6, <2>7, <2>8, <2>9, <2>10, <2>11
    DEF JobStep
<1>6. CASE Heartbeat
  <2>1. CASE BeginSweep
    BY <2>1, BeginSweepSound
  <2>2. CASE CommitSweep
    BY <2>2, CommitSweepSound
  <2>3. CASE RollBackSweep
    BY <1>0, <2>3, DropSweepSound DEF RollBackSweep
  <2>4. CASE LoseSweep
    BY <2>4, DropSweepSound, FaultCounted DEF LoseSweep, ChainInv
  <2> QED
    BY <1>6, <2>1, <2>2, <2>3, <2>4 DEF Heartbeat
<1>7. ASSUME NEW u \in ChainUser, UserStep(u)
      PROVE  Sound
  <2>1. ASSUME NEW op \in ChainOperation, LoadChain(u, op)
        PROVE  Sound
    BY <2>1, LoadChainSound
  <2>2. CASE SaveChain(u)
    BY <2>2, SaveChainSound
  <2>3. CASE SaveChainConflicts(u)
    BY <2>3, SaveChainConflictsSound
  <2> QED
    BY <1>7, <2>1, <2>2, <2>3 DEF UserStep
<1> QED
  BY <1>1, <1>2, <1>3, <1>4, <1>5, <1>6, <1>7 DEF Next

-----------------------------------------------------------------------------
(* What a step of the tasks and the chain keeps.                           *)

\* What a task's moves leave: a recorded end stays, and a task that has been
\* created stays created.
LEMMA EndsStay ==
  ASSUME Sound, NEW i \in Job
  PROVE  /\ phase[i] = "succeeded" => phase'[i] = "succeeded"
         /\ phase[i] = "dead" => phase'[i] = "dead"
         /\ phase[i] # "unknown" => phase'[i] # "unknown"
<1>1. TaskMoves(i)
  BY DEF Sound
<1> QED
  BY <1>1 DEF TaskMoves, Live

\* A task is under way that was under way before, or has just begun.
LEMMA LiveBefore ==
  ASSUME Sound, NEW i \in Job, phase'[i] \in Live
  PROVE  phase[i] \in Live \/ (phase[i] = "unknown" /\ phase'[i] = "waiting")
<1>1. TaskMoves(i)
  BY DEF Sound
<1> QED
  BY <1>1 DEF TaskMoves, Live

LEMMA OneLiveStepKept ==
  ASSUME ChainInv, Sound
  PROVE  \A i, k \in Step : phase'[i] \in Live /\ phase'[k] \in Live => i = k
<1>1. \A i, k \in Step : phase[i] \in Live /\ phase[k] \in Live => i = k
  BY DEF ChainInv, ChainOK
<1>2. CASE Creates
  <2>1. \A i \in Step : phase[i] = "unknown"
    BY <1>2 DEF Creates, ChainInv, ChainOK
  <2> QED
    BY <1>2, <2>1 DEF Creates, StepsRestBut, Live
<1>3. CASE Controls \/ TakesNoNotice
  <2>1. \A i \in Step : phase'[i] \in Live => phase[i] \in Live
    BY <1>3 DEF Controls, TakesNoNotice, StepsRestBut
  <2> QED
    BY <1>1, <2>1
<1>4. ASSUME NEW j \in Step, NEW outcome \in {"success", "death"},
             NEW begun \in Step \cup {NoTask}, TakesTurn(j, outcome, begun)
      PROVE  \A i \in Step : phase'[i] \in Live => i = begun
  <2>1. phase[j] \in Live /\ phase'[j] \notin Live
    BY <1>4 DEF TakesTurn, Live
  <2> QED
    BY <1>1, <1>4, <2>1 DEF TakesTurn, StepsRestBut
<1> QED
  BY <1>2, <1>3, <1>4 DEF Sound, ChainMoves

LEMMA PointerKept ==
  ASSUME ChainInv, Sound
  PROVE  ChainPointsToItsStep'
<1>1. ChainPointsToItsStep /\ chain.status # "Created"
  BY DEF ChainInv, ChainOK
<1>2. plan' = plan /\ \A i \in Step : /\ phase[i] = "dead" => phase'[i] = "dead"
                                      /\ phase[i] # "unknown" => phase'[i] # "unknown"
  BY EndsStay, JobFacts DEF Sound
<1>3. CASE Creates
  <2>1. 0 \in Step /\ phase'[0] # "unknown"
    BY <1>3, JobFacts DEF Creates
  <2>2. chain'.status = "Active" /\ chain'.index = 0 /\ chain'.current = 0
    BY <1>3 DEF Creates
  <2> QED
    BY <2>1, <2>2 DEF ChainPointsToItsStep
<1>4. CASE Controls
  BY <1>1, <1>2, <1>4 DEF Controls, ChainPointsToItsStep
<1>5. CASE TakesNoNotice
  BY <1>1, <1>2, <1>5 DEF TakesNoNotice, ChainPointsToItsStep
<1>6. ASSUME NEW j \in Step, NEW outcome \in {"success", "death"},
             NEW begun \in Step \cup {NoTask}, TakesTurn(j, outcome, begun)
      PROVE  ChainPointsToItsStep'
  <2>1. Turn(j, outcome, chain', begun)
    BY <1>6 DEF TakesTurn
  <2>2. CASE begun = NoTask
    <3>1. chain'.status \in {"Cancelled", "Failed"} /\ chain'.current = NoTask
      BY <2>1, <2>2, JobFacts DEF Turn
    <3> QED
      BY <3>1 DEF ChainPointsToItsStep
  <2>3. CASE begun \in Step
    <3>1. /\ chain'.status = "Active" /\ chain'.index = begun
          /\ \/ chain'.current = begun
             \/ /\ outcome = "death" /\ plan[j].onFailure = "SkipToNext"
                /\ begun = j + 1 /\ chain'.current = j
      BY <2>1, <2>3, JobFacts DEF Turn
    <3>2. phase'[begun] = "waiting" /\ (outcome = "death" => phase'[j] = "dead")
      BY <1>6, <2>3 DEF TakesTurn
    <3> QED
      BY <1>2, <2>3, <3>1, <3>2 DEF ChainPointsToItsStep
  <2> QED
    BY <2>2, <2>3
<1> QED
  BY <1>3, <1>4, <1>5, <1>6 DEF Sound, ChainMoves

LEMMA ChainOKKept ==
  ASSUME ChainInv, Sound
  PROVE  ChainOK'
<1>1. chain.status # "Created"
  BY DEF ChainInv, ChainOK
<1>2. /\ chain'.status # "Created"
      /\ chain'.status = "Absent" => chain' = chain /\ TakesNoNotice
  <2>1. CASE Creates
    BY <2>1 DEF Creates
  <2>2. CASE Controls
    BY <2>2 DEF Controls
  <2>3. CASE TakesNoNotice
    BY <1>1, <2>3 DEF TakesNoNotice
  <2>4. ASSUME NEW j \in Step, NEW outcome \in {"success", "death"},
               NEW begun \in Step \cup {NoTask}, TakesTurn(j, outcome, begun)
        PROVE  chain'.status \notin {"Created", "Absent"}
    BY <2>4 DEF TakesTurn, Turn
  <2> QED
    BY <2>1, <2>2, <2>3, <2>4 DEF Sound, ChainMoves
<1>3. chain'.status = "Absent" =>
        chain'.version = 0 /\ \A i \in Step : phase'[i] = "unknown"
  <2> SUFFICES ASSUME chain'.status = "Absent"
               PROVE  chain'.version = 0 /\ \A i \in Step : phase'[i] = "unknown"
    OBVIOUS
  <2>1. /\ chain' = chain /\ TakesNoNotice /\ chain.version = 0
        /\ \A i \in Step : phase[i] = "unknown"
    BY <1>2 DEF ChainInv, ChainOK
  <2> QED
    BY <2>1 DEF TakesNoNotice, StepsRestBut, Live
<1> QED
  BY <1>2, <1>3, OneLiveStepKept, PointerKept DEF ChainOK

LEMMA CausesStay ==
  ASSUME Sound, NEW p \in Step, NEW i, Causes(p, i)
  PROVE  Causes(p, i)'
<1>1. plan' = plan
  BY DEF Sound
<1>2. /\ phase[p] = "succeeded" => phase'[p] = "succeeded"
      /\ phase[p] = "dead" => phase'[p] = "dead"
  BY EndsStay, JobFacts
<1> QED
  BY <1>1, <1>2 DEF Causes, Advances

LEMMA CausesKept ==
  ASSUME ChainInv, Sound
  PROVE  StepsHaveCause'
<1> SUFFICES ASSUME NEW i \in Step \ {0}, phase'[i] # "unknown"
             PROVE  \E p \in Step \ {i} : Causes(p, i)'
  BY DEF StepsHaveCause
<1>1. CASE phase[i] # "unknown"
  <2>1. PICK p \in Step \ {i} : Causes(p, i)
    BY <1>1 DEF ChainInv, StepsHaveCause
  <2> QED
    BY <2>1, CausesStay
<1>2. CASE phase[i] = "unknown"
  <2>1. ~Creates /\ ~Controls /\ ~TakesNoNotice
    BY <1>2 DEF Creates, Controls, TakesNoNotice, StepsRestBut, Live
  <2>2. PICK j \in Step, outcome \in {"success", "death"}, begun \in Step \cup {NoTask} :
          TakesTurn(j, outcome, begun)
    BY <2>1 DEF Sound, ChainMoves
  <2>3. i = begun /\ i # j
    BY <1>2, <2>2 DEF TakesTurn, StepsRestBut
  <2>4. Turn(j, outcome, chain', i) /\ i # NoTask
    BY <2>2, <2>3, JobFacts DEF TakesTurn
  <2>5. phase'[j] = IF outcome = "success" THEN "succeeded" ELSE "dead"
    BY <2>2 DEF TakesTurn
  <2>6. plan' = plan
    BY DEF Sound
  <2>7. Causes(j, i)'
    BY <2>4, <2>5, <2>6 DEF Turn, Causes, Advances
  <2> QED
    BY <2>3, <2>7
<1> QED
  BY <1>1, <1>2

LEMMA EndCauseKept ==
  ASSUME ChainInv, Sound
  PROVE  EndHasCause'
<1>1. plan' = plan /\ \A i \in Step : /\ phase[i] = "dead" => phase'[i] = "dead"
                                      /\ phase[i] = "succeeded" => phase'[i] = "succeeded"
  BY EndsStay, JobFacts DEF Sound
<1>2. CASE chain' = chain
  BY <1>1, <1>2 DEF ChainInv, EndHasCause, Advances
<1>3. CASE Creates
  BY <1>3 DEF Creates, EndHasCause
<1>4. CASE Controls
  BY <1>4 DEF Controls, EndHasCause
<1>5. ASSUME NEW j \in Step, NEW outcome \in {"success", "death"},
             NEW begun \in Step \cup {NoTask}, TakesTurn(j, outcome, begun)
      PROVE  EndHasCause'
  <2>1. /\ Turn(j, outcome, chain', begun)
        /\ phase'[j] = IF outcome = "success" THEN "succeeded" ELSE "dead"
    BY <1>5 DEF TakesTurn
  <2> QED
    BY <1>1, <2>1 DEF Turn, EndHasCause, Advances
<1> QED
  BY <1>2, <1>3, <1>4, <1>5 DEF Sound, ChainMoves, TakesNoNotice

-----------------------------------------------------------------------------
(* The theorems.                                                           *)

LEMMA InitChainInv == Init => ChainInv
<1> SUFFICES ASSUME Init PROVE ChainInv
  OBVIOUS
<1>1. AbsentChain \in Chain
  BY DEF AbsentChain, Chain
<1>2. TypeOK
  <2>1. NoRecording \in Recording /\ NoSweep \in Sweep /\ IdleUser \in UserState
    BY <1>1 DEF Recording, NoSweep, Sweep, UserState
  <2>2. /\ 0 \in 0..MaxFailures /\ 0 \in 0..MaxFaults /\ "unknown" \in Phase
    BY ChainAssumption DEF Phase
  <2> QED
    BY <1>1, <2>1, <2>2 DEF Init, TypeOK
<1>3. /\ chain.status = "Absent" /\ chain.version = 0 /\ chain.current = NoTask
      /\ \A j \in Job : phase[j] = "unknown" /\ failures[j] = 0 /\ recording[j] = NoRecording
      /\ calling = {} /\ overdue = {} /\ sweep.jobs = {}
      /\ \A u \in ChainUser : user[u].op = "none"
  BY DEF Init, AbsentChain, NoSweep, IdleUser
<1>4. JobsOK
  BY <1>3, JobFacts DEF JobsOK, InHand, RecordingsFit
<1>5. ReadsOK
  BY <1>3 DEF ReadsOK
<1>6. ChainOK
  BY <1>3, JobFacts DEF ChainOK, ChainPointsToItsStep, Live
<1>7. StepsHaveCause /\ EndHasCause
  BY <1>3, JobFacts DEF StepsHaveCause, EndHasCause
<1> QED
  BY <1>2, <1>4, <1>5, <1>6, <1>7 DEF ChainInv

LEMMA NextChainInv == ChainInv /\ [Next]_vars => ChainInv'
<1> SUFFICES ASSUME ChainInv, [Next]_vars PROVE ChainInv'
  OBVIOUS
<1>1. Sound
  BY NextSound
<1> QED
  BY <1>1, ChainOKKept, CausesKept, EndCauseKept DEF ChainInv, Sound

THEOREM ChainInvariant == Spec => []ChainInv
<1> QED
  BY InitChainInv, NextChainInv, PTL DEF Spec

\* The rows, the transactions and the requests are what they are declared to be;
\* in particular no task fails more often than RetryPolicy.MaxAttempts.
THEOREM ChainTypeCorrect == Spec => []TypeOK
<1>1. ChainInv => TypeOK
  BY DEF ChainInv
<1> QED
  BY <1>1, ChainInvariant, PTL

\* A chain that goes on points to the task of its current step, or, after
\* SkipToNext, to the dead task before it; an ended chain points to none.
THEOREM PointerFollowsStep == Spec => []ChainPointsToItsStep
<1>1. ChainInv => ChainPointsToItsStep
  BY DEF ChainInv, ChainOK
<1> QED
  BY <1>1, ChainInvariant, PTL

\* No step but the first begins without the recorded end of a step that makes
\* the plan begin it, whichever transactions are lost, rolled back or overtaken.
THEOREM NoStepWithoutCause == Spec => []StepsHaveCause
<1>1. ChainInv => StepsHaveCause
  BY DEF ChainInv
<1> QED
  BY <1>1, ChainInvariant, PTL

\* A chain fails only by a step that died for good, and is cancelled only by a
\* user or a step's condition.
THEOREM NoEndWithoutCause == Spec => []EndHasCause
<1>1. ChainInv => EndHasCause
  BY DEF ChainInv
<1> QED
  BY <1>1, ChainInvariant, PTL

-----------------------------------------------------------------------------
(* What becomes of the end of a step.  A transaction that ends the chain's *)
(* current task has read it as the chain's current task: while a task is   *)
(* running the chain may be paused, resumed or ended, but is never led to  *)
(* the task from elsewhere.  So its handler finds the chain at that step,  *)
(* and goes by unless the chain was paused when it was read.               *)

Follows(j, seen) ==
  /\ chain.current = j => seen.current = j
  /\ seen.current = j => seen.status \in {"Active", "Paused"}

ReadsFollow ==
  /\ \A j \in Step : recording[j] # NoRecording => Follows(j, recording[j].seen)
  /\ \A j \in Step : j \in sweep.jobs => Follows(j, sweep.seen)

\* The handlers hear of the end of the current task of an active chain.
LEMMA ReactionHeard ==
  ASSUME TypeOK, ChainPointsToItsStep,
         NEW j \in Step, phase[j] = "running", NEW outcome \in {"success", "death"},
         chain.status = "Active", chain.current = j,
         Passes(ReactionTo(j, outcome, chain), chain)
  PROVE  Saved(ReactionTo(j, outcome, chain)) # chain
<1> DEFINE r == ReactionTo(j, outcome, chain)
<1>1. Concerns(chain, j)
  BY DEF Concerns
<1>2. r.verdict # "ignore"
  BY <1>1 DEF ReactionTo, OnTaskCompleted, OnTaskMovedToDlq, Thrown, Saving
<1>3. r.verdict = "save" /\ KeyIsFree(r.begin) /\ Saved(r) = SavedChain(r.chain)
  BY <1>2 DEF Passes, Saved
<1>4. Turn(j, outcome, SavedChain(r.chain), r.begin)
  <2>1. CASE outcome = "success"
    <3>1. r = OnTaskCompleted(plan, chain, j)
      BY <2>1 DEF ReactionTo
    <3> QED
      BY <1>3, <2>1, <3>1, CompletionSaved
  <2>2. CASE outcome = "death"
    <3>1. r = OnTaskMovedToDlq(plan, chain, j)
      BY <2>2 DEF ReactionTo
    <3> QED
      BY <1>3, <2>2, <3>1, FailureSaved
  <2> QED
    BY <2>1, <2>2
<1>5. SavedChain(r.chain).version = chain.version + 1 /\ chain.version \in Nat
  BY <1>4 DEF Turn, TypeOK, Chain
<1> HIDE DEF r
<1>6. Saved(r).version # chain.version
  BY <1>3, <1>5
<1>7. Saved(r) # chain
  BY <1>6
<1> QED
  BY <1>7 DEF r

\* A handler that finds the chain active at its task goes on or throws.
LEMMA ActiveIsHeard ==
  ASSUME TypeOK, ChainPointsToItsStep,
         NEW j \in Step, phase[j] = "running", NEW outcome \in {"success", "death"},
         NEW seen, ReadBefore(seen), seen.status = "Active", seen.current = j,
         Passes(ReactionTo(j, outcome, seen), seen)
  PROVE  Saved(ReactionTo(j, outcome, seen)) # chain
<1>1. Concerns(seen, j)
  BY DEF Concerns
<1>2. ReactionTo(j, outcome, seen).verdict # "ignore"
  BY <1>1 DEF ReactionTo, OnTaskCompleted, OnTaskMovedToDlq, Thrown, Saving
<1>3. seen.version = chain.version
  BY <1>2 DEF Passes
<1>4. seen = chain
  BY <1>3 DEF ReadBefore
<1> QED
  BY <1>4, ReactionHeard

\* The transactions that end a task otherwise than by cancelling it.
LEMMA EndedBy ==
  ASSUME ChainInv, [Next]_vars, NEW i \in Step,
         phase[i] \notin Over, phase'[i] \in {"succeeded", "dead"}
  PROVE  \/ CommitRecording(i)
         \/ CommitSweep /\ i \in sweep.jobs /\ LastAttempt(i)
<1>0. TypeOK /\ i \in Job
  BY JobFacts DEF ChainInv
<1> DEFINE ThisWay == \/ CommitRecording(i)
                      \/ CommitSweep /\ i \in sweep.jobs /\ LastAttempt(i)
<1>1. ASSUME NEW j \in Job, CommitRecording(j)
      PROVE  ThisWay
  <2>1. i # j => phase'[i] \in {"waiting", phase[i]}
    BY <1>0, <1>1 DEF CommitRecording, Moved
  <2> QED
    BY <1>1, <2>1 DEF Over
<1>2. CASE CommitSweep
  <2>1. phase'[i] = IF i \in sweep.jobs THEN IF LastAttempt(i) THEN "dead" ELSE "waiting"
                    ELSE IF i = SweepReaction.begin THEN "waiting" ELSE phase[i]
    BY <1>0, <1>2 DEF CommitSweep, Moved
  <2> QED
    BY <1>2, <2>1 DEF Over
<1>3. ASSUME NEW j \in Job, NEW p \in Live \cup {"cancelled"}, phase' = [phase EXCEPT ![j] = p]
      PROVE  FALSE
  BY <1>0, <1>3 DEF TypeOK, Live, Over
<1>4. ASSUME phase' = phase
      PROVE  FALSE
  BY <1>4 DEF Over
<1>5. ASSUME NEW j \in Job, JobStep(j)
      PROVE  ThisWay
  <2>1. ~CommitRecording(j) => \/ phase' = phase
                               \/ \E p \in Live \cup {"cancelled"} :
                                    phase' = [phase EXCEPT ![j] = p]
    BY <1>5 DEF JobStep, HandOver, Capture, LockExpires, WorkerLost, BeginSuccess, BeginDeath,
                BeginRecording, RecordRetry, RollBackRecording, LoseRecording, DropRecording,
                PauseTask, ResumeTask, CancelTask, UserMoves, jobs, Live
  <2> QED
    BY <1>1, <1>3, <1>4, <2>1
<1>6. ASSUME NEW j \in Bystander, CreateBystander(j)
      PROVE  FALSE
  BY <1>3, <1>6 DEF CreateBystander, Job, Live
<1>7. CASE CreateJobChain
  <2>1. 0 \in Job
    BY JobFacts
  <2> QED
    BY <1>3, <1>7, <2>1 DEF CreateJobChain, Live
<1>8. CASE RejectJobChain \/ BeginSweep \/ RollBackSweep \/ LoseSweep \/ UNCHANGED vars
  <2>1. phase' = phase
    BY <1>8 DEF RejectJobChain, BeginSweep, RollBackSweep, LoseSweep, vars, jobs
  <2> QED
    BY <1>4, <2>1
<1>9. ASSUME NEW u \in ChainUser, UserStep(u)
      PROVE  FALSE
  <2>1. phase' = phase
    BY <1>9 DEF UserStep, LoadChain, SaveChain, SaveChainConflicts, jobs
  <2> QED
    BY <1>4, <2>1
<1> QED
  BY <1>2, <1>5, <1>6, <1>7, <1>8, <1>9 DEF Next, Heartbeat

\* A step that ends while the chain stays as it is, active and at that step.
LEMMA UnheardWhilePaused ==
  ASSUME ChainInv, ReadsFollow, [Next]_vars, chain' = chain,
         NEW i \in Step, chain.status = "Active", chain.current = i,
         phase[i] \notin Over, phase'[i] \in {"succeeded", "dead"}
  PROVE  \/ recording[i].seen.status = "Paused"
         \/ i \in sweep.jobs /\ sweep.seen.status = "Paused"
<1>0. TypeOK /\ ChainPointsToItsStep /\ i \in Job
  BY JobFacts DEF ChainInv, ChainOK
<1>1. CASE CommitRecording(i)
  <2> DEFINE seen == recording[i].seen
             outcome == recording[i].outcome
  <2>1. /\ recording[i] # NoRecording
        /\ chain' = Saved(ReactionTo(i, outcome, seen))
        /\ Passes(ReactionTo(i, outcome, seen), seen)
    BY <1>1 DEF CommitRecording, RecordReaction
  <2>2. outcome \in {"success", "death"} /\ phase[i] = "running" /\ ReadBefore(seen)
    BY <1>0, <2>1, RecordingFacts, InvParts DEF RecordingsFit, ChainInv, ReadsOK
  <2>3. seen.current = i /\ seen.status \in {"Active", "Paused"}
    BY <2>1 DEF ReadsFollow, Follows
  <2> HIDE DEF seen, outcome
  <2>4. seen.status # "Active"
    BY <1>0, <2>1, <2>2, <2>3, ActiveIsHeard
  <2> QED
    BY <2>3, <2>4 DEF seen
<1>2. CASE CommitSweep /\ i \in sweep.jobs /\ LastAttempt(i)
  <2> DEFINE seen == sweep.seen
  <2>1. seen.current = i /\ seen.status \in {"Active", "Paused"}
    BY <1>2 DEF ReadsFollow, Follows
  <2>2. SweepReaction = ReactionTo(i, "death", seen)
    BY <1>2, <2>1 DEF SweepReaction
  <2>3. /\ chain' = Saved(ReactionTo(i, "death", seen))
        /\ Passes(ReactionTo(i, "death", seen), seen)
    BY <1>2, <2>2 DEF CommitSweep
  <2>4. phase[i] = "running" /\ ReadBefore(seen)
    BY <1>2, InvParts DEF InHand, ChainInv, ReadsOK
  <2> HIDE DEF seen
  <2>5. seen.status # "Active"
    BY <1>0, <2>1, <2>3, <2>4, ActiveIsHeard
  <2> QED
    BY <1>2, <2>1, <2>5 DEF seen
<1> QED
  BY <1>1, <1>2, EndedBy

LEMMA StallCaused ==
  ASSUME ChainInv, ReadsFollow, [Next]_vars, ActiveChainHasLiveStep, ~ActiveChainHasLiveStep'
  PROVE  \/ phase'[chain.index] = "cancelled"
         \/ chain.status = "Paused"
         \/ recording[chain.index].seen.status = "Paused"
         \/ chain.index \in sweep.jobs /\ sweep.seen.status = "Paused"
         \/ chain.current # chain.index
<1>1. Sound
  BY NextSound
<1>2. chain'.status = "Active" /\ phase'[chain'.index] \in Over
  BY DEF ActiveChainHasLiveStep
<1>3. CASE Creates
  BY <1>2, <1>3 DEF Creates, Over
<1>4. CASE Controls
  BY <1>2, <1>4 DEF Controls
<1>5. ASSUME NEW j \in Step, NEW outcome \in {"success", "death"},
             NEW begun \in Step \cup {NoTask}, TakesTurn(j, outcome, begun)
      PROVE  FALSE
  <2>1. begun \in Step /\ chain'.index = begun
    BY <1>2, <1>5, JobFacts DEF TakesTurn, Turn
  <2> QED
    BY <1>2, <1>5, <2>1 DEF TakesTurn, Over
<1>6. CASE TakesNoNotice
  <2> DEFINE i == chain.index
  <2>1. chain' = chain /\ chain.status = "Active" /\ phase[i] \notin Over /\ phase'[i] \in Over
    BY <1>2, <1>6 DEF TakesNoNotice, ActiveChainHasLiveStep
  <2>2. i \in Step
    BY <2>1 DEF ChainInv, ChainOK, ChainPointsToItsStep
  <2>3. phase'[i] \in {"succeeded", "dead", "cancelled"}
    BY <2>1 DEF Over
  <2>4. CASE chain.current = i /\ phase'[i] # "cancelled"
    BY <2>1, <2>2, <2>3, <2>4, UnheardWhilePaused
  <2> QED
    BY <2>4
<1> QED
  BY <1>1, <1>3, <1>4, <1>5, <1>6 DEF Sound, ChainMoves

\* The chain is never led to a task that is running.
LEMMA RunningIsLed ==
  ASSUME ChainInv, [Next]_vars, NEW j \in Step, phase[j] = "running", chain'.current = j
  PROVE  chain.current = j
<1>1. ChainMoves
  BY NextSound DEF Sound
<1>2. j # NoTask
  BY JobFacts
<1>3. ~Creates
  BY DEF Creates, ChainInv, ChainOK
<1>4. CASE Controls
  BY <1>2, <1>4 DEF Controls
<1>5. CASE TakesNoNotice
  BY <1>5 DEF TakesNoNotice
<1>6. ASSUME NEW k \in Step, NEW outcome \in {"success", "death"},
             NEW begun \in Step \cup {NoTask}, TakesTurn(k, outcome, begun)
      PROVE  chain.current = j
  BY <1>2, <1>6 DEF TakesTurn, Turn
<1> QED
  BY <1>1, <1>3, <1>4, <1>5, <1>6 DEF ChainMoves

LEMMA ReadsFollowKept ==
  ASSUME ChainInv, ReadsFollow, [Next]_vars
  PROVE  ReadsFollow'
<1>1. NewReads
  BY NextSound DEF Sound
<1>2. \A j \in Step : chain.current = j => chain.status \in {"Active", "Paused"}
  BY JobFacts DEF ChainInv, ChainOK, ChainPointsToItsStep
<1>3. ASSUME NEW j \in Step, NEW seen, phase[j] = "running", Follows(j, seen)
      PROVE  /\ chain'.current = j => seen.current = j
             /\ seen.current = j => seen.status \in {"Active", "Paused"}
  BY <1>3, RunningIsLed DEF Follows
<1>4. ASSUME NEW j \in Step, recording'[j] # NoRecording
      PROVE  Follows(j, recording[j].seen)'
  <2>1. CASE recording'[j] = recording[j]
    <3>1. phase[j] = "running" /\ Follows(j, recording[j].seen)
      BY <1>4, <2>1, InvParts, JobFacts DEF RecordingsFit, ReadsFollow
    <3> QED
      BY <1>3, <2>1, <3>1 DEF Follows
  <2>2. CASE chain' = chain /\ recording'[j].seen = chain
    BY <1>2, <2>2 DEF Follows
  <2> QED
    BY <1>1, <1>4, <2>1, <2>2, JobFacts DEF NewReads
<1>5. ASSUME NEW j \in Step, j \in sweep'.jobs
      PROVE  Follows(j, sweep.seen)'
  <2>1. CASE sweep' = sweep
    <3>1. phase[j] = "running" /\ Follows(j, sweep.seen)
      BY <1>5, <2>1, InvParts DEF InHand, ReadsFollow
    <3> QED
      BY <1>3, <2>1, <3>1 DEF Follows
  <2>2. CASE chain' = chain /\ sweep'.seen = chain
    BY <1>2, <2>2 DEF Follows
  <2>3. sweep' # NoSweep
    BY <1>5 DEF NoSweep
  <2> QED
    BY <1>1, <2>1, <2>2, <2>3 DEF NewReads
<1> QED
  BY <1>4, <1>5 DEF ReadsFollow

LEMMA InitReadsFollow == Init => ReadsFollow
<1> SUFFICES ASSUME Init PROVE ReadsFollow
  OBVIOUS
<1>1. sweep.jobs = {} /\ \A j \in Job : recording[j] = NoRecording
  BY DEF Init, NoSweep
<1> QED
  BY <1>1, JobFacts DEF ReadsFollow

\* An active chain stalls only by a cancelled task, a pause of the chain or a skipped step,
\* whatever users, workers, transactions and the heartbeat do: the end of a step is handled
\* in the transaction that records it, by a handler whose read is still true or who fails.
THEOREM StallsOnlyByCause == Spec => StallsHaveCause
<1>1. ChainInv /\ ReadsFollow /\ [Next]_vars => ReadsFollow'
  BY ReadsFollowKept
<1>2. ChainInv /\ ReadsFollow /\ [Next]_vars =>
        [ActiveChainHasLiveStep /\ ~ActiveChainHasLiveStep' =>
           \/ phase'[chain.index] = "cancelled"
           \/ chain.status = "Paused"
           \/ recording[chain.index].seen.status = "Paused"
           \/ chain.index \in sweep.jobs /\ sweep.seen.status = "Paused"
           \/ chain.current # chain.index]_vars
  BY StallCaused
<1> QED
  BY <1>1, <1>2, InitReadsFollow, ChainInvariant, PTL DEF Spec, StallsHaveCause
=============================================================================
