---------------------------- MODULE TaskRegistry ----------------------------
(***************************************************************************)
(* The identity of tasks: which row an idempotency key names, and the      *)
(* requests that make rows -- creation, the update that replaces a task by *)
(* a new one, the retry of a dead letter -- or cancel one.  A request      *)
(* reads without a lock, decides, and writes later in its transaction, so  *)
(* other requests and the engine come in between.                          *)
(*                                                                         *)
(* The row a request adds is named after the request: TaskFactory draws a  *)
(* fresh id for each.  What the engine does to a row is reduced to what a  *)
(* request can see of it: its version, and whether and how it has ended.   *)
(***************************************************************************)
EXTENDS Naturals

CONSTANTS
  Request,     \* the requests clients send; one sent again is another request
  Sender,      \* the clients
  Key,         \* idempotency keys
  NoRequest,   \* no request, no task
  MaxVersion   \* bound: the engine moves no open row past this version

ASSUME RegistryAssumption ==
  /\ NoRequest \notin Request
  /\ MaxVersion \in Nat

VARIABLES
  tasks,    \* the table tasks: the row each request added
  dlq,      \* the tasks that have an entry in dead_letter_queue
  request   \* where each request is

vars == <<tasks, dlq, request>>

-----------------------------------------------------------------------------
(* The data.                                                               *)

Final  == {"Completed", "Cancelled", "Dead"}
Absent == [status |-> "absent"]
Row    == [status : {"Open"} \cup Final, sender : Sender, key : Key, version : Nat]
NewRow(s, k) == [status |-> "Open", sender |-> s, key |-> k, version |-> 1]

\* target is the task a request is about, seen the version it read, answer the
\* task whose id it was given.
Unsent  == [pc |-> "unsent"]
Handled == [pc     : {"deciding", "answered", "rejected", "rolledBack", "lost"},
            op     : {"Create", "Update", "Retry", "Cancel"},
            sender : Sender,
            key    : Key,
            target : Request \cup {NoRequest},
            seen   : Nat,
            answer : Request \cup {NoRequest}]

TypeOK ==
  /\ tasks \in [Request -> Row \cup {Absent}]
  /\ dlq \subseteq Request
  /\ request \in [Request -> Handled \cup {Unsent}]

Init ==
  /\ tasks = [r \in Request |-> Absent]
  /\ dlq = {}
  /\ request = [r \in Request |-> Unsent]

Stored == {t \in Request : tasks[t] # Absent}

-----------------------------------------------------------------------------
(* Reading: the request arrives, the handler looks up what it is about and *)
(* may reject it.                                                          *)

Receive(r, pc, op, s, k, t, v, a) ==
  /\ request[r] = Unsent
  /\ request' = [request EXCEPT ![r] = [pc |-> pc, op |-> op, sender |-> s, key |-> k,
                                         target |-> t, seen |-> v, answer |-> a]]
  /\ UNCHANGED <<tasks, dlq>>

\* CreateTask, the key is new.
FindNoTask(r, s, k) ==
  /\ \A t \in Stored : tasks[t].key # k
  /\ Receive(r, "deciding", "Create", s, k, NoRequest, 0, NoRequest)

\* CreateTask, the key is taken: the sender who has it is given the same id again.
FindTask(r, s, k, t) ==
  /\ t \in Stored
  /\ tasks[t].key = k
  /\ IF tasks[t].sender = s
     THEN Receive(r, "answered", "Create", s, k, t, 0, t)
     ELSE Receive(r, "rejected", "Create", s, k, t, 0, NoRequest)

\* UpdateTask and CancelTask load the task; Cancel refuses one that has ended.
LoadTask(r, op, s, k, t) ==
  /\ t \in Stored
  /\ IF tasks[t].sender = s /\ tasks[t].status \notin Final
     THEN Receive(r, "deciding", op, s, k, t, tasks[t].version, NoRequest)
     ELSE Receive(r, "rejected", op, s, k, t, tasks[t].version, NoRequest)

\* RetryFromDlq loads the entry; the snapshot in it has the task's sender and key.
LoadLetter(r, s, t) ==
  /\ t \in dlq
  /\ IF tasks[t].sender = s
     THEN Receive(r, "deciding", "Retry", s, tasks[t].key, t, 0, NoRequest)
     ELSE Receive(r, "rejected", "Retry", s, tasks[t].key, t, 0, NoRequest)

-----------------------------------------------------------------------------
(* Writing.  The statements of a request are one transaction: all of them  *)
(* take effect, or none does and the client is told of an error.           *)

Deciding(r, op) == request[r].pc = "deciding" /\ request[r].op = op

Finish(r, accepted, table, letters, a) ==
  /\ tasks' = IF accepted THEN table ELSE tasks
  /\ dlq' = IF accepted THEN letters ELSE dlq
  /\ request' = [request EXCEPT ![r].pc = IF accepted THEN "answered" ELSE "rolledBack",
                                ![r].answer = IF accepted THEN a ELSE NoRequest]

\* Mutants, each a bug this code could have: no unique index on the key, and an
\* UpdateAsync without its condition on the version.
NoIndex(k) == TRUE
AnyVersion(t, v) == TRUE

\* The unique index on idempotency_key.
UniqueKey(k) == \A t \in Stored : tasks[t].key # k

\* UpdateAsync finds the row at the version the handler read.
AtVersion(t, v) == tasks[t].version = v

\* Mutant: cancelling forgets whose the task was.
CancelledRowOnly(table, t) == [table EXCEPT ![t] = [status |-> "Cancelled"]]

\* A table with the row of request r added, and one with task t cancelled.
Added(r) == [tasks EXCEPT ![r] = NewRow(request[r].sender, request[r].key)]
Cancelled(table, t) ==
  [table EXCEPT ![t].status = "Cancelled", ![t].version = tasks[t].version + 1]

CreateTask(r) ==
  /\ Deciding(r, "Create")
  /\ Finish(r, UniqueKey(request[r].key), Added(r), dlq, r)

\* Mutant: the old task is cancelled in a transaction of its own.
CancelsAlone(r) ==
  LET t == request[r].target
  IN /\ Deciding(r, "Update")
     /\ \/ Finish(r, AtVersion(t, request[r].seen) /\ UniqueKey(request[r].key),
                  Cancelled(Added(r), t), dlq, r)
        \/ /\ AtVersion(t, request[r].seen)
           /\ ~UniqueKey(request[r].key)
           /\ tasks' = Cancelled(tasks, t)
           /\ request' = [request EXCEPT ![r].pc = "rolledBack"]
           /\ UNCHANGED dlq

\* The old task is cancelled and written first; the new one is inserted after it.
UpdateTask(r) ==
  LET t == request[r].target
  IN /\ Deciding(r, "Update")
     /\ Finish(r, AtVersion(t, request[r].seen) /\ UniqueKey(request[r].key),
               Cancelled(Added(r), t), dlq, r)

CancelTask(r) ==
  LET t == request[r].target
  IN /\ Deciding(r, "Cancel")
     /\ Finish(r, AtVersion(t, request[r].seen), Cancelled(tasks, t), dlq, t)

\* Mutant: the entry is deleted, outside the transaction, before the insert.
DeletesFirst(r) ==
  /\ Deciding(r, "Retry")
  /\ request' = [request EXCEPT ![r].pc = "rolledBack"]
  /\ dlq' = dlq \ {request[r].target}
  /\ UNCHANGED tasks

\* The entry is deleted after the insert; deleting one that is gone is no error.
RetryFromDlq(r) ==
  /\ Deciding(r, "Retry")
  /\ Finish(r, UniqueKey(request[r].key), Added(r), dlq \ {request[r].target}, r)

\* The process dies, or the connection is lost, before the commit.
LoseRequest(r) ==
  /\ request[r].pc = "deciding"
  /\ request' = [request EXCEPT ![r].pc = "lost"]
  /\ UNCHANGED <<tasks, dlq>>

-----------------------------------------------------------------------------
(* The engine: a row that has not ended is scheduled, run and retried, and *)
(* completes or dies; the entry is written in the transaction of the death.*)

EngineMoves(t, s) ==
  /\ tasks[t] # Absent
  /\ tasks[t].status = "Open"
  /\ tasks[t].version < MaxVersion
  /\ tasks' = [tasks EXCEPT ![t].status = s, ![t].version = tasks[t].version + 1]
  /\ dlq' = IF s = "Dead" THEN dlq \cup {t} ELSE dlq
  /\ UNCHANGED request

-----------------------------------------------------------------------------
Next ==
  \/ \E r \in Request :
       \/ \E s \in Sender, k \in Key :
            \/ FindNoTask(r, s, k)
            \/ \E t \in Request : FindTask(r, s, k, t)
            \/ \E t \in Request : LoadTask(r, "Update", s, k, t)
       \/ \E s \in Sender, t \in Request :
            \/ t \in Stored /\ LoadTask(r, "Cancel", s, tasks[t].key, t)
            \/ LoadLetter(r, s, t)
       \/ CreateTask(r)
       \/ UpdateTask(r)
       \/ CancelTask(r)
       \/ RetryFromDlq(r)
       \/ LoseRequest(r)
  \/ \E t \in Request, s \in {"Open", "Completed", "Dead"} : EngineMoves(t, s)

Spec == Init /\ [][Next]_vars

-----------------------------------------------------------------------------
(* Properties.                                                             *)

Succeeded(r, ops) == request[r].pc = "answered" /\ request[r].op \in ops

\* All the requests to create a task that carry one key and were answered got
\* the same id, whichever of them ran at the same time, were sent again after a
\* failure, or came after the task had ended or been replaced; and none but the
\* sender who has the key was answered
\* (CreateTaskCommandHandler.HandleAsync, with the unique index).
SameKeySameTask ==
  \A r, q \in Request :
    Succeeded(r, {"Create"}) /\ Succeeded(q, {"Create"}) /\ request[r].key = request[q].key
      => request[r].answer = request[q].answer /\ request[r].sender = request[q].sender

\* Of all the requests that would cancel or replace a task, one at most is told
\* that it did, and the task is then cancelled: of two updates at the same time
\* the second does not leave a second replacement
\* (UpdateTaskCommandHandler, CancelTaskCommandHandler, UpdateAsync).
CancelledForOne ==
  \A r \in Request :
    Succeeded(r, {"Update", "Cancel"}) =>
      /\ tasks[request[r].target].status = "Cancelled"
      /\ \A q \in Request \ {r} :
           Succeeded(q, {"Update", "Cancel"}) => request[q].target # request[r].target

\* A request that ends in an error leaves everything as it was: an update whose
\* new task cannot be inserted does not cancel the old one, a retry that fails
\* keeps its dead letter (TransactionCommandHandlerDecorator.HandleAsync).
ErrorLeavesNoTrace ==
  [][\A r \in Request :
       request[r].pc # "rolledBack" /\ request'[r].pc = "rolledBack"
         => tasks' = tasks /\ dlq' = dlq]_vars

\* A task that died keeps its entry until a retry of it is answered with the task
\* that takes its place (RetryFromDlqCommandHandler.HandleAsync).
LetterKept ==
  \A t \in Stored :
    tasks[t].status = "Dead" /\ t \notin dlq =>
      \E r \in Request : Succeeded(r, {"Retry"}) /\ request[r].target = t

-----------------------------------------------------------------------------
(* What the documentation says, and the code does not do.                  *)

\* The retry of a dead letter "пересоздаёт задание": the sender's retry of an
\* entry that nobody else retried does not end in an error
\* (RetryFromDlqCommandHandler.HandleAsync).
RetryRecreates ==
  \A r \in Request :
    request[r] # Unsent /\ request[r].op = "Retry" /\ request[r].pc = "rolledBack" =>
      \E q \in Request : Succeeded(q, {"Retry"}) /\ request[q].target = request[r].target

\* An update "отменяет существующее задание и создаёт новое с обновлёнными полями":
\* it fails only if the task moved meanwhile or the key belongs to another task
\* (UpdateTaskCommandHandler.HandleAsync).
UpdateReplaces ==
  \A r \in Request :
    request[r] # Unsent /\ request[r].op = "Update" /\ request[r].pc = "rolledBack" =>
      \/ ~AtVersion(request[r].target, request[r].seen)
      \/ \E t \in Stored \ {request[r].target} : tasks[t].key = request[r].key
=============================================================================
