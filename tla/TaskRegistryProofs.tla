------------------------- MODULE TaskRegistryProofs -------------------------
(***************************************************************************)
(* Theorems about TaskRegistry, for any number of requests, clients and    *)
(* keys.  The argument: a row, once stored, keeps its key and its sender,  *)
(* and a row that has not the version a request read has moved on for good *)
(* (Evolves); so what a request has read or been answered stays true of    *)
(* the row it is about (Fits), and a second request for one key or one     *)
(* cancellation meets the unique index or a row past its version.          *)
(***************************************************************************)
EXTENDS TaskRegistry, TLAPS

-----------------------------------------------------------------------------
(* The invariant.                                                          *)

\* The unique index.
KeysUnique == \A t, u \in Stored : tasks[t].key = tasks[u].key => t = u

\* Entries are of tasks, and only an answered request has added a row.
LettersOfRows == dlq \subseteq Stored
RowsOfAnswered == \A r \in Stored : request[r].pc = "answered"

\* What a request knows of the task it is about: one that was answered has the id
\* of a row with its key; one that decides read an open row, which either is as it
\* was or has a later version; one that has cancelled a task finds it cancelled.
Fits(r) ==
  /\ Succeeded(r, {"Create"}) =>
       /\ request[r].answer \in Stored
       /\ tasks[request[r].answer].key = request[r].key
       /\ tasks[request[r].answer].sender = request[r].sender
  /\ Deciding(r, "Update") \/ Deciding(r, "Cancel") =>
       /\ request[r].target \in Stored
       /\ request[r].seen <= tasks[request[r].target].version
       /\ AtVersion(request[r].target, request[r].seen)
            => tasks[request[r].target].status = "Open"
  /\ Succeeded(r, {"Update", "Cancel"}) =>
       /\ request[r].target \in Stored
       /\ tasks[request[r].target].status = "Cancelled"

OneCanceller ==
  \A r, q \in Request :
    /\ Succeeded(r, {"Update", "Cancel"})
    /\ Succeeded(q, {"Update", "Cancel"})
    /\ request[r].target = request[q].target
    => r = q

RegistryInv ==
  /\ TypeOK
  /\ KeysUnique
  /\ LettersOfRows
  /\ RowsOfAnswered
  /\ \A r \in Request : Fits(r)
  /\ OneCanceller
  /\ LetterKept

-----------------------------------------------------------------------------
(* The data.                                                               *)

\* A stored row is a row, and any other is absent.
LEMMA StoredRow ==
  ASSUME TypeOK, NEW t \in Request
  PROVE  t \in Stored <=> tasks[t] \in Row
<1>1. Absent \notin Row
  BY DEF Absent, Row, Final
<1> QED
  BY <1>1 DEF TypeOK, Stored

LEMMA RowNotAbsent == Absent \notin Row
BY DEF Absent, Row, Final

LEMMA NewRowType ==
  ASSUME NEW s \in Sender, NEW k \in Key
  PROVE  NewRow(s, k) \in Row
BY DEF NewRow, Row

\* A request that has been received is typed.
LEMMA SentRequest ==
  ASSUME TypeOK, NEW r \in Request, request[r].pc # "unsent"
  PROVE  request[r] \in Handled
<1>1. request[r] # Unsent
  BY DEF Unsent
<1> QED
  BY <1>1 DEF TypeOK

-----------------------------------------------------------------------------
(* How the table may change.                                               *)

\* Rows stay, with their key and sender; one at the same version is the same, and
\* a cancelled one stays cancelled.
Evolves ==
  \A t \in Stored :
    /\ tasks'[t] \in Row
    /\ tasks'[t].key = tasks[t].key
    /\ tasks'[t].sender = tasks[t].sender
    /\ tasks[t].version <= tasks'[t].version
    /\ tasks'[t].version = tasks[t].version => tasks'[t] = tasks[t]
    /\ tasks[t].status = "Cancelled" => tasks'[t].status = "Cancelled"

LEMMA StillEvolves ==
  ASSUME TypeOK, tasks' = tasks
  PROVE  Evolves
BY StoredRow DEF Evolves, Row, Stored

\* Whatever a request knew stays true, if the request stays as it is.
LEMMA OthersFit ==
  ASSUME TypeOK, TypeOK', Evolves,
         NEW q \in Request, request'[q] = request[q], Fits(q)
  PROVE  Fits(q)'
<1>1. ASSUME NEW t \in Stored
      PROVE  t \in Stored'
  <2>1. tasks'[t] \in Row /\ t \in Request
    BY DEF Evolves, Stored
  <2> QED
    BY <2>1 DEF Row, Stored, Absent, Final
<1>2. ASSUME Succeeded(q, {"Create"})'
      PROVE  /\ request'[q].answer \in Stored'
             /\ tasks'[request'[q].answer].key = request'[q].key
             /\ tasks'[request'[q].answer].sender = request'[q].sender
  <2>1. Succeeded(q, {"Create"})
    BY <1>2 DEF Succeeded
  <2> QED
    BY <1>1, <2>1 DEF Fits, Evolves
<1>3. ASSUME Deciding(q, "Update")' \/ Deciding(q, "Cancel")'
      PROVE  /\ request'[q].target \in Stored'
             /\ request'[q].seen <= tasks'[request'[q].target].version
             /\ AtVersion(request[q].target, request[q].seen)'
                  => tasks'[request'[q].target].status = "Open"
  <2> DEFINE t == request[q].target
             v == request[q].seen
  <2>1. Deciding(q, "Update") \/ Deciding(q, "Cancel")
    BY <1>3 DEF Deciding
  <2>2. /\ t \in Stored /\ v <= tasks[t].version
        /\ tasks[t].version = v => tasks[t].status = "Open"
    BY <2>1 DEF Fits, AtVersion
  <2>3. v \in Nat
    BY <2>1, SentRequest DEF Deciding, Handled
  <2>4. tasks[t].version \in Nat /\ tasks'[t].version \in Nat
    BY <2>2, StoredRow DEF Evolves, Row, Stored
  <2>5. /\ tasks[t].version <= tasks'[t].version
        /\ tasks'[t].version = tasks[t].version => tasks'[t] = tasks[t]
    BY <2>2 DEF Evolves
  <2>6. v <= tasks'[t].version
    BY <2>2, <2>3, <2>4, <2>5
  <2>7. tasks'[t].version = v => tasks'[t].status = "Open"
    BY <2>2, <2>3, <2>4, <2>5
  <2> QED
    BY <1>1, <2>2, <2>6, <2>7 DEF AtVersion
<1>4. ASSUME Succeeded(q, {"Update", "Cancel"})'
      PROVE  /\ request'[q].target \in Stored'
             /\ tasks'[request'[q].target].status = "Cancelled"
  <2>1. Succeeded(q, {"Update", "Cancel"})
    BY <1>4 DEF Succeeded
  <2> QED
    BY <1>1, <2>1 DEF Fits, Evolves
<1> QED
  BY <1>2, <1>3, <1>4 DEF Fits

-----------------------------------------------------------------------------
(* Receiving a request changes that request only.                          *)

LEMMA ReceiveKeeps ==
  ASSUME RegistryInv, NEW r \in Request, request[r] = Unsent,
         NEW h \in Handled,
         request' = [request EXCEPT ![r] = h],
         tasks' = tasks, dlq' = dlq,
         h.pc \in {"deciding", "answered", "rejected"},
         h.pc = "answered" => /\ h.op = "Create"
                              /\ h.answer \in Stored
                              /\ tasks[h.answer].key = h.key
                              /\ tasks[h.answer].sender = h.sender,
         h.pc = "deciding" /\ h.op \in {"Update", "Cancel"} =>
           /\ h.target \in Stored
           /\ h.seen = tasks[h.target].version
           /\ tasks[h.target].status = "Open"
  PROVE  RegistryInv'
<1> USE DEF RegistryInv
<1>1. TypeOK'
  BY DEF TypeOK
<1>2. Stored' = Stored
  BY DEF Stored
<1>3. request'[r] = h /\ \A q \in Request \ {r} : request'[q] = request[q]
  BY DEF TypeOK
<1>4. KeysUnique' /\ LettersOfRows'
  BY <1>2 DEF KeysUnique, LettersOfRows
<1>5. r \notin Stored
  <2>1. request[r].pc = "unsent"
    BY DEF Unsent
  <2> QED
    BY <2>1 DEF RowsOfAnswered
<1>6. RowsOfAnswered'
  BY <1>2, <1>3, <1>5 DEF RowsOfAnswered, Stored
<1>7. ASSUME NEW q \in Request
      PROVE  Fits(q)'
  <2>1. CASE q = r
    <3>1. h.pc = "deciding" /\ h.op \in {"Update", "Cancel"} =>
            h.seen <= tasks[h.target].version
      <4>1. ASSUME h.pc = "deciding", h.op \in {"Update", "Cancel"}
            PROVE  h.seen <= tasks[h.target].version
        <5>1. tasks[h.target].version \in Nat
          BY <4>1, StoredRow DEF Row, Stored
        <5> QED
          BY <4>1, <5>1
      <4> QED
        BY <4>1
    <3>2. request'[q] = h
      BY <1>3, <2>1
    <3> QED
      BY <1>2, <3>1, <3>2 DEF Fits, Succeeded, Deciding, AtVersion
  <2>2. CASE q # r
    BY <1>1, <1>3, <2>2, StillEvolves, OthersFit
  <2> QED
    BY <2>1, <2>2
<1>8. OneCanceller'
  <2>1. ~Succeeded(r, {"Update", "Cancel"})'
    BY <1>3 DEF Succeeded
  <2>2. \A q \in Request \ {r} :
          Succeeded(q, {"Update", "Cancel"})' => Succeeded(q, {"Update", "Cancel"})
    BY <1>3 DEF Succeeded
  <2> QED
    BY <1>3, <2>1, <2>2 DEF OneCanceller
<1>9. LetterKept'
  <2> SUFFICES ASSUME NEW t \in Stored', tasks'[t].status = "Dead", t \notin dlq'
               PROVE  \E q \in Request : (Succeeded(q, {"Retry"}) /\ request[q].target = t)'
    BY DEF LetterKept
  <2>1. PICK q \in Request : Succeeded(q, {"Retry"}) /\ request[q].target = t
    BY <1>2 DEF LetterKept
  <2>2. q # r
    BY <2>1 DEF Succeeded, Unsent
  <2> QED
    BY <1>3, <2>1, <2>2 DEF Succeeded
<1> QED
  BY <1>1, <1>4, <1>6, <1>7, <1>8, <1>9

-----------------------------------------------------------------------------
(* A request ends.                                                         *)

\* Any end of a deciding request that treats the table well keeps the invariant.
LEMMA EndKeeps ==
  ASSUME RegistryInv, NEW r \in Request, request[r].pc = "deciding",
         \A q \in Request \ {r} : request'[q] = request[q],
         TypeOK', KeysUnique', LettersOfRows', Evolves, Fits(r)',
         Stored' \subseteq Stored \/ (Stored' \subseteq Stored \cup {r} /\ request'[r].pc = "answered"),
         \A t \in Stored' : tasks'[t].status = "Dead" => t \in Stored /\ tasks[t].status = "Dead",
         \A t \in dlq \ dlq' : Succeeded(r, {"Retry"})' /\ request'[r].target = t,
         Succeeded(r, {"Update", "Cancel"})' => tasks[request'[r].target].status # "Cancelled"
  PROVE  RegistryInv'
<1> USE DEF RegistryInv
<1>1. r \notin Stored
  BY DEF RowsOfAnswered
<1>2. RowsOfAnswered'
  <2> SUFFICES ASSUME NEW t \in Stored'
               PROVE  request'[t].pc = "answered"
    BY DEF RowsOfAnswered
  <2>1. t \in Stored \/ (t = r /\ request'[r].pc = "answered")
    OBVIOUS
  <2>2. CASE t \in Stored
    BY <1>1, <2>2 DEF RowsOfAnswered, Stored
  <2> QED
    BY <2>1, <2>2
<1>3. ASSUME NEW q \in Request
      PROVE  Fits(q)'
  <2>1. CASE q = r
    BY <2>1
  <2>2. CASE q # r
    BY <2>2, OthersFit
  <2> QED
    BY <2>1, <2>2
<1>4. ASSUME NEW q \in Request \ {r}, NEW ops, Succeeded(q, ops)'
      PROVE  Succeeded(q, ops) /\ request'[q] = request[q]
  BY <1>4 DEF Succeeded
<1>5. OneCanceller'
  <2> SUFFICES ASSUME NEW q \in Request, NEW s \in Request,
                      Succeeded(q, {"Update", "Cancel"})',
                      Succeeded(s, {"Update", "Cancel"})',
                      request'[q].target = request'[s].target
               PROVE  q = s
    BY DEF OneCanceller
  <2>1. CASE q # r /\ s # r
    BY <1>4, <2>1 DEF OneCanceller
  <2>2. CASE q = r /\ s # r
    BY <1>4, <2>2 DEF Fits
  <2>3. CASE q # r /\ s = r
    BY <1>4, <2>3 DEF Fits
  <2> QED
    BY <2>1, <2>2, <2>3
<1>6. LetterKept'
  <2> SUFFICES ASSUME NEW t \in Stored', tasks'[t].status = "Dead", t \notin dlq'
               PROVE  \E q \in Request : Succeeded(q, {"Retry"})' /\ request'[q].target = t
    BY DEF LetterKept
  <2>1. CASE t \in dlq
    BY <2>1
  <2>2. CASE t \notin dlq
    <3>1. PICK q \in Request : Succeeded(q, {"Retry"}) /\ request[q].target = t
      BY <2>2 DEF LetterKept
    <3>2. q # r
      BY <3>1 DEF Succeeded
    <3> QED
      BY <3>1, <3>2 DEF Succeeded
  <2> QED
    BY <2>1, <2>2
<1> QED
  BY <1>2, <1>3, <1>5, <1>6

\* A request whose transaction does not commit leaves the table as it was.
LEMMA InVainKeeps ==
  ASSUME RegistryInv, NEW r \in Request, request[r].pc = "deciding",
         NEW h \in Handled, h.pc \in {"rolledBack", "lost"},
         request' = [request EXCEPT ![r] = h],
         tasks' = tasks, dlq' = dlq
  PROVE  RegistryInv'
<1> USE DEF RegistryInv
<1>4. request'[r] = h /\ \A q \in Request \ {r} : request'[q] = request[q]
  BY DEF TypeOK
<1>5. TypeOK'
  BY DEF TypeOK
<1>6. Stored' = Stored /\ KeysUnique' /\ LettersOfRows'
  BY DEF Stored, KeysUnique, LettersOfRows
<1>7. Fits(r)' /\ ~Succeeded(r, {"Update", "Cancel"})'
  BY <1>4 DEF Fits, Succeeded, Deciding
<1>8. Evolves
  BY StillEvolves
<1>9. \A t \in Stored' : tasks'[t].status = "Dead" => t \in Stored /\ tasks[t].status = "Dead"
  BY <1>6
<1> QED
  BY <1>4, <1>5, <1>6, <1>7, <1>8, <1>9, EndKeeps

\* What an answered request becomes.
LEMMA AnsweredRequest ==
  ASSUME TypeOK, NEW r \in Request, request[r].pc = "deciding",
         NEW a \in Request \cup {NoRequest},
         request' = [request EXCEPT ![r].pc = "answered", ![r].answer = a]
  PROVE  /\ request' \in [Request -> Handled \cup {Unsent}]
         /\ \A q \in Request \ {r} : request'[q] = request[q]
         /\ request'[r].pc = "answered"
         /\ request'[r].answer = a
         /\ request'[r].op = request[r].op
         /\ request'[r].target = request[r].target
         /\ request'[r].key = request[r].key
         /\ request'[r].sender = request[r].sender
<1> DEFINE h == [request[r] EXCEPT !.pc = "answered", !.answer = a]
<1>1. request[r] \in Handled
  BY SentRequest
<1>2. /\ h \in Handled /\ h.pc = "answered" /\ h.answer = a /\ h.op = request[r].op
      /\ h.target = request[r].target /\ h.key = request[r].key
      /\ h.sender = request[r].sender
  BY <1>1 DEF Handled
<1>3. request' = [request EXCEPT ![r] = h]
  BY DEF TypeOK
<1> HIDE DEF h
<1> QED
  BY <1>2, <1>3 DEF TypeOK

\* The table with a new row.
LEMMA AddedTable ==
  ASSUME RegistryInv, NEW r \in Request, request[r].pc = "deciding"
  PROVE  /\ r \notin Stored
         /\ Added(r) \in [Request -> Row \cup {Absent}]
         /\ Added(r)[r] \in Row
         /\ Added(r)[r].status = "Open"
         /\ Added(r)[r].key = request[r].key
         /\ Added(r)[r].sender = request[r].sender
         /\ \A t \in Request \ {r} : Added(r)[t] = tasks[t]
<1> USE DEF RegistryInv
<1>1. r \notin Stored
  BY DEF RowsOfAnswered
<1>2. request[r].key \in Key /\ request[r].sender \in Sender
  BY SentRequest DEF Handled
<1> DEFINE n == NewRow(request[r].sender, request[r].key)
<1>3. /\ n \in Row /\ n.status = "Open" /\ n.key = request[r].key
      /\ n.sender = request[r].sender
  BY <1>2, NewRowType DEF NewRow
<1> HIDE DEF n
<1>4. Added(r) = [tasks EXCEPT ![r] = n]
  BY DEF Added, n
<1> QED
  BY <1>1, <1>3, <1>4 DEF TypeOK

\* The table with one row cancelled.
LEMMA CancelledTable ==
  ASSUME TypeOK, NEW t \in Stored, NEW table \in [Request -> Row \cup {Absent}],
         table[t] = tasks[t]
  PROVE  /\ Cancelled(table, t) \in [Request -> Row \cup {Absent}]
         /\ Cancelled(table, t)[t] \in Row
         /\ Cancelled(table, t)[t].status = "Cancelled"
         /\ Cancelled(table, t)[t].key = tasks[t].key
         /\ Cancelled(table, t)[t].sender = tasks[t].sender
         /\ Cancelled(table, t)[t].version = tasks[t].version + 1
         /\ \A u \in Request \ {t} : Cancelled(table, t)[u] = table[u]
<1> DEFINE n == tasks[t].version + 1
           c == [table[t] EXCEPT !.status = "Cancelled", !.version = n]
<1>1. t \in Request /\ table[t] \in Row
  BY StoredRow DEF Stored
<1>2. n \in Nat
  BY <1>1 DEF Row
<1>3. Cancelled(table, t) = [table EXCEPT ![t] = c]
  BY <1>1 DEF Cancelled
<1> HIDE DEF n
<1>4. /\ c \in Row /\ c.status = "Cancelled" /\ c.key = tasks[t].key
      /\ c.sender = tasks[t].sender /\ c.version = n
  BY <1>1, <1>2 DEF Row, Final
<1> HIDE DEF c
<1> QED
  BY <1>1, <1>3, <1>4 DEF n

-----------------------------------------------------------------------------
(* The operations.                                                         *)

\* The statements fail, and the client is told so.
LEMMA RollBackKeeps ==
  ASSUME RegistryInv, NEW r \in Request, request[r].pc = "deciding",
         tasks' = tasks, dlq' = dlq,
         request' = [request EXCEPT ![r].pc = "rolledBack", ![r].answer = NoRequest]
  PROVE  RegistryInv'
<1> DEFINE h == [request[r] EXCEPT !.pc = "rolledBack", !.answer = NoRequest]
<1>1. request[r] \in Handled
  BY SentRequest DEF RegistryInv
<1>2. h \in Handled /\ h.pc = "rolledBack"
  BY <1>1 DEF Handled
<1>3. request' = [request EXCEPT ![r] = h] /\ tasks' = tasks /\ dlq' = dlq
  BY DEF TypeOK, RegistryInv
<1> HIDE DEF h
<1> QED
  BY <1>2, <1>3, InVainKeeps

LEMMA LoseRequestKeeps ==
  ASSUME RegistryInv, NEW r \in Request, LoseRequest(r)
  PROVE  RegistryInv'
<1> DEFINE h == [request[r] EXCEPT !.pc = "lost"]
<1>1. request[r].pc = "deciding" /\ request[r] \in Handled
  BY SentRequest DEF RegistryInv, LoseRequest
<1>2. h \in Handled /\ h.pc = "lost"
  BY <1>1 DEF Handled
<1>3. request' = [request EXCEPT ![r] = h] /\ tasks' = tasks /\ dlq' = dlq
  BY DEF LoseRequest, TypeOK, RegistryInv
<1> HIDE DEF h
<1> QED
  BY <1>1, <1>2, <1>3, InVainKeeps

LEMMA CreateTaskKeeps ==
  ASSUME RegistryInv, NEW r \in Request, CreateTask(r)
  PROVE  RegistryInv'
<1> DEFINE k == request[r].key
<1>1. Deciding(r, "Create") /\ request[r].pc = "deciding"
  BY DEF CreateTask, Deciding
<1>2. CASE ~UniqueKey(k)
  <2>1. /\ tasks' = tasks /\ dlq' = dlq
        /\ request' = [request EXCEPT ![r].pc = "rolledBack", ![r].answer = NoRequest]
    BY <1>2 DEF CreateTask, Finish
  <2> QED
    BY <1>1, <2>1, RollBackKeeps
<1>3. CASE UniqueKey(k)
  <2>1. /\ tasks' = Added(r) /\ dlq' = dlq
        /\ request' = [request EXCEPT ![r].pc = "answered", ![r].answer = r]
    BY <1>3 DEF CreateTask, Finish
  <2>2. /\ r \notin Stored
        /\ tasks' \in [Request -> Row \cup {Absent}]
        /\ tasks'[r] \in Row /\ tasks'[r].status = "Open" /\ tasks'[r].key = k
        /\ tasks'[r].sender = request[r].sender
        /\ \A t \in Request \ {r} : tasks'[t] = tasks[t]
    BY <1>1, <2>1, AddedTable
  <2>3. /\ request' \in [Request -> Handled \cup {Unsent}]
        /\ \A q \in Request \ {r} : request'[q] = request[q]
        /\ request'[r].pc = "answered" /\ request'[r].answer = r
        /\ request'[r].op = "Create"
        /\ request'[r].key = k /\ request'[r].sender = request[r].sender
    BY <1>1, <2>1, AnsweredRequest DEF RegistryInv, Deciding
  <2>4. TypeOK'
    BY <2>1, <2>2, <2>3 DEF TypeOK, RegistryInv
  <2>5. Stored' = Stored \cup {r}
    BY <2>2, <2>4, StoredRow, RowNotAbsent DEF Stored
  <2>6. Evolves
    BY <2>2, StoredRow DEF Evolves, Stored, Row, RegistryInv
  <2>7. KeysUnique'
    BY <1>3, <2>2, <2>5 DEF KeysUnique, UniqueKey, RegistryInv, Stored
  <2>8. LettersOfRows'
    BY <2>1, <2>5 DEF LettersOfRows, RegistryInv
  <2>9. Fits(r)' /\ ~Succeeded(r, {"Update", "Cancel"})'
    BY <2>2, <2>3, <2>5 DEF Fits, Succeeded, Deciding
  <2>10. \A t \in Stored' : tasks'[t].status = "Dead" => t \in Stored /\ tasks[t].status = "Dead"
    BY <2>2, <2>5 DEF Stored
  <2> QED
    BY <1>1, <2>1, <2>3, <2>4, <2>5, <2>6, <2>7, <2>8, <2>9, <2>10, EndKeeps
<1> QED
  BY <1>2, <1>3

LEMMA UpdateTaskKeeps ==
  ASSUME RegistryInv, NEW r \in Request, UpdateTask(r)
  PROVE  RegistryInv'
<1> DEFINE k == request[r].key
           t == request[r].target
           v == request[r].seen
<1>1. Deciding(r, "Update") /\ request[r].pc = "deciding"
  BY DEF UpdateTask, Deciding
<1>2. CASE ~(AtVersion(t, v) /\ UniqueKey(k))
  <2>1. /\ tasks' = tasks /\ dlq' = dlq
        /\ request' = [request EXCEPT ![r].pc = "rolledBack", ![r].answer = NoRequest]
    BY <1>2 DEF UpdateTask, Finish
  <2> QED
    BY <1>1, <2>1, RollBackKeeps
<1>3. CASE AtVersion(t, v) /\ UniqueKey(k)
  <2>1. /\ tasks' = Cancelled(Added(r), t) /\ dlq' = dlq
        /\ request' = [request EXCEPT ![r].pc = "answered", ![r].answer = r]
    BY <1>3 DEF UpdateTask, Finish
  <2>2. t \in Stored /\ tasks[t].status = "Open"
    BY <1>1, <1>3 DEF RegistryInv, Fits
  <2>3. r \notin Stored /\ t # r
    BY <1>1, <2>2, AddedTable
  <2>4. /\ Added(r) \in [Request -> Row \cup {Absent}] /\ Added(r)[t] = tasks[t]
        /\ Added(r)[r] \in Row /\ Added(r)[r].status = "Open" /\ Added(r)[r].key = k
        /\ \A u \in Request \ {r} : Added(r)[u] = tasks[u]
    BY <1>1, <2>2, <2>3, AddedTable DEF Stored
  <2>5. /\ tasks' \in [Request -> Row \cup {Absent}]
        /\ tasks'[t] \in Row /\ tasks'[t].status = "Cancelled"
        /\ tasks'[t].key = tasks[t].key /\ tasks'[t].sender = tasks[t].sender
        /\ tasks'[t].version = tasks[t].version + 1
        /\ tasks'[r] \in Row /\ tasks'[r].status = "Open" /\ tasks'[r].key = k
        /\ \A u \in Request \ {r, t} : tasks'[u] = tasks[u]
    BY <2>1, <2>2, <2>3, <2>4, CancelledTable DEF RegistryInv
  <2>6. /\ request' \in [Request -> Handled \cup {Unsent}]
        /\ \A q \in Request \ {r} : request'[q] = request[q]
        /\ request'[r].pc = "answered" /\ request'[r].op = "Update"
        /\ request'[r].target = t
    BY <1>1, <2>1, AnsweredRequest DEF RegistryInv, Deciding
  <2>7. TypeOK'
    BY <2>1, <2>5, <2>6 DEF TypeOK, RegistryInv
  <2>8. Stored' = Stored \cup {r}
    BY <2>2, <2>5, RowNotAbsent DEF Stored
  <2>9. Evolves
    <3>1. tasks[t].version \in Nat
      BY <2>2, StoredRow DEF RegistryInv, Row, Stored
    <3>2. ASSUME NEW u \in Stored, u # t
          PROVE  tasks'[u] = tasks[u] /\ tasks[u] \in Row
      BY <2>3, <2>5, <3>2, StoredRow DEF RegistryInv, Stored
    <3> QED
      BY <2>2, <2>5, <3>1, <3>2 DEF Evolves, Row
  <2>10. KeysUnique'
    BY <1>3, <2>2, <2>3, <2>5, <2>8 DEF KeysUnique, UniqueKey, RegistryInv, Stored
  <2>11. LettersOfRows'
    BY <2>1, <2>8 DEF LettersOfRows, RegistryInv
  <2>12. Fits(r)'
    BY <2>2, <2>5, <2>6, <2>8 DEF Fits, Succeeded, Deciding
  <2>13. \A u \in Stored' : tasks'[u].status = "Dead" => u \in Stored /\ tasks[u].status = "Dead"
    BY <2>2, <2>5, <2>8 DEF Stored
  <2> QED
    BY <1>1, <2>1, <2>2, <2>6, <2>7, <2>8, <2>9, <2>10, <2>11, <2>12, <2>13, EndKeeps
<1> QED
  BY <1>2, <1>3

LEMMA CancelTaskKeeps ==
  ASSUME RegistryInv, NEW r \in Request, CancelTask(r)
  PROVE  RegistryInv'
<1> DEFINE t == request[r].target
           v == request[r].seen
<1>1. Deciding(r, "Cancel") /\ request[r].pc = "deciding"
  BY DEF CancelTask, Deciding
<1>2. CASE ~AtVersion(t, v)
  <2>1. /\ tasks' = tasks /\ dlq' = dlq
        /\ request' = [request EXCEPT ![r].pc = "rolledBack", ![r].answer = NoRequest]
    BY <1>2 DEF CancelTask, Finish
  <2> QED
    BY <1>1, <2>1, RollBackKeeps
<1>3. CASE AtVersion(t, v)
  <2>1. /\ tasks' = Cancelled(tasks, t) /\ dlq' = dlq
        /\ request' = [request EXCEPT ![r].pc = "answered", ![r].answer = t]
    BY <1>3 DEF CancelTask, Finish
  <2>2. t \in Stored /\ t \in Request /\ tasks[t].status = "Open"
    BY <1>1, <1>3 DEF RegistryInv, Fits, Stored
  <2>3. /\ tasks' \in [Request -> Row \cup {Absent}]
        /\ tasks'[t] \in Row /\ tasks'[t].status = "Cancelled"
        /\ tasks'[t].key = tasks[t].key /\ tasks'[t].sender = tasks[t].sender
        /\ tasks'[t].version = tasks[t].version + 1
        /\ \A u \in Request \ {t} : tasks'[u] = tasks[u]
    BY <2>1, <2>2, CancelledTable DEF RegistryInv, TypeOK
  <2>4. /\ request' \in [Request -> Handled \cup {Unsent}]
        /\ \A q \in Request \ {r} : request'[q] = request[q]
        /\ request'[r].pc = "answered" /\ request'[r].op = "Cancel"
        /\ request'[r].target = t
    BY <1>1, <2>1, <2>2, AnsweredRequest DEF RegistryInv, Deciding
  <2>5. TypeOK'
    BY <2>1, <2>3, <2>4 DEF TypeOK, RegistryInv
  <2>6. Stored' = Stored
    BY <2>2, <2>3, RowNotAbsent DEF Stored
  <2>7. Evolves
    <3>1. tasks[t].version \in Nat
      BY <2>2, StoredRow DEF RegistryInv, Row
    <3>2. ASSUME NEW u \in Stored, u # t
          PROVE  tasks'[u] = tasks[u] /\ tasks[u] \in Row
      BY <2>3, <3>2, StoredRow DEF RegistryInv, Stored
    <3> QED
      BY <2>2, <2>3, <3>1, <3>2 DEF Evolves, Row
  <2>8. KeysUnique'
    BY <2>2, <2>3, <2>6 DEF KeysUnique, RegistryInv, Stored
  <2>9. LettersOfRows'
    BY <2>1, <2>6 DEF LettersOfRows, RegistryInv
  <2>10. Fits(r)'
    BY <2>2, <2>3, <2>4, <2>6 DEF Fits, Succeeded, Deciding
  <2>11. \A u \in Stored' : tasks'[u].status = "Dead" => u \in Stored /\ tasks[u].status = "Dead"
    BY <2>2, <2>3, <2>6 DEF Stored
  <2> QED
    BY <1>1, <2>1, <2>2, <2>4, <2>5, <2>6, <2>7, <2>8, <2>9, <2>10, <2>11, EndKeeps
<1> QED
  BY <1>2, <1>3

LEMMA RetryFromDlqKeeps ==
  ASSUME RegistryInv, NEW r \in Request, RetryFromDlq(r)
  PROVE  RegistryInv'
<1> DEFINE k == request[r].key
<1>1. Deciding(r, "Retry") /\ request[r].pc = "deciding"
  BY DEF RetryFromDlq, Deciding
<1>2. CASE ~UniqueKey(k)
  <2>1. /\ tasks' = tasks /\ dlq' = dlq
        /\ request' = [request EXCEPT ![r].pc = "rolledBack", ![r].answer = NoRequest]
    BY <1>2 DEF RetryFromDlq, Finish
  <2> QED
    BY <1>1, <2>1, RollBackKeeps
<1>3. CASE UniqueKey(k)
  <2>1. /\ tasks' = Added(r) /\ dlq' = dlq \ {request[r].target}
        /\ request' = [request EXCEPT ![r].pc = "answered", ![r].answer = r]
    BY <1>3 DEF RetryFromDlq, Finish
  <2>2. /\ r \notin Stored
        /\ tasks' \in [Request -> Row \cup {Absent}]
        /\ tasks'[r] \in Row /\ tasks'[r].status = "Open" /\ tasks'[r].key = k
        /\ \A t \in Request \ {r} : tasks'[t] = tasks[t]
    BY <1>1, <2>1, AddedTable
  <2>3. /\ request' \in [Request -> Handled \cup {Unsent}]
        /\ \A q \in Request \ {r} : request'[q] = request[q]
        /\ request'[r].pc = "answered" /\ request'[r].op = "Retry"
        /\ request'[r].target = request[r].target
    BY <1>1, <2>1, AnsweredRequest DEF RegistryInv, Deciding
  <2>4. TypeOK'
    BY <2>1, <2>2, <2>3 DEF TypeOK, RegistryInv
  <2>5. Stored' = Stored \cup {r}
    BY <2>2, RowNotAbsent DEF Stored
  <2>6. Evolves
    BY <2>2, StoredRow DEF Evolves, Stored, Row, RegistryInv
  <2>7. KeysUnique'
    BY <1>3, <2>2, <2>5 DEF KeysUnique, UniqueKey, RegistryInv, Stored
  <2>8. LettersOfRows'
    BY <2>1, <2>5 DEF LettersOfRows, RegistryInv
  <2>9. Fits(r)' /\ ~Succeeded(r, {"Update", "Cancel"})'
    BY <2>3 DEF Fits, Succeeded, Deciding
  <2>10. \A t \in Stored' : tasks'[t].status = "Dead" => t \in Stored /\ tasks[t].status = "Dead"
    BY <2>2, <2>5 DEF Stored
  <2>11. \A t \in dlq \ dlq' : Succeeded(r, {"Retry"})' /\ request'[r].target = t
    BY <2>1, <2>3 DEF Succeeded
  <2> QED
    BY <1>1, <2>1, <2>3, <2>4, <2>5, <2>6, <2>7, <2>8, <2>9, <2>10, <2>11, EndKeeps
<1> QED
  BY <1>2, <1>3

\* The engine changes a row nobody has cancelled, and buries what it kills.
LEMMA EngineMovesKeeps ==
  ASSUME RegistryInv, NEW t \in Request, NEW s \in {"Open", "Completed", "Dead"},
         EngineMoves(t, s)
  PROVE  RegistryInv'
<1> USE DEF RegistryInv
<1> DEFINE n == tasks[t].version + 1
           moved == [tasks[t] EXCEPT !.status = s, !.version = n]
<1>1. t \in Stored /\ tasks[t] \in Row /\ tasks[t].status = "Open"
  BY StoredRow DEF EngineMoves, Stored
<1>2. n \in Nat /\ tasks[t].version \in Nat
  BY <1>1 DEF Row
<1>3. tasks' = [tasks EXCEPT ![t] = moved] /\ request' = request
  BY <1>1 DEF EngineMoves, TypeOK
<1>4. n = tasks[t].version + 1
  OBVIOUS
<1> HIDE DEF n
<1>5. /\ moved \in Row /\ moved.status = s /\ moved.key = tasks[t].key
      /\ moved.sender = tasks[t].sender /\ moved.version = n
  BY <1>1, <1>2 DEF Row, Final
<1> HIDE DEF moved
<1>6. /\ tasks' \in [Request -> Row \cup {Absent}]
      /\ tasks'[t] = moved
      /\ \A u \in Request \ {t} : tasks'[u] = tasks[u]
  BY <1>3, <1>5 DEF TypeOK
<1>7. dlq' = IF s = "Dead" THEN dlq \cup {t} ELSE dlq
  BY DEF EngineMoves
<1>8. TypeOK'
  BY <1>3, <1>6, <1>7 DEF TypeOK
<1>9. Stored' = Stored
  BY <1>1, <1>5, <1>6, RowNotAbsent DEF Stored
<1>10. KeysUnique'
  BY <1>1, <1>5, <1>6, <1>9 DEF KeysUnique, Stored
<1>11. LettersOfRows'
  BY <1>1, <1>7, <1>9 DEF LettersOfRows
<1>12. RowsOfAnswered'
  BY <1>3, <1>9 DEF RowsOfAnswered
<1>13. Evolves
  <2>1. ASSUME NEW u \in Stored, u # t
        PROVE  tasks'[u] = tasks[u] /\ tasks[u] \in Row
    BY <1>6, <2>1, StoredRow DEF Stored
  <2> QED
    BY <1>1, <1>2, <1>4, <1>5, <1>6, <2>1 DEF Evolves, Row
<1>14. \A q \in Request : Fits(q)'
  BY <1>3, <1>8, <1>13, OthersFit
<1>15. OneCanceller'
  BY <1>3 DEF OneCanceller, Succeeded
<1>16. LetterKept'
  <2> SUFFICES ASSUME NEW u \in Stored', tasks'[u].status = "Dead", u \notin dlq'
               PROVE  \E q \in Request : Succeeded(q, {"Retry"})' /\ request'[q].target = u
    BY DEF LetterKept
  <2>1. u # t
    BY <1>5, <1>6, <1>7
  <2>2. u \in Stored /\ tasks[u].status = "Dead" /\ u \notin dlq
    BY <1>6, <1>7, <1>9, <2>1 DEF Stored
  <2>3. PICK q \in Request : Succeeded(q, {"Retry"}) /\ request[q].target = u
    BY <2>2 DEF LetterKept
  <2> QED
    BY <1>3, <2>3 DEF Succeeded
<1> QED
  BY <1>8, <1>10, <1>11, <1>12, <1>14, <1>15, <1>16

-----------------------------------------------------------------------------
(* The arrival of a request.                                               *)

LEMMA ArrivalKeeps ==
  ASSUME RegistryInv, NEW r \in Request, NEW s \in Sender, NEW k \in Key, NEW t \in Request,
         \/ FindNoTask(r, s, k)
         \/ FindTask(r, s, k, t)
         \/ LoadTask(r, "Update", s, k, t)
         \/ LoadTask(r, "Cancel", s, k, t)
  PROVE  RegistryInv'
<1>1. ASSUME NEW pc \in {"deciding", "answered", "rejected"},
             NEW op \in {"Create", "Update", "Cancel"},
             NEW u \in Request \cup {NoRequest}, NEW v \in Nat,
             NEW a \in Request \cup {NoRequest},
             Receive(r, pc, op, s, k, u, v, a),
             pc = "answered" => /\ op = "Create" /\ a \in Stored
                                /\ tasks[a].key = k /\ tasks[a].sender = s,
             pc = "deciding" /\ op \in {"Update", "Cancel"} =>
               u \in Stored /\ v = tasks[u].version /\ tasks[u].status = "Open"
      PROVE  RegistryInv'
  <2> DEFINE h == [pc |-> pc, op |-> op, sender |-> s, key |-> k, target |-> u, seen |-> v,
                   answer |-> a]
  <2>1. h \in Handled
    BY DEF Handled
  <2>2. request[r] = Unsent /\ request' = [request EXCEPT ![r] = h] /\ tasks' = tasks /\ dlq' = dlq
    BY <1>1 DEF Receive
  <2>3. /\ h.pc = pc /\ h.op = op /\ h.sender = s /\ h.key = k /\ h.target = u
        /\ h.seen = v /\ h.answer = a
    OBVIOUS
  <2> HIDE DEF h
  <2> QED
    BY <1>1, <2>1, <2>2, <2>3, ReceiveKeeps
<1>2. ASSUME t \in Stored
      PROVE  /\ tasks[t].version \in Nat
             /\ tasks[t].status \notin Final => tasks[t].status = "Open"
  BY <1>2, StoredRow DEF RegistryInv, Row
<1>3. CASE FindNoTask(r, s, k)
  BY <1>1, <1>3 DEF FindNoTask
<1>4. CASE FindTask(r, s, k, t)
  BY <1>1, <1>4 DEF FindTask
<1>5. ASSUME NEW op \in {"Update", "Cancel"}, LoadTask(r, op, s, k, t)
      PROVE  RegistryInv'
  <2>1. t \in Stored
    BY <1>5 DEF LoadTask
  <2>2. CASE tasks[t].sender = s /\ tasks[t].status \notin Final
    <3>1. Receive(r, "deciding", op, s, k, t, tasks[t].version, NoRequest)
      BY <1>5, <2>2 DEF LoadTask
    <3> QED
      BY <1>1, <1>2, <2>1, <2>2, <3>1
  <2>3. CASE ~(tasks[t].sender = s /\ tasks[t].status \notin Final)
    <3>1. Receive(r, "rejected", op, s, k, t, tasks[t].version, NoRequest)
      BY <1>5, <2>3 DEF LoadTask
    <3> QED
      BY <1>1, <1>2, <2>1, <3>1
  <2> QED
    BY <2>2, <2>3
<1> QED
  BY <1>3, <1>4, <1>5

LEMMA LoadLetterKeeps ==
  ASSUME RegistryInv, NEW r \in Request, NEW s \in Sender, NEW t \in Request,
         LoadLetter(r, s, t)
  PROVE  RegistryInv'
<1> DEFINE k == tasks[t].key
<1>1. t \in Stored /\ k \in Key
  BY StoredRow DEF LoadLetter, RegistryInv, LettersOfRows, Row
<1>2. PICK pc \in {"deciding", "rejected"} : Receive(r, pc, "Retry", s, k, t, 0, NoRequest)
  BY DEF LoadLetter
<1> DEFINE h == [pc |-> pc, op |-> "Retry", sender |-> s, key |-> k, target |-> t,
                 seen |-> 0, answer |-> NoRequest]
<1>3. h \in Handled /\ h.pc = pc /\ h.op = "Retry"
  BY <1>1 DEF Handled
<1>4. request[r] = Unsent /\ request' = [request EXCEPT ![r] = h] /\ tasks' = tasks /\ dlq' = dlq
  BY <1>2 DEF Receive
<1> HIDE DEF h
<1> QED
  BY <1>3, <1>4, ReceiveKeeps

-----------------------------------------------------------------------------
(* The theorems.                                                           *)

LEMMA RegistryInvInit == Init => RegistryInv
<1> SUFFICES ASSUME Init
             PROVE  RegistryInv
  OBVIOUS
<1>1. TypeOK
  BY DEF Init, TypeOK
<1>2. Stored = {} /\ \A r \in Request : request[r].pc = "unsent"
  BY DEF Init, Stored, Unsent
<1> QED
  BY <1>1, <1>2 DEF RegistryInv, Init, KeysUnique, LettersOfRows, RowsOfAnswered, Fits,
                    OneCanceller, LetterKept, Succeeded, Deciding

LEMMA RegistryInvKept == RegistryInv /\ [Next]_vars => RegistryInv'
<1> SUFFICES ASSUME RegistryInv, [Next]_vars
             PROVE  RegistryInv'
  OBVIOUS
<1>1. CASE UNCHANGED vars
  BY <1>1 DEF vars, RegistryInv, TypeOK, KeysUnique, LettersOfRows, RowsOfAnswered, Fits,
              OneCanceller, LetterKept, Succeeded, Deciding, AtVersion, Stored
<1>2. ASSUME NEW r \in Request, NEW s \in Sender, NEW k \in Key, NEW t \in Request,
             \/ FindNoTask(r, s, k) \/ FindTask(r, s, k, t) \/ LoadTask(r, "Update", s, k, t)
      PROVE  RegistryInv'
  BY <1>2, ArrivalKeeps
<1>3. ASSUME NEW r \in Request, NEW s \in Sender, NEW t \in Stored,
             LoadTask(r, "Cancel", s, tasks[t].key, t)
      PROVE  RegistryInv'
  <2>1. t \in Request /\ tasks[t].key \in Key
    BY StoredRow DEF RegistryInv, Row, Stored
  <2> QED
    BY <1>3, <2>1, ArrivalKeeps
<1>4. ASSUME NEW r \in Request
      PROVE  /\ CreateTask(r) \/ UpdateTask(r) \/ CancelTask(r) => RegistryInv'
             /\ RetryFromDlq(r) \/ LoseRequest(r) => RegistryInv'
  BY CreateTaskKeeps, UpdateTaskKeeps, CancelTaskKeeps, RetryFromDlqKeeps, LoseRequestKeeps
<1>5. CASE \E t \in Request, s \in {"Open", "Completed", "Dead"} : EngineMoves(t, s)
  BY <1>5, EngineMovesKeeps
<1>6. ASSUME NEW r \in Request, NEW s \in Sender, NEW k \in Key, FindNoTask(r, s, k)
      PROVE  RegistryInv'
  BY <1>2, <1>6
<1> QED
  BY <1>1, <1>2, <1>3, <1>4, <1>5, <1>6, LoadLetterKeeps DEF Next

\* What a request has read or been answered stays true of the row it is about, for
\* any number of requests, clients and keys (the reads outside the transactions of
\* the API handlers, the unique index, the condition on the version).
THEOREM RegistryInvariant == Spec => []RegistryInv
BY RegistryInvInit, RegistryInvKept, PTL DEF Spec

\* Every variable keeps its type, for any number of requests, clients and keys.
THEOREM RegistryTypeCorrect == Spec => []TypeOK
<1>1. RegistryInv => TypeOK
  BY DEF RegistryInv
<1> QED
  BY <1>1, RegistryInvariant, PTL

\* The answers to all the creations that carry one key name one task, of one sender
\* (CreateTaskCommandHandler.HandleAsync, with the unique index).
THEOREM CreationIdempotent == Spec => []SameKeySameTask
<1>1. RegistryInv => SameKeySameTask
  BY DEF RegistryInv, SameKeySameTask, Fits, KeysUnique
<1> QED
  BY <1>1, RegistryInvariant, PTL

\* Of all the requests that would cancel or replace a task one at most is told that
\* it did, and the task is cancelled (UpdateAsync, its condition on the version).
THEOREM OneIsTold == Spec => []CancelledForOne
<1>1. RegistryInv => CancelledForOne
  BY DEF RegistryInv, CancelledForOne, Fits, OneCanceller
<1> QED
  BY <1>1, RegistryInvariant, PTL

\* A task that died keeps its entry until a retry of it is answered
\* (RetryFromDlqCommandHandler.HandleAsync).
THEOREM LettersKept == Spec => []LetterKept
<1>1. RegistryInv => LetterKept
  BY DEF RegistryInv
<1> QED
  BY <1>1, RegistryInvariant, PTL

\* A step that rolls request r back.
RollsBack(r) == request[r].pc # "rolledBack" /\ request'[r].pc = "rolledBack"

\* A transaction that is not accepted changes no row and no letter.
LEMMA FinishRollsBack ==
  ASSUME TypeOK, NEW q \in Request, NEW r \in Request, NEW accepted \in BOOLEAN,
         NEW table, NEW letters, NEW a, request[q] # Unsent,
         Finish(q, accepted, table, letters, a), RollsBack(r)
  PROVE  tasks' = tasks /\ dlq' = dlq
<1>1. ~accepted => tasks' = tasks /\ dlq' = dlq
  BY DEF Finish
<1>2. CASE accepted
  <2>1. request' = [request EXCEPT ![q].pc = "answered", ![q].answer = a]
    BY <1>2 DEF Finish
  <2>2. request[q] \in Handled
    BY DEF TypeOK
  <2>3. request'[q].pc = "answered"
    BY <2>1, <2>2 DEF TypeOK, Handled
  <2>4. r # q => request'[r] = request[r]
    BY <2>1 DEF TypeOK
  <2> QED
    BY <2>3, <2>4 DEF RollsBack
<1> QED
  BY <1>1, <1>2

\* A request that ends in an error leaves the table and the letters as they were
\* (TransactionCommandHandlerDecorator.HandleAsync).
THEOREM ErrorsLeaveNoTrace == Spec => ErrorLeavesNoTrace
<1>1. ASSUME TypeOK, Next, NEW r \in Request, RollsBack(r)
      PROVE  tasks' = tasks /\ dlq' = dlq
  <2> USE DEF Deciding
  <2>1. ASSUME NEW q \in Request, CreateTask(q)
        PROVE  tasks' = tasks /\ dlq' = dlq
    <3>1. request[q] # Unsent
      BY <2>1 DEF CreateTask, Unsent
    <3>2. UniqueKey(request[q].key) \in BOOLEAN
      BY DEF UniqueKey
    <3> QED
      BY <1>1, <2>1, <3>1, <3>2, FinishRollsBack DEF CreateTask
  <2>2. ASSUME NEW q \in Request, UpdateTask(q)
        PROVE  tasks' = tasks /\ dlq' = dlq
    <3>1. request[q] # Unsent
      BY <2>2 DEF UpdateTask, Unsent
    <3>2. (AtVersion(request[q].target, request[q].seen) /\ UniqueKey(request[q].key)) \in BOOLEAN
      BY DEF UniqueKey, AtVersion
    <3> QED
      BY <1>1, <2>2, <3>1, <3>2, FinishRollsBack DEF UpdateTask
  <2>3. ASSUME NEW q \in Request, CancelTask(q)
        PROVE  tasks' = tasks /\ dlq' = dlq
    <3>1. request[q] # Unsent
      BY <2>3 DEF CancelTask, Unsent
    <3>2. AtVersion(request[q].target, request[q].seen) \in BOOLEAN
      BY DEF AtVersion
    <3> QED
      BY <1>1, <2>3, <3>1, <3>2, FinishRollsBack DEF CancelTask
  <2>4. ASSUME NEW q \in Request, RetryFromDlq(q)
        PROVE  tasks' = tasks /\ dlq' = dlq
    <3>1. request[q] # Unsent
      BY <2>4 DEF RetryFromDlq, Unsent
    <3>2. UniqueKey(request[q].key) \in BOOLEAN
      BY DEF UniqueKey
    <3> QED
      BY <1>1, <2>4, <3>1, <3>2, FinishRollsBack DEF RetryFromDlq
  <2>5. UNCHANGED <<tasks, dlq>> => tasks' = tasks /\ dlq' = dlq
    OBVIOUS
  <2>6. ASSUME NEW t \in Request, NEW s, EngineMoves(t, s)
        PROVE  FALSE
    BY <1>1, <2>6 DEF EngineMoves, RollsBack
  <2> QED
    BY <1>1, <2>1, <2>2, <2>3, <2>4, <2>6
    DEF Next, FindNoTask, FindTask, LoadTask, LoadLetter, Receive, LoseRequest
<1>2. TypeOK /\ [Next]_vars =>
        [\A r \in Request : request[r].pc # "rolledBack" /\ request'[r].pc = "rolledBack"
           => tasks' = tasks /\ dlq' = dlq]_vars
  BY <1>1 DEF RollsBack
<1> QED
  BY <1>2, RegistryTypeCorrect, PTL DEF Spec, ErrorLeavesNoTrace
=============================================================================
