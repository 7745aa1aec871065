---------------------------- MODULE AiTasksProofs ----------------------------
(* Theorems about AiTasks, for every set of tasks and workers and every bound. *)
EXTENDS AiTasks, TLAPS

USE TasksAssumption, NoneAssumption, BoundsAssumption

-----------------------------------------------------------------------------
(* The attempt number that a worker allocates. *)

\* The rows of a task have numbers, so the numbers have a maximum when they
\* are 1, 2, ..., n: the next free number is n + 1.
LEMMA NextAttemptNo ==
    ASSUME TypeOK, AttemptNumbering, NEW t \in Tasks
    PROVE  max_attempt_no(t) = Len(attempts[t])
<1> DEFINE n == Len(attempts[t])
           S == {0} \cup {attempts[t][i].attempt_no : i \in 1..n}
<1>1. n \in Nat
  BY DEF TypeOK
<1>2. S = 0..n
  BY <1>1 DEF AttemptNumbering
<1>3. \A x \in 0..n : (\A y \in 0..n : x >= y) <=> x = n
  BY <1>1
<1>4. (CHOOSE x \in 0..n : \A y \in 0..n : x >= y) = n
  BY <1>1, <1>3
<1> QED
  BY <1>2, <1>4 DEF max_attempt_no, Max

-----------------------------------------------------------------------------
(* Rows: what each operator that builds one returns. *)

LEMMA RowTypes ==
    /\ AbsentRow \in TaskRow
    /\ PendingRow \in TaskRow
    /\ \A r \in TaskRow : /\ RetriedRow(r) \in TaskRow
                          /\ CancelledRow(r) \in TaskRow
                          /\ RecoveredRow(r) \in TaskRow
                          /\ AgedRow(r) \in TaskRow
                          /\ ClaimedRow(r) \in TaskRow
    /\ \A r \in TaskRow : \A n \in Nat : \A old \in BOOLEAN :
          StartedRow(r, n, old) \in TaskRow
    /\ \A r \in TaskRow : \A status \in Statuses : \A error \in ErrorCodes :
       \A result \in Results \cup {None} :
          FinishedRow(r, status, error, result) \in TaskRow
    /\ \A db, loaded, new \in TaskRow : Flush(db, loaded, new) \in TaskRow
<1>1. AbsentRow \in TaskRow /\ PendingRow \in TaskRow
  BY DEF AbsentRow, PendingRow, TaskRow, Statuses, ErrorCodes
<1>2. ASSUME NEW r \in TaskRow
      PROVE  /\ CancelledRow(r) \in TaskRow
             /\ RecoveredRow(r) \in TaskRow
             /\ AgedRow(r) \in TaskRow
             /\ ClaimedRow(r) \in TaskRow
  BY DEF TaskRow, Statuses, ErrorCodes, CancelledRow, RecoveredRow, AgedRow, ClaimedRow
<1>3. ASSUME NEW r \in TaskRow PROVE RetriedRow(r) \in TaskRow
  <2>1. r.retry_cycle_no + 1 \in Nat
    BY DEF TaskRow
  <2>2. \A n \in Nat :
           [r EXCEPT !.status = "pending", !.retry_cycle_no = n,
                     !.cycle_attempt_count = 0, !.error_code = "none",
                     !.result_payload = None, !.updated_old = FALSE] \in TaskRow
    BY DEF TaskRow, Statuses, ErrorCodes
  <2> QED
    BY <2>1, <2>2, Zenon DEF RetriedRow
<1>4. ASSUME NEW r \in TaskRow, NEW n \in Nat, NEW old \in BOOLEAN
      PROVE  StartedRow(r, n, old) \in TaskRow
  <2> DEFINE m == r.cycle_attempt_count + 1
  <2>1. m \in Nat
    BY DEF TaskRow
  <2>2. StartedRow(r, n, old) = [r EXCEPT !.attempt_count = n,
                                          !.cycle_attempt_count = m,
                                          !.error_code = "none", !.updated_old = old]
    BY DEF StartedRow
  <2> HIDE DEF m
  <2> QED
    BY <2>1, <2>2 DEF TaskRow, ErrorCodes
<1>5. ASSUME NEW r \in TaskRow, NEW status \in Statuses, NEW error \in ErrorCodes,
             NEW result \in Results \cup {None}
      PROVE  FinishedRow(r, status, error, result) \in TaskRow
  BY DEF TaskRow, FinishedRow
<1>6. ASSUME NEW db \in TaskRow, NEW loaded \in TaskRow, NEW new \in TaskRow
      PROVE  Flush(db, loaded, new) \in TaskRow
  BY DEF TaskRow, Flush, Column
<1> QED
  BY <1>1, <1>2, <1>3, <1>4, <1>5, <1>6

\* The columns the API calls and the claim write, and those they keep.
LEMMA RowColumns ==
    /\ AbsentRow.status = "absent" /\ PendingRow.status = "pending"
    /\ PendingRow.attempt_count = 0 /\ AbsentRow.attempt_count = 0
    /\ PendingRow.retry_cycle_no = 0 /\ AbsentRow.retry_cycle_no = 0
    /\ PendingRow.cycle_attempt_count = 0 /\ AbsentRow.cycle_attempt_count = 0
    /\ PendingRow.error_code = "none"
    /\ \A r \in TaskRow :
          /\ RetriedRow(r).status = "pending"
          /\ RetriedRow(r).retry_cycle_no = r.retry_cycle_no + 1
          /\ RetriedRow(r).attempt_count = r.attempt_count
          /\ RetriedRow(r).cycle_attempt_count = 0
          /\ CancelledRow(r).status = "cancelled"
          /\ RecoveredRow(r).status = "failed"
          /\ AgedRow(r).status = r.status
          /\ ClaimedRow(r).status = "running"
          /\ Mirrors(AgedRow(r), r)
          /\ \A kept \in {CancelledRow(r), RecoveredRow(r), AgedRow(r), ClaimedRow(r)} :
                /\ kept.attempt_count = r.attempt_count
                /\ kept.retry_cycle_no = r.retry_cycle_no
                /\ kept.cycle_attempt_count = r.cycle_attempt_count
<1>1. /\ AbsentRow.status = "absent" /\ PendingRow.status = "pending"
      /\ PendingRow.attempt_count = 0 /\ AbsentRow.attempt_count = 0
      /\ PendingRow.retry_cycle_no = 0 /\ AbsentRow.retry_cycle_no = 0
      /\ PendingRow.cycle_attempt_count = 0 /\ AbsentRow.cycle_attempt_count = 0
      /\ PendingRow.error_code = "none"
  BY DEF AbsentRow, PendingRow
<1>2. ASSUME NEW r \in TaskRow
      PROVE  /\ RetriedRow(r).status = "pending"
             /\ RetriedRow(r).retry_cycle_no = r.retry_cycle_no + 1
             /\ RetriedRow(r).attempt_count = r.attempt_count
             /\ RetriedRow(r).cycle_attempt_count = 0
  BY DEF TaskRow, RetriedRow
<1>3. ASSUME NEW r \in TaskRow
      PROVE  /\ CancelledRow(r).status = "cancelled"
             /\ RecoveredRow(r).status = "failed"
             /\ AgedRow(r).status = r.status
             /\ ClaimedRow(r).status = "running"
             /\ Mirrors(AgedRow(r), r)
  BY DEF TaskRow, CancelledRow, RecoveredRow, AgedRow, ClaimedRow, Mirrors
<1>4. ASSUME NEW r \in TaskRow,
             NEW kept \in {CancelledRow(r), RecoveredRow(r), AgedRow(r), ClaimedRow(r)}
      PROVE  /\ kept.attempt_count = r.attempt_count
             /\ kept.retry_cycle_no = r.retry_cycle_no
             /\ kept.cycle_attempt_count = r.cycle_attempt_count
  BY DEF TaskRow, CancelledRow, RecoveredRow, AgedRow, ClaimedRow
<1> QED
  BY <1>1, <1>2, <1>3, <1>4

\* The columns of a row whose attempt starts.
LEMMA StartedColumns ==
    ASSUME NEW r \in TaskRow, NEW n \in Nat, NEW old \in BOOLEAN
    PROVE  /\ StartedRow(r, n, old).status = r.status
           /\ StartedRow(r, n, old).attempt_count = n
           /\ StartedRow(r, n, old).retry_cycle_no = r.retry_cycle_no
           /\ StartedRow(r, n, old).cycle_attempt_count = r.cycle_attempt_count + 1
           /\ StartedRow(r, n, old).error_code = "none"
BY DEF TaskRow, StartedRow

\* The commit of a worker writes the status only when it differs from the status
\* its session loaded, and never writes the three counters.
LEMMA FlushColumns ==
    ASSUME NEW db \in TaskRow, NEW loaded \in TaskRow, NEW status \in Statuses,
           NEW error \in ErrorCodes, NEW result \in Results \cup {None}
    PROVE  LET flushed == Flush(db, loaded, FinishedRow(loaded, status, error, result))
           IN  /\ flushed \in TaskRow
               /\ flushed.status = IF status = loaded.status THEN db.status ELSE status
               /\ flushed.error_code =
                     IF error = loaded.error_code THEN db.error_code ELSE error
               /\ flushed.result_payload =
                     IF result = loaded.result_payload THEN db.result_payload ELSE result
               /\ flushed.attempt_count = db.attempt_count
               /\ flushed.retry_cycle_no = db.retry_cycle_no
               /\ flushed.cycle_attempt_count = db.cycle_attempt_count
<1>1. FinishedRow(loaded, status, error, result) \in TaskRow
  BY RowTypes
<1>2. LET new == FinishedRow(loaded, status, error, result)
      IN  /\ new.status = status /\ new.error_code = error
          /\ new.result_payload = result
          /\ new.attempt_count = loaded.attempt_count
          /\ new.retry_cycle_no = loaded.retry_cycle_no
          /\ new.cycle_attempt_count = loaded.cycle_attempt_count
  BY DEF TaskRow, FinishedRow
<1> QED
  BY <1>1, <1>2, RowTypes DEF Flush, Column

\* Closing attempts changes their status and nothing else.
LEMMA AttemptRows ==
    ASSUME NEW rows \in Seq(AttemptRow), NEW status \in AttemptStatuses, NEW k \in Nat
    PROVE  /\ CloseAttempt(rows, k, status) \in Seq(AttemptRow)
           /\ FailRunning(rows) \in Seq(AttemptRow)
           /\ Len(CloseAttempt(rows, k, status)) = Len(rows)
           /\ Len(FailRunning(rows)) = Len(rows)
           /\ \A i \in 1..Len(rows) :
                 /\ CloseAttempt(rows, k, status)[i] =
                       IF i = k THEN WithStatus(rows[i], status) ELSE rows[i]
                 /\ FailRunning(rows)[i] =
                       IF rows[i].status = "running"
                       THEN WithStatus(rows[i], "failed") ELSE rows[i]
<1>1. \A a \in AttemptRow : WithStatus(a, status) \in AttemptRow /\ WithStatus(a, "failed") \in AttemptRow
  BY DEF AttemptRow, AttemptStatuses, WithStatus
<1>2. \A i \in 1..Len(rows) : rows[i] \in AttemptRow
  OBVIOUS
<1>3. /\ CloseAttempt(rows, k, status) \in Seq(AttemptRow)
      /\ Len(CloseAttempt(rows, k, status)) = Len(rows)
      /\ \A i \in 1..Len(rows) :
            CloseAttempt(rows, k, status)[i] =
               IF i = k THEN WithStatus(rows[i], status) ELSE rows[i]
  <2>1. rows \in [1..Len(rows) -> AttemptRow]
    OBVIOUS
  <2>2. CloseAttempt(rows, k, status) \in [1..Len(rows) -> AttemptRow]
    BY <1>1, <2>1, Zenon DEF CloseAttempt
  <2>3. \A i \in 1..Len(rows) :
           CloseAttempt(rows, k, status)[i] =
              IF i = k THEN WithStatus(rows[i], status) ELSE rows[i]
    BY <2>1 DEF CloseAttempt
  <2> QED
    BY <2>2, <2>3
<1>4. /\ FailRunning(rows) \in [1..Len(rows) -> AttemptRow]
      /\ \A i \in 1..Len(rows) :
            FailRunning(rows)[i] = IF rows[i].status = "running"
                                   THEN WithStatus(rows[i], "failed") ELSE rows[i]
  BY <1>1, <1>2, Zenon DEF FailRunning
<1>5. FailRunning(rows) \in Seq(AttemptRow) /\ Len(FailRunning(rows)) = Len(rows)
  BY <1>4
<1> QED
  BY <1>3, <1>4, <1>5

\* The columns of an attempt whose status is set.
LEMMA StatusColumns ==
    ASSUME NEW a \in AttemptRow, NEW status \in AttemptStatuses
    PROVE  /\ WithStatus(a, status).status = status
           /\ WithStatus(a, status).attempt_no = a.attempt_no
           /\ WithStatus(a, status).retry_cycle_no = a.retry_cycle_no
           /\ WithStatus(a, status).cycle_attempt_no = a.cycle_attempt_no
BY DEF AttemptRow, WithStatus

\* Attempt by attempt: which statuses the two operators change.
LEMMA AttemptColumns ==
    ASSUME NEW rows \in Seq(AttemptRow), NEW status \in AttemptStatuses, NEW k \in Nat,
           NEW i \in 1..Len(rows),
           NEW new \in {CloseAttempt(rows, k, status)[i], FailRunning(rows)[i]}
    PROVE  /\ new.attempt_no = rows[i].attempt_no
           /\ new.retry_cycle_no = rows[i].retry_cycle_no
           /\ new.cycle_attempt_no = rows[i].cycle_attempt_no
           /\ CloseAttempt(rows, k, status)[i].status =
                 IF i = k THEN status ELSE rows[i].status
           /\ FailRunning(rows)[i].status =
                 IF rows[i].status = "running" THEN "failed" ELSE rows[i].status
<1>1. rows[i] \in AttemptRow /\ "failed" \in AttemptStatuses
  BY DEF AttemptStatuses
<1>2. CloseAttempt(rows, k, status)[i] =
         IF i = k THEN WithStatus(rows[i], status) ELSE rows[i]
  BY DEF CloseAttempt
<1>3. FailRunning(rows)[i] =
         IF rows[i].status = "running" THEN WithStatus(rows[i], "failed") ELSE rows[i]
  BY AttemptRows
<1> QED
  BY <1>1, <1>2, <1>3, StatusColumns

-----------------------------------------------------------------------------
(* Types. *)

LEMMA ReleaseTypes ==
    ASSUME TypeOK, NEW w \in Workers, Release(w)
    PROVE  /\ pc' \in [Workers -> {"idle", "claimed", "calling"}]
           /\ on' \in [Workers -> Tasks \cup {None}]
           /\ row' \in [Workers -> TaskRow]
           /\ att' \in [Workers -> Nat]
           /\ now_old' \in [Workers -> BOOLEAN]
BY RowTypes DEF TypeOK, Release

LEMMA SettleTypes ==
    ASSUME TypeOK, NEW w \in Workers, NEW t \in Tasks,
           NEW status \in Statuses, NEW error \in ErrorCodes,
           NEW result \in Results \cup {None}, NEW attempt_status \in AttemptStatuses,
           Settle(w, t, status, error, result, attempt_status),
           versions' \in [Tasks -> Nat], outbox' \in [Tasks -> Nat],
           UNCHANGED queue, UNCHANGED bounds
    PROVE  TypeOK'
<1>1. task[t] \in TaskRow /\ row[w] \in TaskRow /\ att[w] \in Nat
      /\ attempts[t] \in Seq(AttemptRow)
  BY DEF TypeOK
<1>2. task' \in [Tasks -> TaskRow]
  BY <1>1, RowTypes DEF Settle, TypeOK
<1>3. attempts' \in [Tasks -> Seq(AttemptRow)]
  BY <1>1, AttemptRows DEF Settle, TypeOK
<1> QED
  BY <1>2, <1>3, ReleaseTypes DEF Settle, TypeOK, bounds

\* The values a worker may settle with have the types of their columns.
LEMMA OutcomeTypes ==
    ASSUME TypeOK, NEW w \in Workers, NEW t \in Tasks, NEW r \in Results
    PROVE  /\ ResultAfterFailure(w, t, r) \in Results \cup {None}
           /\ row[w].error_code \in ErrorCodes
           /\ RowsAfterPersist(t) \in Nat
           /\ versions[t] \in Nat
BY DEF TypeOK, TaskRow, ResultAfterFailure, RowsAfterPersist

\* A step preserves the types.  The numbering is needed where a worker computes
\* the next attempt number: it makes the set of numbers have a maximum.
LEMMA TypeStep ==
    ASSUME TypeOK, AttemptNumbering, [Next]_vars
    PROVE  TypeOK'
<1>1. ASSUME NEW t \in Tasks, ApiStep(t) PROVE TypeOK'
  <2>0. task[t] \in TaskRow /\ attempts[t] \in Seq(AttemptRow)
    BY DEF TypeOK
  <2>1. CASE Create(t)
    BY <2>1, RowTypes DEF Create, Send, TypeOK, workerVars, bounds
  <2>2. CASE Redispatch(t)
    BY <2>2 DEF Redispatch, Send, TypeOK, workerVars, dbVars
  <2>3. CASE retry_ai_task(t)
    BY <2>0, <2>3, RowTypes DEF retry_ai_task, Send, TypeOK, workerVars, bounds
  <2>4. CASE cancel_ai_task(t)
    BY <2>0, <2>4, RowTypes DEF cancel_ai_task, TypeOK, workerVars, msgVars, bounds
  <2>5. CASE mark_stale_failed_ai_task(t)
    <3>1. FailRunning(attempts[t]) \in Seq(AttemptRow)
      BY <2>0, AttemptRows DEF AttemptStatuses
    <3> QED
      BY <2>0, <2>5, <3>1, RowTypes
         DEF mark_stale_failed_ai_task, TypeOK, workerVars, msgVars
  <2>6. CASE StaleAgeReached(t)
    BY <2>0, <2>6, RowTypes DEF StaleAgeReached, TypeOK, msgVars, bounds
  <2> QED
    BY <1>1, <2>1, <2>2, <2>3, <2>4, <2>5, <2>6 DEF ApiStep
<1>2. ASSUME NEW t \in Tasks, BrokerStep(t) PROVE TypeOK'
  <2>0. Route(t) \in Queues
    BY DEF Route, Queues
  <2>1. CASE Enqueue(t)
    BY <2>0, <2>1 DEF Enqueue, TypeOK, dbVars, workerVars, bounds
  <2>2. CASE LoseDispatch(t)
    BY <2>2 DEF LoseDispatch, TypeOK, dbVars, workerVars
  <2>3. ASSUME NEW q \in Queues, LoseMessage(q, t) PROVE TypeOK'
    BY <2>3 DEF LoseMessage, TypeOK, dbVars, workerVars
  <2>4. ASSUME NEW q \in Queues, StrayMessage(q, t) PROVE TypeOK'
    BY <2>4 DEF StrayMessage, TypeOK, dbVars, workerVars
  <2>5. CASE Reroute(t)
    <3>1. queue["default"][t] - 1 \in Nat /\ queue["sensitive"][t] + 1 \in Nat
      BY <2>5 DEF Reroute, TypeOK, Queues
    <3>2. \A m, n \in Nat : [queue EXCEPT !["default"][t] = m, !["sensitive"][t] = n]
                             \in [Queues -> [Tasks -> Nat]]
      BY DEF TypeOK, Queues
    <3>3. queue' = [queue EXCEPT !["default"][t] = queue["default"][t] - 1,
                                 !["sensitive"][t] = queue["sensitive"][t] + 1]
      BY <2>5 DEF Reroute, TypeOK, Queues
    <3>4. queue' \in [Queues -> [Tasks -> Nat]]
      BY <3>1, <3>2, <3>3
    <3> QED
      BY <2>5, <3>4 DEF Reroute, TypeOK, dbVars, workerVars, bounds
  <2>6. CASE Reject(t)
    BY <2>6 DEF Reject, TypeOK, Queues, dbVars, workerVars, bounds
  <2>7. CASE SkipNotPending(t)
    BY <2>0, <2>7 DEF SkipNotPending, TypeOK, dbVars, workerVars, bounds
  <2> QED
    BY <1>2, <2>1, <2>2, <2>3, <2>4, <2>5, <2>6, <2>7 DEF BrokerStep
<1>3. ASSUME NEW w \in Workers, NEW t \in Tasks, Claim(w, t) PROVE TypeOK'
  <2>1. Route(t) \in Queues /\ task[t] \in TaskRow
    BY DEF Route, Queues, TypeOK
  <2>2. queue' \in [Queues -> [Tasks -> Nat]]
    BY <1>3, <2>1 DEF Claim, TypeOK
  <2>3. task' \in [Tasks -> TaskRow]
    BY <1>3, <2>1, RowTypes DEF Claim, TypeOK
  <2> QED
    BY <1>3, <2>2, <2>3 DEF Claim, TypeOK, bounds
<1>4. ASSUME NEW w \in Workers, NEW t \in Tasks, Allocate(w, t) PROVE TypeOK'
  <2> DEFINE locked == StartedRow(task[t], max_attempt_no(t) + 1, now_old[w])
  <2>1. max_attempt_no(t) \in Nat
    BY NextAttemptNo DEF TypeOK
  <2>2. task[t] \in TaskRow /\ now_old[w] \in BOOLEAN /\ attempts[t] \in Seq(AttemptRow)
    BY DEF TypeOK
  <2>3. locked \in TaskRow
    BY <2>1, <2>2, RowTypes
  <2>4. NewAttempt(locked) \in AttemptRow
    BY <2>3 DEF NewAttempt, TaskRow, AttemptRow, AttemptStatuses
  <2> HIDE DEF locked
  <2>5. /\ task' = [task EXCEPT ![t] = locked]
        /\ attempts' = [attempts EXCEPT ![t] = Append(attempts[t], NewAttempt(locked))]
        /\ pc' = [pc EXCEPT ![w] = "calling"]
        /\ row' = [row EXCEPT ![w] = locked]
        /\ att' = [att EXCEPT ![w] = Len(attempts[t]) + 1]
        /\ UNCHANGED <<versions, msgVars, on, now_old, bounds>>
    BY <1>4 DEF Allocate, locked
  <2> QED
    BY <2>2, <2>3, <2>4, <2>5 DEF TypeOK, msgVars, bounds
<1>5. ASSUME NEW w \in Workers, NEW t \in Tasks, Finish(w, t) PROVE TypeOK'
  <2> USE DEF msgVars
  <2>1. ASSUME NEW r \in Results, FinishSucceeded(w, t, r) PROVE TypeOK'
    <3>1. versions' \in [Tasks -> Nat] /\ outbox' \in [Tasks -> Nat]
      BY <2>1, OutcomeTypes DEF FinishSucceeded, TypeOK
    <3> QED
      BY <2>1, <3>1, OutcomeTypes, SettleTypes
         DEF FinishSucceeded, Statuses, AttemptStatuses
  <2>2. ASSUME NEW r \in Results, NEW status \in {"output_invalid", "failed"},
               PersistFailed(w, t, r, status)
        PROVE  TypeOK'
    <3>1. versions' \in [Tasks -> Nat] /\ outbox' \in [Tasks -> Nat]
      BY <2>2, OutcomeTypes DEF PersistFailed, TypeOK
    <3> QED
      BY <2>2, <3>1, OutcomeTypes, SettleTypes
         DEF PersistFailed, Statuses, AttemptStatuses, ErrorCodes
  <2>3. ASSUME NEW r \in Results, FinishOutputInvalid(w, t, r) PROVE TypeOK'
    <3>1. versions' \in [Tasks -> Nat] /\ outbox' \in [Tasks -> Nat]
      BY <2>3 DEF FinishOutputInvalid, TypeOK
    <3> QED
      BY <2>3, <3>1, OutcomeTypes, SettleTypes
         DEF FinishOutputInvalid, Statuses, AttemptStatuses, ErrorCodes
  <2>4. ASSUME NEW r \in Results, NEW c \in {"retryable", "non_retryable"},
               FinishFailed(w, t, r, c)
        PROVE  TypeOK'
    <3>1. versions' \in [Tasks -> Nat] /\ outbox' \in [Tasks -> Nat]
      BY <2>4 DEF FinishFailed, TypeOK
    <3> QED
      BY <2>4, <3>1, OutcomeTypes, SettleTypes
         DEF FinishFailed, Statuses, AttemptStatuses, ErrorCodes
  <2>5. ASSUME NEW r \in Results, AutoRetry(w, t, r) PROVE TypeOK'
    <3>1. versions' \in [Tasks -> Nat] /\ outbox' \in [Tasks -> Nat]
      BY <2>5 DEF AutoRetry, Send, TypeOK
    <3> QED
      BY <2>5, <3>1, OutcomeTypes, SettleTypes
         DEF AutoRetry, Statuses, AttemptStatuses, ErrorCodes
  <2>6. ASSUME NEW r \in Results, LateAfterCancel(w, t, r) PROVE TypeOK'
    <3>1. versions' \in [Tasks -> Nat] /\ outbox' \in [Tasks -> Nat]
      BY <2>6 DEF LateAfterCancel, TypeOK
    <3> QED
      BY <2>6, <3>1, OutcomeTypes, SettleTypes
         DEF LateAfterCancel, Statuses, AttemptStatuses
  <2>7. CASE SkippedStaleOwner(w, t)
    BY <2>7, ReleaseTypes DEF SkippedStaleOwner, TypeOK, dbVars, bounds
  <2> QED
    BY <1>5, <2>1, <2>2, <2>3, <2>4, <2>5, <2>6, <2>7 DEF Finish
<1>6. ASSUME NEW w \in Workers, Crash(w) PROVE TypeOK'
  BY <1>6, ReleaseTypes DEF Crash, TypeOK, dbVars, msgVars
<1>7. CASE UNCHANGED vars
  BY <1>7 DEF TypeOK, vars, dbVars, msgVars, workerVars, bounds
<1> QED
  BY <1>1, <1>2, <1>3, <1>4, <1>5, <1>6, <1>7 DEF Next, WorkerStep

-----------------------------------------------------------------------------
(* Attempt numbers. *)

\* Rows and numbers after a worker commits: the counters are as they were.
LEMMA SettleRows ==
    ASSUME TypeOK, NEW w \in Workers, NEW t \in Tasks,
           NEW status \in Statuses, NEW error \in ErrorCodes,
           NEW result \in Results \cup {None}, NEW attempt_status \in AttemptStatuses,
           Settle(w, t, status, error, result, attempt_status)
    PROVE  /\ \A u \in Tasks :
                /\ task'[u].attempt_count = task[u].attempt_count
                /\ task'[u].retry_cycle_no = task[u].retry_cycle_no
                /\ task'[u].cycle_attempt_count = task[u].cycle_attempt_count
                /\ Len(attempts'[u]) = Len(attempts[u])
                /\ \A i \in 1..Len(attempts[u]) :
                      /\ attempts'[u][i].attempt_no = attempts[u][i].attempt_no
                      /\ attempts'[u][i].retry_cycle_no = attempts[u][i].retry_cycle_no
                      /\ attempts'[u][i].cycle_attempt_no = attempts[u][i].cycle_attempt_no
                      /\ attempts'[u][i].status =
                            IF u = t /\ i = att[w] THEN attempt_status
                                                   ELSE attempts[u][i].status
                /\ u # t => task'[u] = task[u]
           /\ task'[t].status = IF status = row[w].status THEN task[t].status ELSE status
           /\ task'[t].error_code =
                 IF error = row[w].error_code THEN task[t].error_code ELSE error
           /\ task'[t].result_payload =
                 IF result = row[w].result_payload THEN task[t].result_payload ELSE result
<1>1. /\ task[t] \in TaskRow /\ row[w] \in TaskRow /\ att[w] \in Nat
      /\ \A u \in Tasks : attempts[u] \in Seq(AttemptRow)
  BY DEF TypeOK
<1>2. /\ task' = [task EXCEPT ![t] =
                    Flush(task[t], row[w], FinishedRow(row[w], status, error, result))]
      /\ attempts' = [attempts EXCEPT ![t] =
                        CloseAttempt(attempts[t], att[w], attempt_status)]
  BY DEF Settle
<1>3. /\ \A u \in Tasks \ {t} : task'[u] = task[u] /\ attempts'[u] = attempts[u]
      /\ task'[t] = Flush(task[t], row[w], FinishedRow(row[w], status, error, result))
      /\ attempts'[t] = CloseAttempt(attempts[t], att[w], attempt_status)
  BY <1>2 DEF TypeOK
<1>4. Len(attempts'[t]) = Len(attempts[t])
  BY <1>1, <1>3, AttemptRows
<1>5. ASSUME NEW i \in 1..Len(attempts[t])
      PROVE  /\ attempts'[t][i].attempt_no = attempts[t][i].attempt_no
             /\ attempts'[t][i].retry_cycle_no = attempts[t][i].retry_cycle_no
             /\ attempts'[t][i].cycle_attempt_no = attempts[t][i].cycle_attempt_no
             /\ attempts'[t][i].status = IF i = att[w] THEN attempt_status
                                                       ELSE attempts[t][i].status
  BY <1>1, <1>3, AttemptColumns
<1>6. /\ task'[t].status = IF status = row[w].status THEN task[t].status ELSE status
      /\ task'[t].error_code =
            IF error = row[w].error_code THEN task[t].error_code ELSE error
      /\ task'[t].result_payload =
            IF result = row[w].result_payload THEN task[t].result_payload ELSE result
      /\ task'[t].attempt_count = task[t].attempt_count
      /\ task'[t].retry_cycle_no = task[t].retry_cycle_no
      /\ task'[t].cycle_attempt_count = task[t].cycle_attempt_count
  BY <1>1, <1>3, FlushColumns, SMTT(30)
<1> QED
  BY <1>3, <1>4, <1>5, <1>6

\* Every way a provider call can end, as a commit with some values.
LEMMA FinishSettles ==
    ASSUME TypeOK, NEW w \in Workers, NEW t \in Tasks, Finish(w, t)
    PROVE  /\ pc[w] = "calling" /\ on[w] = t
           /\ \/ SkippedStaleOwner(w, t)
              \/ \E status \in Statuses \ {"absent"}, error \in ErrorCodes,
                    result \in Results \cup {None}, attempt_status \in AttemptStatuses :
                    Settle(w, t, status, error, result, attempt_status)
<1> DEFINE Goal ==
       /\ pc[w] = "calling" /\ on[w] = t
       /\ \/ SkippedStaleOwner(w, t)
          \/ \E status \in Statuses \ {"absent"}, error \in ErrorCodes,
                result \in Results \cup {None}, attempt_status \in AttemptStatuses :
                Settle(w, t, status, error, result, attempt_status)
<1> USE DEF Statuses, AttemptStatuses, ErrorCodes, OwnsPerSession
<1>1. ASSUME NEW r \in Results, FinishSucceeded(w, t, r) PROVE Goal
  <2>1. Settle(w, t, "succeeded", row[w].error_code, r, "succeeded")
    BY <1>1 DEF FinishSucceeded
  <2> QED
    BY <1>1, <2>1, OutcomeTypes DEF FinishSucceeded
<1>2. ASSUME NEW r \in Results, NEW status \in {"output_invalid", "failed"},
             PersistFailed(w, t, r, status)
      PROVE  Goal
  <2>1. Settle(w, t, status, "error", ResultAfterFailure(w, t, r), status)
    BY <1>2 DEF PersistFailed
  <2> QED
    <3>1. pc[w] = "calling" /\ on[w] = t
      BY <1>2 DEF PersistFailed
    <3>2. status \in Statuses \ {"absent"} /\ status \in AttemptStatuses
      OBVIOUS
    <3>3. ResultAfterFailure(w, t, r) \in Results \cup {None} /\ "error" \in ErrorCodes
      BY OutcomeTypes
    <3>4. \E s \in Statuses \ {"absent"}, error \in ErrorCodes,
             result \in Results \cup {None}, a \in AttemptStatuses :
             Settle(w, t, s, error, result, a)
      <4> HIDE DEF Statuses, AttemptStatuses, ErrorCodes
      <4> QED
        BY <2>1, <3>2, <3>3
    <3> QED
      BY <3>1, <3>4
<1>3. ASSUME NEW r \in Results, FinishOutputInvalid(w, t, r) PROVE Goal
  <2>1. Settle(w, t, "output_invalid", "error", ResultAfterFailure(w, t, r),
               "output_invalid")
    BY <1>3 DEF FinishOutputInvalid
  <2> QED
    BY <1>3, <2>1, OutcomeTypes DEF FinishOutputInvalid
<1>4. ASSUME NEW r \in Results, NEW c \in {"retryable", "non_retryable"},
             FinishFailed(w, t, r, c)
      PROVE  Goal
  <2>1. Settle(w, t, "failed", "error", ResultAfterFailure(w, t, r), "failed")
    BY <1>4 DEF FinishFailed
  <2> QED
    BY <1>4, <2>1, OutcomeTypes DEF FinishFailed
<1>5. ASSUME NEW r \in Results, AutoRetry(w, t, r) PROVE Goal
  <2>1. Settle(w, t, "pending", "error", ResultAfterFailure(w, t, r), "failed")
    BY <1>5 DEF AutoRetry
  <2> QED
    BY <1>5, <2>1, OutcomeTypes DEF AutoRetry
<1>6. ASSUME NEW r \in Results, LateAfterCancel(w, t, r) PROVE Goal
  <2>1. Settle(w, t, "cancelled", row[w].error_code, ResultAfterFailure(w, t, r),
               "failed")
    BY <1>6 DEF LateAfterCancel
  <2> QED
    BY <1>6, <2>1, OutcomeTypes DEF LateAfterCancel
<1>7. CASE SkippedStaleOwner(w, t)
  BY <1>7 DEF SkippedStaleOwner
<1> QED
  BY <1>1, <1>2, <1>3, <1>4, <1>5, <1>6, <1>7 DEF Finish

\* A row that is not inserted yet has nothing, and nobody works on it.
AbsentIsBlank ==
    \A t \in Tasks : task[t].status = "absent" =>
        /\ task[t].attempt_count = 0
        /\ task[t].retry_cycle_no = 0
        /\ task[t].cycle_attempt_count = 0
        /\ attempts[t] = <<>>
        /\ \A w \in Workers : on[w] # t

\* What a step can do to the counters and the attempts of a task: nothing, ...
SameCounters(t) ==
    /\ task'[t].attempt_count = task[t].attempt_count
    /\ task'[t].retry_cycle_no = task[t].retry_cycle_no
    /\ task'[t].cycle_attempt_count = task[t].cycle_attempt_count

SameAttempts(t) ==
    /\ Len(attempts'[t]) = Len(attempts[t])
    /\ \A i \in 1..Len(attempts[t]) :
          /\ attempts'[t][i].attempt_no = attempts[t][i].attempt_no
          /\ attempts'[t][i].retry_cycle_no = attempts[t][i].retry_cycle_no
          /\ attempts'[t][i].cycle_attempt_no = attempts[t][i].cycle_attempt_no

\* ... a manual retry, which opens a cycle, ...
CycleOpened(t) ==
    /\ task'[t].attempt_count = task[t].attempt_count
    /\ task'[t].retry_cycle_no = task[t].retry_cycle_no + 1
    /\ task'[t].cycle_attempt_count = 0
    /\ SameAttempts(t)

\* ... or the start of an attempt.
AttemptStarted(t) ==
    /\ task'[t].attempt_count = Len(attempts[t]) + 1
    /\ task'[t].retry_cycle_no = task[t].retry_cycle_no
    /\ task'[t].cycle_attempt_count = task[t].cycle_attempt_count + 1
    /\ attempts'[t] = Append(attempts[t], NewAttempt(task'[t]))

LEMMA CounterEffect ==
    ASSUME TypeOK, AttemptNumbering, AbsentIsBlank, [Next]_vars
    PROVE  \A t \in Tasks : \/ SameCounters(t) /\ SameAttempts(t)
                            \/ CycleOpened(t)
                            \/ AttemptStarted(t)
<1> DEFINE Goal == \A u \in Tasks : \/ SameCounters(u) /\ SameAttempts(u)
                                    \/ CycleOpened(u)
                                    \/ AttemptStarted(u)
<1>0. /\ \A u \in Tasks : task[u] \in TaskRow /\ attempts[u] \in Seq(AttemptRow)
      /\ task \in [Tasks -> TaskRow]
      /\ attempts \in [Tasks -> Seq(AttemptRow)]
  BY DEF TypeOK
<1>1. ASSUME UNCHANGED <<task, attempts>> PROVE Goal
  BY <1>1 DEF SameCounters, SameAttempts
<1>2. ASSUME NEW t \in Tasks, ApiStep(t) PROVE Goal
  <2>1. CASE Create(t)
    BY <1>0, <2>1, RowColumns DEF Create, AbsentIsBlank, SameCounters, SameAttempts
  <2>2. CASE Redispatch(t)
    BY <1>1, <2>2 DEF Redispatch, dbVars
  <2>3. CASE retry_ai_task(t)
    BY <1>0, <2>3, RowColumns
       DEF retry_ai_task, CycleOpened, SameCounters, SameAttempts
  <2>4. CASE cancel_ai_task(t)
    BY <1>0, <2>4, RowColumns DEF cancel_ai_task, SameCounters, SameAttempts
  <2>5. CASE mark_stale_failed_ai_task(t)
    <3>1. SameCounters(t) /\ \A u \in Tasks \ {t} : SameCounters(u) /\ SameAttempts(u)
      BY <1>0, <2>5, RowColumns DEF mark_stale_failed_ai_task, SameCounters, SameAttempts
    <3>2. attempts'[t] = FailRunning(attempts[t])
      BY <1>0, <2>5 DEF mark_stale_failed_ai_task
    <3>3. SameAttempts(t)
      BY <1>0, <3>2, AttemptRows, AttemptColumns DEF SameAttempts, AttemptStatuses
    <3> QED
      BY <3>1, <3>3
  <2>6. CASE StaleAgeReached(t)
    BY <1>0, <2>6, RowColumns DEF StaleAgeReached, SameCounters, SameAttempts
  <2> QED
    BY <1>2, <2>1, <2>2, <2>3, <2>4, <2>5, <2>6 DEF ApiStep
<1>3. ASSUME NEW t \in Tasks, BrokerStep(t) PROVE Goal
  BY <1>1, <1>3 DEF BrokerStep, Enqueue, LoseDispatch, LoseMessage, StrayMessage,
                    Reroute, Reject, SkipNotPending, dbVars
<1>4. ASSUME NEW w \in Workers, NEW t \in Tasks, Claim(w, t) PROVE Goal
  BY <1>0, <1>4, RowColumns DEF Claim, SameCounters, SameAttempts
<1>5. ASSUME NEW w \in Workers, NEW t \in Tasks, Allocate(w, t) PROVE Goal
  <2> DEFINE locked == StartedRow(task[t], max_attempt_no(t) + 1, now_old[w])
  <2>1. now_old[w] \in BOOLEAN /\ Len(attempts[t]) + 1 \in Nat
    BY <1>0 DEF TypeOK
  <2>2. /\ locked.attempt_count = Len(attempts[t]) + 1
        /\ locked.retry_cycle_no = task[t].retry_cycle_no
        /\ locked.cycle_attempt_count = task[t].cycle_attempt_count + 1
    BY <1>0, <2>1, NextAttemptNo, StartedColumns
  <2>3. /\ task' = [task EXCEPT ![t] = locked]
        /\ attempts' = [attempts EXCEPT ![t] = Append(attempts[t], NewAttempt(locked))]
    BY <1>5 DEF Allocate
  <2> HIDE DEF locked
  <2>4. AttemptStarted(t)
    BY <1>0, <2>2, <2>3 DEF AttemptStarted
  <2>5. \A u \in Tasks \ {t} : SameCounters(u) /\ SameAttempts(u)
    BY <1>0, <2>3 DEF SameCounters, SameAttempts
  <2> QED
    BY <2>4, <2>5
<1>6. ASSUME NEW w \in Workers, NEW t \in Tasks, Finish(w, t) PROVE Goal
  <2>1. CASE SkippedStaleOwner(w, t)
    BY <1>1, <2>1 DEF SkippedStaleOwner, dbVars
  <2>2. ASSUME NEW status \in Statuses, NEW error \in ErrorCodes,
               NEW result \in Results \cup {None}, NEW attempt_status \in AttemptStatuses,
               Settle(w, t, status, error, result, attempt_status)
        PROVE  Goal
    BY <2>2, SettleRows DEF SameCounters, SameAttempts
  <2> QED
    BY <1>6, <2>1, <2>2, FinishSettles
<1>7. ASSUME NEW w \in Workers, Crash(w) PROVE Goal
  BY <1>1, <1>7 DEF Crash, dbVars
<1>8. CASE UNCHANGED vars
  BY <1>1, <1>8 DEF vars, dbVars
<1> QED
  BY <1>2, <1>3, <1>4, <1>5, <1>6, <1>7, <1>8 DEF Next, WorkerStep

\* A step preserves AbsentIsBlank: only Create leaves the absent status, and no
\* action enters it.
LEMMA BlankStep ==
    ASSUME TypeOK, AbsentIsBlank, [Next]_vars
    PROVE  AbsentIsBlank'
<1>0. /\ \A u \in Tasks : task[u] \in TaskRow /\ attempts[u] \in Seq(AttemptRow)
      /\ task \in [Tasks -> TaskRow]
      /\ attempts \in [Tasks -> Seq(AttemptRow)]
      /\ on \in [Workers -> Tasks \cup {None}]
  BY DEF TypeOK
<1>1. ASSUME UNCHANGED <<task, attempts, on>> PROVE AbsentIsBlank'
  BY <1>1 DEF AbsentIsBlank
<1>2. ASSUME NEW t \in Tasks, ApiStep(t) PROVE AbsentIsBlank'
  <2>1. CASE Create(t)
    BY <1>0, <2>1, RowColumns DEF Create, AbsentIsBlank, workerVars
  <2>2. CASE Redispatch(t)
    BY <1>1, <2>2 DEF Redispatch, dbVars, workerVars
  <2>3. CASE retry_ai_task(t)
    BY <1>0, <2>3, RowColumns DEF retry_ai_task, AbsentIsBlank, workerVars
  <2>4. CASE cancel_ai_task(t)
    BY <1>0, <2>4, RowColumns DEF cancel_ai_task, AbsentIsBlank, workerVars
  <2>5. CASE mark_stale_failed_ai_task(t)
    BY <1>0, <2>5, RowColumns DEF mark_stale_failed_ai_task, AbsentIsBlank, workerVars
  <2>6. CASE StaleAgeReached(t)
    BY <1>0, <2>6, RowColumns DEF StaleAgeReached, AbsentIsBlank
  <2> QED
    BY <1>2, <2>1, <2>2, <2>3, <2>4, <2>5, <2>6 DEF ApiStep
<1>3. ASSUME NEW t \in Tasks, BrokerStep(t) PROVE AbsentIsBlank'
  BY <1>1, <1>3 DEF BrokerStep, Enqueue, LoseDispatch, LoseMessage, StrayMessage,
                    Reroute, Reject, SkipNotPending, dbVars, workerVars
<1>4. ASSUME NEW w \in Workers, NEW t \in Tasks, Claim(w, t) PROVE AbsentIsBlank'
  BY <1>0, <1>4, RowColumns DEF Claim, AbsentIsBlank
<1>5. ASSUME NEW w \in Workers, NEW t \in Tasks, Allocate(w, t) PROVE AbsentIsBlank'
  <2>1. task[t].status # "absent"
    BY <1>5 DEF Allocate, AbsentIsBlank
  <2>2. PICK locked : /\ task' = [task EXCEPT ![t] = locked]
                      /\ locked.status = task[t].status
                      /\ \A u \in Tasks \ {t} : attempts'[u] = attempts[u]
    <3>1. max_attempt_no(t) \in Nat => max_attempt_no(t) + 1 \in Nat
      OBVIOUS
    <3>2. StartedRow(task[t], max_attempt_no(t) + 1, now_old[w]).status = task[t].status
      BY <1>0 DEF StartedRow, TaskRow
    <3> QED
      BY <1>0, <1>5, <3>2 DEF Allocate
  <2>3. on' = on
    BY <1>5 DEF Allocate
  <2> QED
    BY <1>0, <2>1, <2>2, <2>3 DEF AbsentIsBlank
<1>6. ASSUME NEW w \in Workers, NEW v \in Tasks \cup {None}, on' = [on EXCEPT ![w] = None],
             UNCHANGED <<task, attempts>>
      PROVE  AbsentIsBlank'
  BY <1>0, <1>6, NoneAssumption DEF AbsentIsBlank
<1>7. ASSUME NEW w \in Workers, NEW t \in Tasks, Finish(w, t) PROVE AbsentIsBlank'
  <2>1. CASE SkippedStaleOwner(w, t)
    BY <1>6, <2>1 DEF SkippedStaleOwner, Release, dbVars
  <2>2. ASSUME NEW status \in Statuses \ {"absent"}, NEW error \in ErrorCodes,
               NEW result \in Results \cup {None}, NEW attempt_status \in AttemptStatuses,
               Settle(w, t, status, error, result, attempt_status)
        PROVE  AbsentIsBlank'
    <3>1. task[t].status # "absent"
      BY <1>7, FinishSettles DEF AbsentIsBlank
    <3>2. task'[t].status # "absent" /\ \A u \in Tasks \ {t} : task'[u] = task[u]
      BY <2>2, <3>1, SettleRows
    <3>3. /\ on' = [on EXCEPT ![w] = None]
          /\ \A u \in Tasks \ {t} : attempts'[u] = attempts[u]
      BY <1>0, <2>2 DEF Settle, Release
    <3> QED
      BY <1>0, <3>2, <3>3, NoneAssumption DEF AbsentIsBlank
  <2> QED
    BY <1>7, <2>1, <2>2, FinishSettles
<1>8. ASSUME NEW w \in Workers, Crash(w) PROVE AbsentIsBlank'
  BY <1>6, <1>8 DEF Crash, Release, dbVars
<1>9. CASE UNCHANGED vars
  BY <1>1, <1>9 DEF vars, dbVars, workerVars
<1> QED
  BY <1>2, <1>3, <1>4, <1>5, <1>7, <1>8, <1>9 DEF Next, WorkerStep

\* Within the current cycle of its task an attempt has a number that
\* cycle_attempt_count has reached, and no attempt is of a later cycle.
CycleCounted ==
    \A t \in Tasks : \A i \in 1..Len(attempts[t]) :
        /\ attempts[t][i].retry_cycle_no <= task[t].retry_cycle_no
        /\ attempts[t][i].retry_cycle_no = task[t].retry_cycle_no
           => attempts[t][i].cycle_attempt_no <= task[t].cycle_attempt_count

\* The inductive invariant of the counters.
CounterInv ==
    TypeOK /\ AbsentIsBlank /\ AttemptNumbering /\ CycleNumbering /\ CycleCounted

LEMMA CountersAlways == Spec => []CounterInv
<1>1. Init => CounterInv
  <2> SUFFICES ASSUME Init PROVE CounterInv
    OBVIOUS
  <2>1. TypeOK
    BY RowTypes DEF Init, TypeOK, Queues
  <2>2. AbsentIsBlank
    BY RowColumns, NoneAssumption DEF Init, AbsentIsBlank
  <2>3. AttemptNumbering /\ CycleNumbering /\ CycleCounted
    BY RowColumns DEF Init, AttemptNumbering, CycleNumbering, CycleCounted
  <2> QED
    BY <2>1, <2>2, <2>3 DEF CounterInv
<1>2. CounterInv /\ [Next]_vars => CounterInv'
  <2> SUFFICES ASSUME CounterInv, [Next]_vars PROVE CounterInv'
    OBVIOUS
  <2> USE DEF CounterInv
  <2>1. TypeOK' /\ AbsentIsBlank'
    BY TypeStep, BlankStep
  <2>2. ASSUME NEW t \in Tasks
        PROVE  /\ task'[t].attempt_count = Len(attempts'[t])
               /\ \A i \in 1..Len(attempts'[t]) :
                     /\ attempts'[t][i].attempt_no = i
                     /\ attempts'[t][i].retry_cycle_no <= task'[t].retry_cycle_no
                     /\ attempts'[t][i].retry_cycle_no = task'[t].retry_cycle_no
                        => attempts'[t][i].cycle_attempt_no <= task'[t].cycle_attempt_count
               /\ \A i, j \in 1..Len(attempts'[t]) :
                     /\ i < j
                     /\ attempts'[t][i].retry_cycle_no = attempts'[t][j].retry_cycle_no
                     => attempts'[t][i].cycle_attempt_no < attempts'[t][j].cycle_attempt_no
    <3>0. /\ attempts[t] \in Seq(AttemptRow)
          /\ \A i \in 1..Len(attempts[t]) : /\ attempts[t][i].retry_cycle_no \in Nat
                                            /\ attempts[t][i].cycle_attempt_no \in Nat
          /\ task[t].retry_cycle_no \in Nat /\ task[t].cycle_attempt_count \in Nat
      <4>1. task[t] \in TaskRow /\ attempts[t] \in Seq(AttemptRow)
        BY DEF TypeOK
      <4>2. \A i \in 1..Len(attempts[t]) : attempts[t][i] \in AttemptRow
        BY <4>1
      <4>3. \A a \in AttemptRow : a.retry_cycle_no \in Nat /\ a.cycle_attempt_no \in Nat
        BY DEF AttemptRow
      <4>4. task[t].retry_cycle_no \in Nat /\ task[t].cycle_attempt_count \in Nat
        BY <4>1 DEF TaskRow
      <4> QED
        BY <4>1, <4>2, <4>3, <4>4
    <3>1. /\ task[t].attempt_count = Len(attempts[t])
          /\ \A i \in 1..Len(attempts[t]) :
                /\ attempts[t][i].attempt_no = i
                /\ attempts[t][i].retry_cycle_no <= task[t].retry_cycle_no
                /\ attempts[t][i].retry_cycle_no = task[t].retry_cycle_no
                   => attempts[t][i].cycle_attempt_no <= task[t].cycle_attempt_count
          /\ \A i, j \in 1..Len(attempts[t]) :
                /\ i < j
                /\ attempts[t][i].retry_cycle_no = attempts[t][j].retry_cycle_no
                => attempts[t][i].cycle_attempt_no < attempts[t][j].cycle_attempt_no
      BY DEF AttemptNumbering, CycleNumbering, CycleCounted
    <3>2. CASE SameCounters(t) /\ SameAttempts(t)
      BY <3>0, <3>1, <3>2 DEF SameCounters, SameAttempts
    <3>3. CASE CycleOpened(t)
      BY <3>0, <3>1, <3>3 DEF CycleOpened, SameAttempts
    <3>4. CASE AttemptStarted(t)
      <4> DEFINE n == Len(attempts[t])
      <4>1. /\ Len(attempts'[t]) = n + 1 /\ n \in Nat
            /\ \A i \in 1..n : attempts'[t][i] = attempts[t][i]
            /\ attempts'[t][n + 1] = NewAttempt(task'[t])
        BY <3>0, <3>4 DEF AttemptStarted
      <4>2. /\ attempts'[t][n + 1].attempt_no = n + 1
            /\ attempts'[t][n + 1].retry_cycle_no = task[t].retry_cycle_no
            /\ attempts'[t][n + 1].cycle_attempt_no = task[t].cycle_attempt_count + 1
        BY <3>4, <4>1 DEF AttemptStarted, NewAttempt
      <4>3. /\ task'[t].attempt_count = n + 1
            /\ task'[t].retry_cycle_no = task[t].retry_cycle_no
            /\ task'[t].cycle_attempt_count = task[t].cycle_attempt_count + 1
        BY <3>4 DEF AttemptStarted
      <4> HIDE DEF n
      <4> QED
        <5>1. ASSUME NEW i \in 1..n + 1
              PROVE  /\ attempts'[t][i].attempt_no = i
                     /\ attempts'[t][i].retry_cycle_no <= task'[t].retry_cycle_no
                     /\ attempts'[t][i].retry_cycle_no = task'[t].retry_cycle_no
                        => attempts'[t][i].cycle_attempt_no <= task'[t].cycle_attempt_count
          <6>1. CASE i \in 1..n
            <7>1. /\ attempts[t][i].attempt_no = i
                  /\ attempts[t][i].retry_cycle_no <= task[t].retry_cycle_no
                  /\ attempts[t][i].retry_cycle_no = task[t].retry_cycle_no
                     => attempts[t][i].cycle_attempt_no <= task[t].cycle_attempt_count
              BY <3>1, <6>1 DEF n
            <7>2. attempts'[t][i] = attempts[t][i]
              BY <4>1, <6>1
            <7>3. attempts[t][i].cycle_attempt_no \in Nat
              BY <3>0, <6>1 DEF n
            <7> QED
              BY <3>0, <4>3, <7>1, <7>2, <7>3
          <6>2. CASE i = n + 1
            BY <3>0, <4>2, <4>3, <6>2
          <6> QED
            BY <4>1, <6>1, <6>2
        <5>2. ASSUME NEW i \in 1..n + 1, NEW j \in 1..n + 1, i < j,
                     attempts'[t][i].retry_cycle_no = attempts'[t][j].retry_cycle_no
              PROVE  attempts'[t][i].cycle_attempt_no < attempts'[t][j].cycle_attempt_no
          <6>1. CASE j \in 1..n
            BY <3>1, <4>1, <5>2, <6>1 DEF n
          <6>2. CASE j = n + 1
            <7>1. i \in 1..n
              BY <4>1, <5>2, <6>2
            <7>2. /\ attempts[t][i].retry_cycle_no = task[t].retry_cycle_no
                  /\ attempts'[t][i] = attempts[t][i]
              BY <4>1, <4>2, <5>2, <6>2, <7>1
            <7>3. attempts[t][i].cycle_attempt_no <= task[t].cycle_attempt_count
              BY <3>1, <7>1, <7>2 DEF n
            <7> QED
              BY <3>0, <4>2, <6>2, <7>1, <7>2, <7>3 DEF n
          <6> QED
            BY <4>1, <6>1, <6>2
        <5> QED
          BY <4>1, <4>3, <5>1, <5>2
    <3> QED
      BY <3>2, <3>3, <3>4, CounterEffect
  <2> QED
    BY <2>1, <2>2 DEF AttemptNumbering, CycleNumbering, CycleCounted
<1> QED
  BY <1>1, <1>2, PTL DEF Spec

\* Every variable keeps its type in every behaviour of the specification.
THEOREM TypeCorrect == Spec => []TypeOK
BY CountersAlways, PTL DEF CounterInv

\* Numbers are allocated without gap or repetition by any number of workers,
\* crashed, late or recovered: the unique constraint on (task_id, attempt_no) of
\* models/ai_task.py is never hit.
THEOREM AttemptsNumbered == Spec => []AttemptNumbering
BY CountersAlways, PTL DEF CounterInv

\* The pair (retry_cycle_no, cycle_attempt_no) identifies an attempt of a task.
THEOREM CyclesNumbered == Spec => []CycleNumbering
BY CountersAlways, PTL DEF CounterInv

-----------------------------------------------------------------------------
(* What the retry rules of the worker and of the JD_PARSE chain come to     *)
(* together (see AiProvider).                                                *)

\* A workflow call fails with a code of its own, never as a rejected output, and
\* succeeds exactly when an answer came (_post_workflow).
LEMMA PostWorkflow ==
    ASSUME NEW reply \in Replies
    PROVE  /\ _post_workflow(reply) = Success <=> reply \in Answers
           /\ _post_workflow(reply).category \in {"none", "retryable", "non_retryable"}
           /\ _post_workflow(reply).category = "none" <=> reply \in Answers
           /\ _post_workflow(reply).code # "output_validation_failed"
<1>1. CASE reply \in Answers
  BY <1>1 DEF _post_workflow, Answers, HttpErrors, Success, Failure
<1>2. CASE reply \in HttpErrors
  BY <1>2 DEF _post_workflow, classify_http_error, Answers, HttpErrors, Success, Failure
<1>3. CASE reply \in {"unconfigured", "timeout", "network_error"}
  BY <1>3 DEF _post_workflow, Answers, HttpErrors, Success, Failure
<1>4. QED BY <1>1, <1>2, <1>3 DEF Replies

LEMMA LastTryIsReply ==
    ASSUME NEW tries \in [1..2 -> Replies], NEW again \in BOOLEAN
    PROVE  LastTry(tries, again) \in Replies
BY DEF LastTry

\* The description step ends accepted, rejected, or with a failure that is not to be
\* retried: whatever was retryable it has tried twice and rejects
\* (_run_dify_jd_parse_chain).
LEMMA DescriptionStep ==
    ASSUME NEW tries \in [1..2 -> Replies]
    PROVE  Verdict(jd_structure(tries)) # "retryable"
<1> DEFINE last == LastTry(tries, jd_try_again(tries[1]))
<1>1. last \in Replies
  BY LastTryIsReply DEF jd_try_again
<1>2. CASE jd_try_again(last) \/ last = "scores"
  BY <1>2 DEF jd_structure, Verdict, Rejected, Failure, Success
<1>3. CASE ~jd_try_again(last) /\ last # "scores"
  <2>1. jd_structure(tries) = _post_workflow(last)
    BY <1>3 DEF jd_structure
  <2>2. _post_workflow(last).category # "retryable"
    BY <1>3 DEF jd_try_again
  <2>3. QED BY <2>1, <2>2, <1>1, PostWorkflow DEF Verdict
<1>4. QED BY <1>2, <1>3

\* JD_PARSE is never retried automatically: a timeout, a network error or a 5xx of
\* either workflow comes out of the chain as a rejected output, which the worker
\* settles at once whatever its category says, while the same failure of a task with
\* one call is retried (should_auto_retry).
THEOREM JdParseNeverRetried == "retryable" \notin Verdicts("JD_PARSE")
<1>1. \A outcome \in JdParseOutcomes : Verdict(outcome) # "retryable"
  <2>1. SUFFICES ASSUME NEW first \in [1..2 -> Replies], NEW second \in [1..2 -> Replies]
                 PROVE  Verdict(_run_dify_jd_parse_chain(first, second)) # "retryable"
    BY DEF JdParseOutcomes
  <2>2. CASE jd_structure(first) = Success
    <3>1. Verdict(score_dimensions(second)) # "retryable"
      BY DEF score_dimensions, Verdict, Rejected, Failure, Success
    <3>2. QED BY <2>2, <3>1 DEF _run_dify_jd_parse_chain
  <2>3. CASE jd_structure(first) # Success
    BY <2>3, DescriptionStep DEF _run_dify_jd_parse_chain
  <2>4. QED BY <2>2, <2>3
<1>2. \A outcome \in run_mock : Verdict(outcome) # "retryable"
  BY DEF run_mock, Verdict, Rejected, Failure, Success
<1>3. _prepare_stage8_provider_input("JD_PARSE") = {}
  BY DEF _prepare_stage8_provider_input, InterviewTypes
<1>4. \A s \in Settings : run_dify("JD_PARSE", s) = JdParseOutcomes
  BY DEF run_dify, InterviewTypes
<1>5. \A outcome \in _run_provider("JD_PARSE") : Verdict(outcome) # "retryable"
  BY <1>1, <1>2, <1>3, <1>4 DEF _run_provider
<1>6. QED BY <1>5 DEF Verdicts
=============================================================================
