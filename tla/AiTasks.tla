------------------------------- MODULE AiTasks -------------------------------
(***************************************************************************)
(* The asynchronous AI task core: rows of ai_tasks and ai_task_attempts,   *)
(* the two Celery queues, the workers that run `_handle_process` and the   *)
(* API calls that create, retry, cancel and recover tasks                  *)
(* (backend/app/workers/ai_tasks.py, backend/app/services/ai_tasks.py).    *)
(*                                                                         *)
(* One action is one database transaction.  Between two transactions of a  *)
(* worker every other process may run.  A worker keeps the task row it     *)
(* loaded in its SQLAlchemy session (`row`): the session is created with   *)
(* expire_on_commit=False (backend/app/db/session.py:18) and SELECT ...    *)
(* FOR UPDATE without populate_existing locks a row but does not refresh   *)
(* the attributes of an object the session already holds, so the checks    *)
(* after the provider call read that copy, and a flush writes only the     *)
(* columns that differ from it.                                            *)
(*                                                                         *)
(* A definition whose name ends in _Suffix is a faulty variant of a later  *)
(* one: some property below tells the two apart.                           *)
(*                                                                         *)
(* Left out: payloads, prompts, error texts, timestamps other than the age *)
(* of updated_at, audit rows, and the countdown of a delayed message       *)
(* (messages are received in any order after any delay).                   *)
(***************************************************************************)
EXTENDS AiProvider, Sequences, FiniteSetsExt

CONSTANTS
    Tasks,           \* rows that may be created in ai_tasks
    SensitiveTasks,  \* those of the interview AI types
    Workers,         \* Celery worker processes
    Results,         \* provider results (result_payload values)
    None,            \* SQL NULL
    MaxAttempts,     \* AI_TASK_MAX_ATTEMPTS
    MaxCycles,       \* bound: manual retries of one task
    MaxRecoveries,   \* bound: admin recoveries of stale running tasks
    MaxLosses,       \* bound: crashes, lost dispatches and lost messages
    MaxStrays        \* bound: duplicated or misrouted messages

ASSUME TasksAssumption     == SensitiveTasks \subseteq Tasks
ASSUME NoneAssumption      == None \notin Tasks /\ None \notin Results
ASSUME BoundsAssumption    == /\ MaxAttempts \in Nat \ {0}
                              /\ MaxCycles \in Nat
                              /\ MaxRecoveries \in Nat
                              /\ MaxLosses \in Nat
                              /\ MaxStrays \in Nat

VARIABLES
    task,       \* ai_tasks: one row per task ("absent" before its INSERT commits)
    attempts,   \* ai_task_attempts of each task, in insertion order
    versions,   \* business rows (question / analysis version, AiResult) written for a task
    outbox,     \* committed requests that still have to call apply_async
    queue,      \* messages per queue and task
    pc,         \* worker: idle, claimed (lines 589-602 done), calling (637 done)
    on,         \* the task a worker handles
    row,        \* the worker session's copy of the task row
    att,        \* the attempt row the worker inserted (index in attempts)
    now_old,    \* whether the worker's `now` (line 588) is past the stale age
    recovered, lost, strays     \* how much of each bound is used

dbVars     == <<task, attempts, versions>>
msgVars    == <<outbox, queue>>
workerVars == <<pc, on, row, att, now_old>>
bounds     == <<recovered, lost, strays>>
vars       == <<dbVars, msgVars, workerVars, bounds>>

Statuses == {"absent", "pending", "running", "succeeded", "failed",
             "output_invalid", "cancelled"}
Settled  == {"succeeded", "failed", "output_invalid", "cancelled"}
Queues   == {"default", "sensitive"}
ErrorCodes == {"none", "error", "stale_running_recovered", "cancelled"}
AttemptStatuses == {"running", "succeeded", "failed", "output_invalid"}

TaskRow == [status : Statuses,
            attempt_count : Nat,
            retry_cycle_no : Nat,
            cycle_attempt_count : Nat,
            error_code : ErrorCodes,
            result_payload : Results \cup {None},
            updated_old : BOOLEAN]     \* updated_at is STALE_RUNNING_MIN_AGE old

AttemptRow == [attempt_no : Nat,
               retry_cycle_no : Nat,
               cycle_attempt_no : Nat,
               status : AttemptStatuses]

AbsentRow == [status |-> "absent", attempt_count |-> 0, retry_cycle_no |-> 0,
              cycle_attempt_count |-> 0, error_code |-> "none",
              result_payload |-> None, updated_old |-> FALSE]

PendingRow == [AbsentRow EXCEPT !.status = "pending"]

\* The entry point a task's messages have to reach, and the one enqueue uses.
Route(t) == IF t \in SensitiveTasks THEN "sensitive" ELSE "default"

should_auto_retry_OneMore(cycle_attempt_count) == cycle_attempt_count <= MaxAttempts

should_auto_retry(cycle_attempt_count) == cycle_attempt_count < MaxAttempts

-----------------------------------------------------------------------------
(* The session: an UPDATE names only the columns that differ from the copy. *)

Column(db, loaded, new) == IF new = loaded THEN db ELSE new

Flush(db, loaded, new) ==
    [status              |-> Column(db.status, loaded.status, new.status),
     attempt_count       |-> Column(db.attempt_count, loaded.attempt_count,
                                    new.attempt_count),
     retry_cycle_no      |-> Column(db.retry_cycle_no, loaded.retry_cycle_no,
                                    new.retry_cycle_no),
     cycle_attempt_count |-> Column(db.cycle_attempt_count,
                                    loaded.cycle_attempt_count,
                                    new.cycle_attempt_count),
     error_code          |-> Column(db.error_code, loaded.error_code, new.error_code),
     result_payload      |-> Column(db.result_payload, loaded.result_payload,
                                    new.result_payload),
     updated_old         |-> new.updated_old]   \* always assigned a fresh time

-----------------------------------------------------------------------------
(* API calls. *)

Send(t) == outbox' = [outbox EXCEPT ![t] = @ + 1]

\* create_ai_task and the interview AI requests: INSERT, commit, then enqueue.
Create(t) ==
    /\ task[t].status = "absent"
    /\ task' = [task EXCEPT ![t] = PendingRow]
    /\ Send(t)
    /\ UNCHANGED <<attempts, versions, queue, workerVars, bounds>>

\* A replayed interview AI request finds its pending task and dispatches again.
Redispatch(t) ==
    /\ t \in SensitiveTasks
    /\ task[t].status = "pending"
    /\ strays < MaxStrays
    /\ strays' = strays + 1
    /\ Send(t)
    /\ UNCHANGED <<dbVars, queue, workerVars, recovered, lost>>

RetriedRow_SameCycle(r) == [r EXCEPT !.status = "pending",
                                     !.cycle_attempt_count = 0,
                                     !.error_code = "none",
                                     !.result_payload = None,
                                     !.updated_old = FALSE]

RetriedRow(r) == [r EXCEPT !.status = "pending",
                           !.retry_cycle_no = r.retry_cycle_no + 1,
                           !.cycle_attempt_count = 0,
                           !.error_code = "none",
                           !.result_payload = None,
                           !.updated_old = FALSE]

retry_ai_task(t) ==
    /\ task[t].status \in {"failed", "output_invalid"}
    /\ task[t].retry_cycle_no < MaxCycles
    /\ task' = [task EXCEPT ![t] = RetriedRow(task[t])]
    /\ Send(t)
    /\ UNCHANGED <<attempts, versions, queue, workerVars, bounds>>

CancelledRow(r) == [r EXCEPT !.status = "cancelled", !.error_code = "cancelled",
                             !.updated_old = FALSE]

cancel_ai_task(t) ==
    /\ task[t].status = "pending"
    /\ task' = [task EXCEPT ![t] = CancelledRow(task[t])]
    /\ UNCHANGED <<attempts, versions, msgVars, workerVars, bounds>>

RecoveredRow(r) == [r EXCEPT !.status = "failed",
                             !.error_code = "stale_running_recovered",
                             !.updated_old = FALSE]

WithStatus(a, status) == [a EXCEPT !.status = status]

FailRunning_AnyStatus(rows) == [i \in 1..Len(rows) |-> WithStatus(rows[i], "failed")]

\* Every attempt still running is closed as failed.
FailRunning(rows) ==
    [i \in 1..Len(rows) |->
        IF rows[i].status = "running" THEN WithStatus(rows[i], "failed") ELSE rows[i]]

\* The admin sends the updated_at just read, so expected_updated_at matches.
mark_stale_failed_ai_task(t) ==
    /\ recovered < MaxRecoveries
    /\ task[t].status = "running"
    /\ task[t].updated_old
    /\ task' = [task EXCEPT ![t] = RecoveredRow(task[t])]
    /\ attempts' = [attempts EXCEPT ![t] = FailRunning(attempts[t])]
    /\ recovered' = recovered + 1
    /\ UNCHANGED <<versions, msgVars, workerVars, lost, strays>>

AgedRow(r) == [r EXCEPT !.updated_old = TRUE]

\* Five minutes pass since updated_at of a running row was written.
StaleAgeReached(t) ==
    /\ task[t].status = "running"
    /\ ~task[t].updated_old
    /\ task' = [task EXCEPT ![t] = AgedRow(task[t])]
    /\ now_old' = [w \in Workers |-> now_old[w] \/ on[w] = t]
    /\ UNCHANGED <<attempts, versions, msgVars, pc, on, row, att, bounds>>

-----------------------------------------------------------------------------
(* Broker. *)

\* apply_async reaches the broker: enqueue_ai_task,
\* enqueue_sensitive_interview_ai_task, _enqueue_retry_for_task.
Enqueue(t) ==
    /\ outbox[t] > 0
    /\ outbox' = [outbox EXCEPT ![t] = @ - 1]
    /\ queue' = [queue EXCEPT ![Route(t)][t] = @ + 1]
    /\ UNCHANGED <<dbVars, workerVars, bounds>>

\* apply_async raises, or the process dies, after the commit.
LoseDispatch(t) ==
    /\ outbox[t] > 0
    /\ lost < MaxLosses
    /\ outbox' = [outbox EXCEPT ![t] = @ - 1]
    /\ lost' = lost + 1
    /\ UNCHANGED <<dbVars, queue, workerVars, recovered, strays>>

\* A received message is acknowledged early: a worker that dies before its
\* first commit, or a reroute that the broker refuses, drops it.
LoseMessage(q, t) ==
    /\ queue[q][t] > 0
    /\ lost < MaxLosses
    /\ queue' = [queue EXCEPT ![q][t] = @ - 1]
    /\ lost' = lost + 1
    /\ UNCHANGED <<dbVars, outbox, workerVars, recovered, strays>>

\* A redelivered message, or one an older release put on the other queue.
StrayMessage(q, t) ==
    /\ task[t].status # "absent"
    /\ strays < MaxStrays
    /\ queue' = [queue EXCEPT ![q][t] = @ + 1]
    /\ strays' = strays + 1
    /\ UNCHANGED <<dbVars, outbox, workerVars, recovered, lost>>

-----------------------------------------------------------------------------
(* Worker. *)

Reroute_WrongQueue(t) ==
    /\ t \in SensitiveTasks
    /\ queue["default"][t] > 0
    /\ queue' = [queue EXCEPT !["sensitive"][t] = @ - 1, !["default"][t] = @ + 1]
    /\ UNCHANGED <<dbVars, outbox, workerVars, bounds>>

\* _maybe_reroute_sensitive_from_default
Reroute(t) ==
    /\ t \in SensitiveTasks
    /\ queue["default"][t] > 0
    /\ queue' = [queue EXCEPT !["default"][t] = @ - 1, !["sensitive"][t] = @ + 1]
    /\ UNCHANGED <<dbVars, outbox, workerVars, bounds>>

\* _process_sensitive_ai_task_async refuses a task of another type.
Reject(t) ==
    /\ t \notin SensitiveTasks
    /\ queue["sensitive"][t] > 0
    /\ queue' = [queue EXCEPT !["sensitive"][t] = @ - 1]
    /\ UNCHANGED <<dbVars, outbox, workerVars, bounds>>

\* The claiming UPDATE matches no pending row: the message is dropped.
SkipNotPending(t) ==
    /\ queue[Route(t)][t] > 0
    /\ task[t].status # "pending"
    /\ queue' = [queue EXCEPT ![Route(t)][t] = @ - 1]
    /\ UNCHANGED <<dbVars, outbox, workerVars, bounds>>

ClaimedRow(r) == [r EXCEPT !.status = "running", !.updated_old = FALSE]

Claim_AnyStatus(w, t) ==
    /\ pc[w] = "idle"
    /\ queue[Route(t)][t] > 0
    /\ queue' = [queue EXCEPT ![Route(t)][t] = @ - 1]
    /\ task' = [task EXCEPT ![t] = [task[t] EXCEPT !.status = "running",
                                                   !.updated_old = FALSE]]
    /\ pc' = [pc EXCEPT ![w] = "claimed"]
    /\ on' = [on EXCEPT ![w] = t]
    /\ now_old' = [now_old EXCEPT ![w] = FALSE]
    /\ UNCHANGED <<attempts, versions, outbox, row, att, bounds>>

\* UPDATE ... SET status = running WHERE status = pending, then commit.
Claim(w, t) ==
    /\ pc[w] = "idle"
    /\ queue[Route(t)][t] > 0
    /\ task[t].status = "pending"
    /\ queue' = [queue EXCEPT ![Route(t)][t] = @ - 1]
    /\ task' = [task EXCEPT ![t] = ClaimedRow(task[t])]
    /\ pc' = [pc EXCEPT ![w] = "claimed"]
    /\ on' = [on EXCEPT ![w] = t]
    /\ now_old' = [now_old EXCEPT ![w] = FALSE]
    /\ UNCHANGED <<attempts, versions, outbox, row, att, bounds>>

max_attempt_no_OfCycle(t) == task[t].cycle_attempt_count

max_attempt_no(t) ==
    Max({0} \cup {attempts[t][i].attempt_no : i \in 1..Len(attempts[t])})

StartedRow_KeepError(r, attempt_no, old) ==
    [r EXCEPT !.attempt_count = attempt_no,
              !.cycle_attempt_count = r.cycle_attempt_count + 1,
              !.updated_old = old]

StartedRow(r, attempt_no, old) ==
    [r EXCEPT !.attempt_count = attempt_no,
              !.cycle_attempt_count = r.cycle_attempt_count + 1,
              !.error_code = "none",
              !.updated_old = old]

NewAttempt(r) == [attempt_no |-> r.attempt_count,
                  retry_cycle_no |-> r.retry_cycle_no,
                  cycle_attempt_no |-> r.cycle_attempt_count,
                  status |-> "running"]

\* Lock the row, whatever its status is by now, and insert the attempt.
Allocate(w, t) ==
    LET locked == StartedRow(task[t], max_attempt_no(t) + 1, now_old[w])
    IN  /\ pc[w] = "claimed"
        /\ on[w] = t
        /\ task' = [task EXCEPT ![t] = locked]
        /\ attempts' = [attempts EXCEPT ![t] = Append(attempts[t], NewAttempt(locked))]
        /\ pc' = [pc EXCEPT ![w] = "calling"]
        /\ row' = [row EXCEPT ![w] = locked]
        /\ att' = [att EXCEPT ![w] = Len(attempts[t]) + 1]
        /\ UNCHANGED <<versions, msgVars, on, now_old, bounds>>

Release(w) ==
    /\ pc' = [pc EXCEPT ![w] = "idle"]
    /\ on' = [on EXCEPT ![w] = None]
    /\ row' = [row EXCEPT ![w] = AbsentRow]
    /\ att' = [att EXCEPT ![w] = 0]
    /\ now_old' = [now_old EXCEPT ![w] = FALSE]

\* The worker process dies: nothing since its last commit is kept.
Crash(w) ==
    /\ pc[w] # "idle"
    /\ lost < MaxLosses
    /\ Release(w)
    /\ lost' = lost + 1
    /\ UNCHANGED <<dbVars, msgVars, recovered, strays>>

\* _reassert_running_ownership_for_terminal: both objects are in the identity
\* map already, so the statuses compared are those of the session's copies; the
\* copy of the attempt is the one this session inserted as running.
OwnsPerSession(w, t) ==
    /\ pc[w] = "calling"
    /\ on[w] = t
    /\ row[w].status = "running"

\* The interview AI types store public metadata on every path.
ResultAfterFailure(w, t, r) ==
    IF t \in SensitiveTasks THEN r ELSE row[w].result_payload

FinishedRow(r, status, error, result) ==
    [r EXCEPT !.status = status, !.error_code = error,
              !.result_payload = result, !.updated_old = FALSE]

CloseAttempt_LeftRunning(rows, k, status) == rows

CloseAttempt(rows, k, status) == [rows EXCEPT ![k] = WithStatus(rows[k], status)]

\* Commit the terminal (or auto-retry) columns of task and attempt.
Settle(w, t, status, error, result, attempt_status) ==
    /\ task' = [task EXCEPT ![t] =
                   Flush(task[t], row[w], FinishedRow(row[w], status, error, result))]
    /\ attempts' = [attempts EXCEPT ![t] =
                       CloseAttempt(attempts[t], att[w], attempt_status)]
    /\ Release(w)

RowsAfterPersist_NoLookup(t) == versions[t] + 1

\* The interview persist functions return the version that already names the
\* task; persist_resume_score_result always adds a row.
RowsAfterPersist(t) ==
    IF t \in SensitiveTasks /\ versions[t] > 0 THEN versions[t] ELSE versions[t] + 1

FinishSucceeded(w, t, r) ==
    /\ OwnsPerSession(w, t)
    /\ versions' = [versions EXCEPT ![t] = RowsAfterPersist(t)]
    /\ Settle(w, t, "succeeded", row[w].error_code, r, "succeeded")
    /\ UNCHANGED <<msgVars, bounds>>

\* The persist step raises, before or after it flushed its row: nothing is rolled
\* back, so the commit of the failure keeps a row that was flushed.
PersistFailed(w, t, r, status) ==
    /\ OwnsPerSession(w, t)
    /\ \E rows \in {versions[t], RowsAfterPersist(t)} :
          versions' = [versions EXCEPT ![t] = rows]
    /\ Settle(w, t, status, "error", ResultAfterFailure(w, t, r), status)
    /\ UNCHANGED <<msgVars, bounds>>

\* Output rejected by the provider adapter, or frozen input that does not validate.
FinishOutputInvalid(w, t, r) ==
    /\ OwnsPerSession(w, t)
    /\ Settle(w, t, "output_invalid", "error", ResultAfterFailure(w, t, r),
              "output_invalid")
    /\ UNCHANGED <<versions, msgVars, bounds>>

FinishFailed_StatusKept(w, t, r, category) ==
    /\ OwnsPerSession(w, t)
    /\ category = "retryable" => ~should_auto_retry(row[w].cycle_attempt_count)
    /\ Settle(w, t, row[w].status, "error", ResultAfterFailure(w, t, r), "failed")
    /\ UNCHANGED <<versions, msgVars, bounds>>

\* Provider error that is not retried; category is that of the outcome.
FinishFailed(w, t, r, category) ==
    /\ OwnsPerSession(w, t)
    /\ category = "retryable" => ~should_auto_retry(row[w].cycle_attempt_count)
    /\ Settle(w, t, "failed", "error", ResultAfterFailure(w, t, r), "failed")
    /\ UNCHANGED <<versions, msgVars, bounds>>

AutoRetry_NoEnqueue(w, t, r) ==
    /\ OwnsPerSession(w, t)
    /\ should_auto_retry(row[w].cycle_attempt_count)
    /\ Settle(w, t, "pending", "error", ResultAfterFailure(w, t, r), "failed")
    /\ UNCHANGED <<versions, msgVars, bounds>>

\* Back to pending, commit, then enqueue with a countdown.
AutoRetry(w, t, r) ==
    /\ OwnsPerSession(w, t)
    /\ should_auto_retry(row[w].cycle_attempt_count)
    /\ Settle(w, t, "pending", "error", ResultAfterFailure(w, t, r), "failed")
    /\ Send(t)
    /\ UNCHANGED <<versions, queue, bounds>>

\* The copy says cancelled: only the attempt is closed.
LateAfterCancel(w, t, r) ==
    /\ pc[w] = "calling"
    /\ on[w] = t
    /\ row[w].status = "cancelled"
    /\ Settle(w, t, "cancelled", row[w].error_code, ResultAfterFailure(w, t, r),
              "failed")
    /\ UNCHANGED <<versions, msgVars, bounds>>

\* _skipped_stale_owner_result: return without commit, the session rolls back.
SkippedStaleOwner(w, t) ==
    /\ pc[w] = "calling"
    /\ on[w] = t
    /\ row[w].status \notin {"running", "cancelled"}
    /\ Release(w)
    /\ UNCHANGED <<dbVars, msgVars, bounds>>

VerdictsOn(t) == IF t \in SensitiveTasks THEN InterviewVerdicts ELSE OtherVerdicts

\* What the provider call ended in decides what the worker tries to write.
Finish(w, t) ==
    \/ \E r \in Results, verdict \in VerdictsOn(t) :
          \/ verdict = "ok" /\ FinishSucceeded(w, t, r)
          \/ /\ verdict = "ok"
             /\ \E status \in {"output_invalid", "failed"} : PersistFailed(w, t, r, status)
          \/ verdict = "output_invalid" /\ FinishOutputInvalid(w, t, r)
          \/ \E c \in {"retryable", "non_retryable"} : verdict = c /\ FinishFailed(w, t, r, c)
          \/ verdict = "retryable" /\ AutoRetry(w, t, r)
          \/ LateAfterCancel(w, t, r)
    \/ SkippedStaleOwner(w, t)

-----------------------------------------------------------------------------
Init ==
    /\ task = [t \in Tasks |-> AbsentRow]
    /\ attempts = [t \in Tasks |-> <<>>]
    /\ versions = [t \in Tasks |-> 0]
    /\ outbox = [t \in Tasks |-> 0]
    /\ queue = [q \in Queues |-> [t \in Tasks |-> 0]]
    /\ pc = [w \in Workers |-> "idle"]
    /\ on = [w \in Workers |-> None]
    /\ row = [w \in Workers |-> AbsentRow]
    /\ att = [w \in Workers |-> 0]
    /\ now_old = [w \in Workers |-> FALSE]
    /\ recovered = 0
    /\ lost = 0
    /\ strays = 0

ApiStep(t) ==
    \/ Create(t) \/ Redispatch(t) \/ retry_ai_task(t) \/ cancel_ai_task(t)
    \/ mark_stale_failed_ai_task(t) \/ StaleAgeReached(t)

BrokerStep(t) ==
    \/ Enqueue(t) \/ LoseDispatch(t)
    \/ \E q \in Queues : LoseMessage(q, t) \/ StrayMessage(q, t)
    \/ Reroute(t) \/ Reject(t) \/ SkipNotPending(t)

WorkerStep(w, t) == Claim(w, t) \/ Allocate(w, t) \/ Finish(w, t)

Next ==
    \/ \E t \in Tasks : ApiStep(t) \/ BrokerStep(t)
    \/ \E w \in Workers, t \in Tasks : WorkerStep(w, t)
    \/ \E w \in Workers : Crash(w)

Spec == Init /\ [][Next]_vars

\* Celery delivers what the broker holds, a claimed task is carried on and the
\* provider call ends (every HTTP call has a timeout); a process that still has to
\* publish does so unless it is lost.
Fairness ==
    /\ \A t \in Tasks : /\ WF_vars(Enqueue(t))
                        /\ WF_vars(Reroute(t))
                        /\ WF_vars(\E w \in Workers : Claim(w, t))
    /\ \A w \in Workers : /\ WF_vars(\E t \in Tasks : Allocate(w, t))
                          /\ WF_vars(\E t \in Tasks : Finish(w, t))

FairSpec == Spec /\ Fairness

-----------------------------------------------------------------------------
(* Properties. *)

TypeOK ==
    /\ task \in [Tasks -> TaskRow]
    /\ attempts \in [Tasks -> Seq(AttemptRow)]
    /\ versions \in [Tasks -> Nat]
    /\ outbox \in [Tasks -> Nat]
    /\ queue \in [Queues -> [Tasks -> Nat]]
    /\ pc \in [Workers -> {"idle", "claimed", "calling"}]
    /\ on \in [Workers -> Tasks \cup {None}]
    /\ row \in [Workers -> TaskRow]
    /\ att \in [Workers -> Nat]
    /\ now_old \in [Workers -> BOOLEAN]
    /\ recovered \in Nat /\ lost \in Nat /\ strays \in Nat

\* Attempt numbers of a task are 1, 2, 3, ... without gap or repetition and
\* attempt_count counts them, whatever workers crash, come late or are
\* recovered meanwhile: uq_ai_task_attempts_task_attempt is never hit.
AttemptNumbering ==
    \A t \in Tasks :
        /\ task[t].attempt_count = Len(attempts[t])
        /\ \A i \in 1..Len(attempts[t]) : attempts[t][i].attempt_no = i

\* Two attempts of a task never share (retry_cycle_no, cycle_attempt_no): the
\* countdown table and the admin view identify an attempt by that pair.
CycleNumbering ==
    \A t \in Tasks : \A i, j \in 1..Len(attempts[t]) :
        /\ i < j
        /\ attempts[t][i].retry_cycle_no = attempts[t][j].retry_cycle_no
        => attempts[t][i].cycle_attempt_no < attempts[t][j].cycle_attempt_no

\* As long as no dispatch was lost, a pending task has a message, or a process
\* about to publish one, that leads to an entry point which accepts it: a task
\* is never pending with nobody coming, through auto-retries, manual retries,
\* late workers, duplicates, skipped and rerouted messages.
PendingHasDispatch ==
    lost = 0 =>
        \A t \in Tasks : task[t].status = "pending" =>
            \/ outbox[t] > 0
            \/ queue[Route(t)][t] > 0
            \/ t \in SensitiveTasks /\ queue["default"][t] > 0

\* An interview AI task yields one version however often it is claimed,
\* recovered, retried or finished late, and a succeeded task has one.
PersistedOnce ==
    \A t \in SensitiveTasks :
        /\ versions[t] <= 1
        /\ task[t].status = "succeeded" => versions[t] = 1

\* Two copies of a row that agree on every column but the age of updated_at.
Mirrors(copy, db) ==
    /\ copy.status = db.status
    /\ copy.attempt_count = db.attempt_count
    /\ copy.retry_cycle_no = db.retry_cycle_no
    /\ copy.cycle_attempt_count = db.cycle_attempt_count
    /\ copy.error_code = db.error_code
    /\ copy.result_payload = db.result_payload

\* Until an admin recovers a task, the claim is exclusive: at most one live
\* worker handles a task, the row is running all along and the session's copy
\* of it is what the table holds.
SoleOwner ==
    recovered = 0 =>
        \A w \in Workers : pc[w] # "idle" =>
            /\ task[on[w]].status = "running"
            /\ pc[w] = "calling" => Mirrors(row[w], task[on[w]])
            /\ \A v \in Workers \ {w} : on[v] # on[w]

\* Until an admin recovers a task, a manual cycle makes at most
\* AI_TASK_MAX_ATTEMPTS provider calls.
CycleBudget ==
    recovered = 0 =>
        \A t \in Tasks :
            /\ task[t].cycle_attempt_count <= MaxAttempts
            /\ task[t].status = "pending" => task[t].cycle_attempt_count < MaxAttempts

\* Until an admin recovers a task, an attempt is running only while its task
\* is, and it is the task's last one.
RunningAttemptIsLast ==
    recovered = 0 =>
        \A t \in Tasks : \A i \in 1..Len(attempts[t]) :
            attempts[t][i].status = "running" =>
                task[t].status = "running" /\ i = Len(attempts[t])

\* A succeeded task that nobody recovered has its result and no error left over
\* from an earlier attempt.
CleanSuccess ==
    recovered = 0 =>
        \A t \in Tasks : task[t].status = "succeeded" =>
            task[t].error_code = "none" /\ task[t].result_payload # None

PhaseOf(status) ==
    CASE status = "absent"                      -> "new"
      [] status = "pending"                     -> "waiting"
      [] status = "running"                     -> "working"
      [] status = "succeeded"                   -> "done"
      [] status \in {"failed", "output_invalid"} -> "broken"
      [] status = "cancelled"                   -> "withdrawn"

Lifecycle == INSTANCE TaskLifecycle WITH
    phase <- [t \in Tasks |-> PhaseOf(task[t].status)],
    cycle <- [t \in Tasks |-> task[t].retry_cycle_no],
    calls <- [t \in Tasks |-> task[t].cycle_attempt_count]

\* While no admin recovers a task, queues, workers, crashes, duplicates and lost
\* messages implement the promised lifecycle: succeeded and cancelled are final,
\* only retry_ai_task reopens failed and output_invalid, and a cycle makes at
\* most AI_TASK_MAX_ATTEMPTS calls.
ImplementsLifecycle == Lifecycle!Spec

\* An attempt that its worker closed as succeeded or output_invalid is never
\* rewritten, not by a recovery nor by another worker of the same task.
ClosedAttemptFrozen ==
    [][\A t \in Tasks : \A i \in 1..Len(attempts[t]) :
          attempts[t][i].status \in {"succeeded", "output_invalid"}
          => attempts'[t][i] = attempts[t][i]]_vars

\* "late worker must not overwrite admin failed"
\* (backend/tests/workers/test_ai_task_terminal_ownership_txn.py): the row an
\* admin recovered stays failed until retry_ai_task clears its error_code.
RecoveredStaysFailed ==
    \A t \in Tasks :
        task[t].error_code = "stale_running_recovered" => task[t].status = "failed"

\* A pending task that loses no message reaches a settled status.
EventuallySettled ==
    \A t \in Tasks : task[t].status = "pending" ~> task[t].status \in Settled
=============================================================================
