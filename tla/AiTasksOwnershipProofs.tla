----------------------- MODULE AiTasksOwnershipProofs -----------------------
(***************************************************************************)
(* Ownership: as long as no admin has recovered a task, the claim is        *)
(* exclusive, a session's copy is what the table holds, and the tasks keep  *)
(* the promises of TaskLifecycle.                                           *)
(***************************************************************************)
EXTENDS AiTasksProofs

\* What holds of one task while recovered = 0.
TaskInv(t) ==
    /\ task[t].cycle_attempt_count <= MaxAttempts
    /\ task[t].status = "pending" => task[t].cycle_attempt_count < MaxAttempts
    /\ \A i \in 1..Len(attempts[t]) :
          attempts[t][i].status = "running" =>
              task[t].status = "running" /\ i = Len(attempts[t])
    /\ task[t].status = "succeeded" =>
          task[t].error_code = "none" /\ task[t].result_payload # None

\* What holds of one worker while recovered = 0.
WorkerInv(w) ==
    /\ pc[w] = "idle" => on[w] = None
    /\ pc[w] # "idle" =>
          /\ on[w] \in Tasks
          /\ task[on[w]].status = "running"
          /\ \A v \in Workers \ {w} : on[v] # on[w]
    /\ pc[w] = "claimed" =>
          /\ task[on[w]].cycle_attempt_count < MaxAttempts
          /\ \A i \in 1..Len(attempts[on[w]]) : attempts[on[w]][i].status # "running"
    /\ pc[w] = "calling" =>
          /\ Mirrors(row[w], task[on[w]])
          /\ row[w].error_code = "none"
          /\ att[w] = Len(attempts[on[w]])

OwnershipInv ==
    recovered = 0 => /\ \A t \in Tasks : TaskInv(t)
                     /\ \A w \in Workers : WorkerInv(w)

-----------------------------------------------------------------------------
(* Frames: what a step elsewhere leaves alone. *)

LEMMA TaskFrame ==
    ASSUME NEW t \in Tasks, TaskInv(t), Mirrors(task'[t], task[t]),
           attempts'[t] = attempts[t]
    PROVE  TaskInv(t)'
BY DEF TaskInv, Mirrors

LEMMA WorkerFrame ==
    ASSUME NEW w \in Workers, WorkerInv(w),
           pc'[w] = pc[w], on'[w] = on[w], row'[w] = row[w], att'[w] = att[w],
           pc[w] # "idle" => /\ Mirrors(task'[on[w]], task[on[w]])
                             /\ attempts'[on[w]] = attempts[on[w]],
           \A v \in Workers \ {w} : \/ on'[v] = on[v]
                                    \/ on'[v] = None
                                    \/ on'[v] # on[w]
    PROVE  WorkerInv(w)'
BY NoneAssumption DEF WorkerInv, Mirrors

\* A step that changes no row and no worker keeps the invariant.
LEMMA OwnershipFrame ==
    ASSUME OwnershipInv, UNCHANGED <<task, attempts, pc, on, row, att, recovered>>
    PROVE  OwnershipInv'
BY DEF OwnershipInv, TaskInv, WorkerInv, Mirrors

\* A step that changes the row of one task nobody works on.
LEMMA RowFrame ==
    ASSUME TypeOK, OwnershipInv, recovered = 0, NEW t \in Tasks,
           UNCHANGED <<pc, on, row, att>>,
           \A u \in Tasks \ {t} : task'[u] = task[u] /\ attempts'[u] = attempts[u],
           task[t].status # "running",
           TaskInv(t)'
    PROVE  OwnershipInv'
<1>1. ASSUME NEW u \in Tasks PROVE TaskInv(u)'
  BY <1>1, TaskFrame DEF OwnershipInv, Mirrors
<1>2. ASSUME NEW w \in Workers PROVE WorkerInv(w)'
  <2>1. WorkerInv(w)
    BY DEF OwnershipInv
  <2>2. pc[w] # "idle" => on[w] \in Tasks \ {t}
    BY <2>1 DEF WorkerInv
  <2> QED
    BY <2>1, <2>2, WorkerFrame DEF Mirrors
<1> QED
  BY <1>1, <1>2 DEF OwnershipInv

-----------------------------------------------------------------------------
(* One lemma per group of actions. *)

LEMMA OwnershipApi ==
    ASSUME CounterInv, OwnershipInv, NEW t \in Tasks, ApiStep(t)
    PROVE  OwnershipInv'
<1> USE DEF CounterInv
<1>0. task[t] \in TaskRow /\ task \in [Tasks -> TaskRow]
      /\ attempts \in [Tasks -> Seq(AttemptRow)] /\ recovered \in Nat
  BY DEF TypeOK
<1>1. CASE Create(t)
  <2>1. CASE recovered = 0
    <3>1. task' = [task EXCEPT ![t] = PendingRow] /\ attempts' = attempts
      BY <1>1 DEF Create
    <3>2. TaskInv(t)'
      <4>1. task'[t] = PendingRow /\ attempts'[t] = <<>>
        BY <1>0, <1>1, <3>1 DEF AbsentIsBlank, Create
      <4> QED
        BY <4>1, RowColumns, BoundsAssumption DEF TaskInv
    <3> QED
      BY <1>0, <1>1, <2>1, <3>1, <3>2, RowFrame DEF Create, workerVars
  <2> QED
    BY <1>1, <2>1 DEF Create, bounds, OwnershipInv
<1>2. CASE Redispatch(t)
  BY <1>2, OwnershipFrame DEF Redispatch, dbVars, workerVars
<1>3. CASE retry_ai_task(t)
  <2>1. CASE recovered = 0
    <3>1. task' = [task EXCEPT ![t] = RetriedRow(task[t])] /\ attempts' = attempts
      BY <1>3 DEF retry_ai_task
    <3>2. TaskInv(t)'
      BY <1>0, <1>3, <2>1, <3>1, RowColumns, BoundsAssumption
         DEF TaskInv, OwnershipInv, retry_ai_task
    <3> QED
      BY <1>0, <1>3, <2>1, <3>1, <3>2, RowFrame DEF retry_ai_task, workerVars
  <2> QED
    BY <1>3, <2>1 DEF retry_ai_task, bounds, OwnershipInv
<1>4. CASE cancel_ai_task(t)
  <2>1. CASE recovered = 0
    <3>1. task' = [task EXCEPT ![t] = CancelledRow(task[t])] /\ attempts' = attempts
      BY <1>4 DEF cancel_ai_task
    <3>2. TaskInv(t)'
      BY <1>0, <1>4, <2>1, <3>1, RowColumns DEF TaskInv, OwnershipInv, cancel_ai_task
    <3> QED
      BY <1>0, <1>4, <2>1, <3>1, <3>2, RowFrame DEF cancel_ai_task, workerVars
  <2> QED
    BY <1>4, <2>1 DEF cancel_ai_task, bounds, OwnershipInv
<1>5. CASE mark_stale_failed_ai_task(t)
  BY <1>0, <1>5 DEF mark_stale_failed_ai_task, OwnershipInv
<1>6. CASE StaleAgeReached(t)
  <2>1. CASE recovered = 0
    <3>1. /\ \A u \in Tasks : Mirrors(task'[u], task[u]) /\ attempts'[u] = attempts[u]
          /\ UNCHANGED <<pc, on, row, att>>
      BY <1>0, <1>6, RowColumns DEF StaleAgeReached, Mirrors
    <3>2. ASSUME NEW u \in Tasks PROVE TaskInv(u)'
      BY <2>1, <3>1, TaskFrame DEF OwnershipInv
    <3>3. ASSUME NEW w \in Workers PROVE WorkerInv(w)'
      <4>1. WorkerInv(w)
        BY <2>1 DEF OwnershipInv
      <4>2. pc[w] # "idle" => on[w] \in Tasks
        BY <4>1 DEF WorkerInv
      <4> QED
        BY <3>1, <4>1, <4>2, WorkerFrame
    <3> QED
      BY <3>2, <3>3 DEF OwnershipInv
  <2> QED
    BY <1>6, <2>1 DEF StaleAgeReached, bounds, OwnershipInv
<1> QED
  BY <1>1, <1>2, <1>3, <1>4, <1>5, <1>6 DEF ApiStep

LEMMA OwnershipClaim ==
    ASSUME CounterInv, OwnershipInv, NEW w \in Workers, NEW t \in Tasks, Claim(w, t)
    PROVE  OwnershipInv'
<1> SUFFICES ASSUME recovered = 0 PROVE OwnershipInv'
  BY DEF Claim, bounds, OwnershipInv
<1>0. /\ task[t] \in TaskRow /\ task \in [Tasks -> TaskRow] /\ on \in [Workers -> Tasks \cup {None}]
      /\ pc \in [Workers -> {"idle", "claimed", "calling"}]
  BY DEF CounterInv, TypeOK
<1>1. /\ task' = [task EXCEPT ![t] = ClaimedRow(task[t])]
      /\ pc' = [pc EXCEPT ![w] = "claimed"] /\ on' = [on EXCEPT ![w] = t]
      /\ UNCHANGED <<attempts, row, att>>
      /\ pc[w] = "idle" /\ task[t].status = "pending"
  BY DEF Claim
<1>2. \A u \in Tasks : TaskInv(u)
  BY DEF OwnershipInv
<1>3. \A v \in Workers : WorkerInv(v)
  BY DEF OwnershipInv
<1>4. /\ task'[t].status = "running"
      /\ task'[t].cycle_attempt_count = task[t].cycle_attempt_count
      /\ \A u \in Tasks \ {t} : task'[u] = task[u]
  BY <1>0, <1>1, RowColumns
<1>5. ASSUME NEW u \in Tasks PROVE TaskInv(u)'
  <2>1. CASE u = t
    BY <1>1, <1>2, <1>4, <2>1 DEF TaskInv
  <2>2. CASE u # t
    BY <1>1, <1>2, <1>4, <2>2, TaskFrame DEF Mirrors
  <2> QED
    BY <2>1, <2>2
<1>6. \A v \in Workers : on[v] # t
  BY <1>1, <1>3, NoneAssumption DEF WorkerInv
<1>7. ASSUME NEW v \in Workers PROVE WorkerInv(v)'
  <2>1. CASE v = w
    BY <1>0, <1>1, <1>2, <1>4, <1>6, <2>1 DEF TaskInv, WorkerInv
  <2>2. CASE v # w
    <3>1. pc[v] # "idle" => on[v] \in Tasks \ {t}
      BY <1>3, <1>6 DEF WorkerInv
    <3> QED
      BY <1>0, <1>1, <1>3, <1>4, <1>6, <2>2, <3>1, WorkerFrame DEF Mirrors
  <2> QED
    BY <2>1, <2>2
<1> QED
  BY <1>5, <1>7 DEF OwnershipInv

LEMMA OwnershipAllocate ==
    ASSUME CounterInv, OwnershipInv, NEW w \in Workers, NEW t \in Tasks, Allocate(w, t)
    PROVE  OwnershipInv'
<1> SUFFICES ASSUME recovered = 0 PROVE OwnershipInv'
  BY DEF Allocate, bounds, OwnershipInv
<1> DEFINE locked == StartedRow(task[t], max_attempt_no(t) + 1, now_old[w])
           n == Len(attempts[t])
<1>0. /\ task[t] \in TaskRow /\ task \in [Tasks -> TaskRow] /\ on \in [Workers -> Tasks \cup {None}]
      /\ pc \in [Workers -> {"idle", "claimed", "calling"}]
      /\ attempts \in [Tasks -> Seq(AttemptRow)] /\ now_old[w] \in BOOLEAN
      /\ row \in [Workers -> TaskRow] /\ att \in [Workers -> Nat]
      /\ attempts[t] \in Seq(AttemptRow) /\ n \in Nat
      /\ task[t].cycle_attempt_count \in Nat
  <2>1. task[t] \in TaskRow
    BY DEF CounterInv, TypeOK
  <2>2. task[t].cycle_attempt_count \in Nat
    BY <2>1 DEF TaskRow
  <2> QED
    BY <2>2 DEF CounterInv, TypeOK
<1>1. /\ task' = [task EXCEPT ![t] = locked]
      /\ attempts' = [attempts EXCEPT ![t] = Append(attempts[t], NewAttempt(locked))]
      /\ pc' = [pc EXCEPT ![w] = "calling"]
      /\ row' = [row EXCEPT ![w] = locked]
      /\ att' = [att EXCEPT ![w] = n + 1]
      /\ on' = on /\ pc[w] = "claimed" /\ on[w] = t
  BY DEF Allocate
<1>2. /\ locked.status = task[t].status
      /\ locked.cycle_attempt_count = task[t].cycle_attempt_count + 1
      /\ locked.error_code = "none"
  BY <1>0, NextAttemptNo, StartedColumns DEF CounterInv
<1> HIDE DEF locked
<1>3. /\ task[t].status = "running"
      /\ task[t].cycle_attempt_count < MaxAttempts
      /\ \A i \in 1..n : attempts[t][i].status # "running"
      /\ \A v \in Workers \ {w} : on[v] # t
  BY <1>1 DEF OwnershipInv, WorkerInv
<1>4. /\ task'[t] = locked
      /\ attempts'[t] = Append(attempts[t], NewAttempt(locked))
      /\ \A u \in Tasks \ {t} : task'[u] = task[u] /\ attempts'[u] = attempts[u]
  BY <1>0, <1>1
<1>5. ASSUME NEW u \in Tasks PROVE TaskInv(u)'
  <2>1. CASE u = t
    <3>1. /\ Len(attempts'[t]) = n + 1
          /\ \A i \in 1..n : attempts'[t][i].status # "running"
      BY <1>0, <1>3, <1>4
    <3>2. \A i \in 1..Len(attempts'[t]) :
             attempts'[t][i].status = "running" => i = Len(attempts'[t])
      <4> HIDE DEF n
      <4> QED
        BY <1>0, <3>1
    <3>3. task'[t].cycle_attempt_count <= MaxAttempts
      BY <1>0, <1>2, <1>3, <1>4, BoundsAssumption
    <3> QED
      BY <1>2, <1>3, <1>4, <2>1, <3>2, <3>3 DEF TaskInv
  <2>2. CASE u # t
    BY <1>4, <2>2, TaskFrame DEF Mirrors, OwnershipInv
  <2> QED
    BY <2>1, <2>2
<1>6. ASSUME NEW v \in Workers PROVE WorkerInv(v)'
  <2>1. CASE v = w
    <3>1. Len(attempts'[t]) = n + 1
      BY <1>0, <1>4
    <3>2. pc'[w] = "calling" /\ on'[w] = t /\ row'[w] = locked /\ att'[w] = n + 1
      BY <1>0, <1>1
    <3> QED
      BY <1>1, <1>2, <1>3, <1>4, <2>1, <3>1, <3>2 DEF WorkerInv, Mirrors
  <2>2. CASE v # w
    <3>1. pc[v] # "idle" => on[v] \in Tasks \ {t}
      BY <1>3, <2>2 DEF OwnershipInv, WorkerInv
    <3>2. WorkerInv(v) /\ pc'[v] = pc[v] /\ on'[v] = on[v] /\ row'[v] = row[v] /\ att'[v] = att[v]
      BY <1>0, <1>1, <2>2 DEF OwnershipInv
    <3> QED
      BY <1>1, <1>4, <3>1, <3>2, WorkerFrame DEF Mirrors
  <2> QED
    BY <2>1, <2>2
<1> QED
  BY <1>5, <1>6 DEF OwnershipInv

\* A worker goes idle, and the task it leaves satisfies TaskInv.
LEMMA OwnershipRelease ==
    ASSUME TypeOK, OwnershipInv, recovered = 0, NEW w \in Workers, NEW t \in Tasks,
           on[w] = t, pc[w] # "idle", Release(w),
           \A u \in Tasks \ {t} : task'[u] = task[u] /\ attempts'[u] = attempts[u],
           TaskInv(t)'
    PROVE  OwnershipInv'
<1>0. /\ on \in [Workers -> Tasks \cup {None}]
      /\ pc \in [Workers -> {"idle", "claimed", "calling"}]
      /\ row \in [Workers -> TaskRow] /\ att \in [Workers -> Nat]
  BY DEF TypeOK
<1>1. /\ pc'[w] = "idle" /\ on'[w] = None
      /\ \A v \in Workers \ {w} : /\ pc'[v] = pc[v] /\ on'[v] = on[v]
                                  /\ row'[v] = row[v] /\ att'[v] = att[v]
  BY <1>0 DEF Release
<1>2. ASSUME NEW u \in Tasks PROVE TaskInv(u)'
  BY <1>2, TaskFrame DEF OwnershipInv, Mirrors
<1>3. ASSUME NEW v \in Workers PROVE WorkerInv(v)'
  <2>1. CASE v = w
    BY <1>1, <2>1 DEF WorkerInv
  <2>2. CASE v # w
    <3>1. WorkerInv(v) /\ WorkerInv(w)
      BY DEF OwnershipInv
    <3>2. pc[v] # "idle" => on[v] \in Tasks \ {t}
      BY <2>2, <3>1 DEF WorkerInv
    <3> QED
      BY <1>1, <2>2, <3>1, <3>2, WorkerFrame DEF Mirrors
  <2> QED
    BY <2>1, <2>2
<1> QED
  BY <1>2, <1>3 DEF OwnershipInv

\* The commit after a provider call of a worker that owns its task.
LEMMA OwnershipSettle ==
    ASSUME CounterInv, OwnershipInv, NEW w \in Workers, NEW t \in Tasks,
           pc[w] = "calling", on[w] = t, recovered' = recovered,
           NEW status \in Settled \cup {"pending"}, NEW error \in ErrorCodes,
           NEW result \in Results \cup {None},
           NEW attempt_status \in AttemptStatuses \ {"running"},
           Settle(w, t, status, error, result, attempt_status),
           status = "pending" => row[w].cycle_attempt_count < MaxAttempts,
           status = "succeeded" => error = row[w].error_code /\ result # None
    PROVE  OwnershipInv'
<1> SUFFICES ASSUME recovered = 0 PROVE OwnershipInv'
  BY DEF OwnershipInv
<1>1. status \in Statuses
  BY DEF Settled, Statuses
<1>2. /\ task[t].status = "running"
      /\ Mirrors(row[w], task[t])
      /\ row[w].error_code = "none"
      /\ att[w] = Len(attempts[t])
      /\ TaskInv(t)
  BY DEF OwnershipInv, WorkerInv
<1>3. /\ task'[t].cycle_attempt_count = task[t].cycle_attempt_count
      /\ task'[t].status = status
      /\ task'[t].error_code = error
      /\ task'[t].result_payload = result
      /\ Len(attempts'[t]) = Len(attempts[t])
      /\ \A i \in 1..Len(attempts[t]) :
            attempts'[t][i].status = IF i = att[w] THEN attempt_status
                                                   ELSE attempts[t][i].status
  <2>1. /\ task'[t].cycle_attempt_count = task[t].cycle_attempt_count
        /\ task'[t].status = IF status = row[w].status THEN task[t].status ELSE status
        /\ task'[t].error_code =
              IF error = row[w].error_code THEN task[t].error_code ELSE error
        /\ task'[t].result_payload =
              IF result = row[w].result_payload THEN task[t].result_payload ELSE result
    <3>1. TypeOK /\ attempt_status \in AttemptStatuses
      BY DEF CounterInv
    <3>2. error \in ErrorCodes
      OBVIOUS
    <3> QED
      BY ONLY <1>1, <3>1, <3>2, SettleRows, w \in Workers, t \in Tasks, result \in Results \cup {None},
              Settle(w, t, status, error, result, attempt_status)
  <2>2. /\ Len(attempts'[t]) = Len(attempts[t])
        /\ \A i \in 1..Len(attempts[t]) :
              attempts'[t][i].status = IF i = att[w] THEN attempt_status
                                                     ELSE attempts[t][i].status
    <3>1. /\ att[w] \in Nat /\ attempts[t] \in Seq(AttemptRow)
          /\ attempts'[t] = CloseAttempt(attempts[t], att[w], attempt_status)
      BY DEF Settle, CounterInv, TypeOK
    <3>2. attempt_status \in AttemptStatuses
      OBVIOUS
    <3> DEFINE closed == CloseAttempt(attempts[t], att[w], attempt_status)
    <3>3. Len(closed) = Len(attempts[t])
      BY ONLY <3>1, <3>2, AttemptRows
    <3>4. ASSUME NEW i \in 1..Len(attempts[t])
          PROVE  closed[i].status = IF i = att[w] THEN attempt_status
                                                  ELSE attempts[t][i].status
      <4>1. closed[i] \in {closed[i], FailRunning(attempts[t])[i]}
        OBVIOUS
      <4> QED
        BY ONLY <3>1, <3>2, <4>1, i \in 1..Len(attempts[t]), AttemptColumns
    <3>5. attempts'[t] = closed
      BY <3>1
    <3> HIDE DEF closed
    <3> QED
      BY ONLY <3>3, <3>4, <3>5
  <2> QED
    BY <1>2, <2>1, <2>2 DEF Mirrors
<1>4. TaskInv(t)'
  <2>1. \A i \in 1..Len(attempts[t]) : attempts'[t][i].status # "running"
    BY <1>2, <1>3 DEF TaskInv
  <2>2. status = "pending" => task[t].cycle_attempt_count < MaxAttempts
    BY <1>2 DEF Mirrors
  <2> QED
    BY <1>2, <1>3, <2>1, <2>2 DEF TaskInv
<1>5. /\ Release(w)
      /\ \A u \in Tasks \ {t} : task'[u] = task[u] /\ attempts'[u] = attempts[u]
  BY DEF Settle, CounterInv, TypeOK
<1> QED
  BY <1>4, <1>5, OwnershipRelease DEF CounterInv

LEMMA OwnershipFinish ==
    ASSUME CounterInv, OwnershipInv, NEW w \in Workers, NEW t \in Tasks, Finish(w, t)
    PROVE  OwnershipInv'
<1> SUFFICES ASSUME recovered = 0 PROVE OwnershipInv'
  <2>1. recovered' = recovered
    BY DEF Finish, FinishSucceeded, PersistFailed, FinishOutputInvalid, FinishFailed,
           AutoRetry, LateAfterCancel, SkippedStaleOwner, bounds
  <2> QED
    BY <2>1 DEF OwnershipInv
<1>0. TypeOK
  BY DEF CounterInv
<1>1. pc[w] = "calling" => /\ on[w] \in Tasks
                           /\ row[w].status = "running"
  BY DEF OwnershipInv, WorkerInv, Mirrors
<1> USE OutcomeTypes DEF Settled, AttemptStatuses, ErrorCodes, OwnsPerSession, bounds
<1>2. ASSUME NEW r \in Results, FinishSucceeded(w, t, r) PROVE OwnershipInv'
  <2>1. /\ pc[w] = "calling" /\ on[w] = t /\ recovered' = recovered
        /\ Settle(w, t, "succeeded", row[w].error_code, r, "succeeded")
    BY <1>2 DEF FinishSucceeded
  <2>2. row[w].error_code \in ErrorCodes /\ r # None /\ r \in Results \cup {None}
    BY <1>0, NoneAssumption
  <2>3. /\ "succeeded" \in Settled \cup {"pending"}
        /\ "succeeded" \in AttemptStatuses \ {"running"}
    OBVIOUS
  <2> HIDE DEF Settled, AttemptStatuses, ErrorCodes
  <2> QED
    BY <2>1, <2>2, <2>3, OwnershipSettle
<1>3. ASSUME NEW r \in Results, NEW status \in {"output_invalid", "failed"},
             PersistFailed(w, t, r, status)
      PROVE  OwnershipInv'
  <2>1. /\ pc[w] = "calling" /\ on[w] = t /\ recovered' = recovered
        /\ Settle(w, t, status, "error", ResultAfterFailure(w, t, r), status)
    BY <1>3 DEF PersistFailed
  <2>2. ResultAfterFailure(w, t, r) \in Results \cup {None}
    BY <1>0
  <2> QED
    BY <2>1, <2>2, OwnershipSettle
<1>4. ASSUME NEW r \in Results, FinishOutputInvalid(w, t, r) PROVE OwnershipInv'
  <2>1. /\ pc[w] = "calling" /\ on[w] = t /\ recovered' = recovered
        /\ Settle(w, t, "output_invalid", "error", ResultAfterFailure(w, t, r),
                  "output_invalid")
    BY <1>4 DEF FinishOutputInvalid
  <2>2. ResultAfterFailure(w, t, r) \in Results \cup {None}
    BY <1>0
  <2> QED
    BY <2>1, <2>2, OwnershipSettle
<1>5. ASSUME NEW r \in Results, NEW c \in {"retryable", "non_retryable"},
             FinishFailed(w, t, r, c)
      PROVE  OwnershipInv'
  <2>1. /\ pc[w] = "calling" /\ on[w] = t /\ recovered' = recovered
        /\ Settle(w, t, "failed", "error", ResultAfterFailure(w, t, r), "failed")
    BY <1>5 DEF FinishFailed
  <2>2. ResultAfterFailure(w, t, r) \in Results \cup {None}
    BY <1>0
  <2> QED
    BY <2>1, <2>2, OwnershipSettle
<1>6. ASSUME NEW r \in Results, AutoRetry(w, t, r) PROVE OwnershipInv'
  <2>1. /\ pc[w] = "calling" /\ on[w] = t /\ recovered' = recovered
        /\ row[w].cycle_attempt_count < MaxAttempts
        /\ Settle(w, t, "pending", "error", ResultAfterFailure(w, t, r), "failed")
    BY <1>6 DEF AutoRetry, should_auto_retry
  <2>2. ResultAfterFailure(w, t, r) \in Results \cup {None}
    BY <1>0
  <2> QED
    BY <2>1, <2>2, OwnershipSettle
<1>7. ASSUME NEW r \in Results, LateAfterCancel(w, t, r) PROVE FALSE
  BY <1>1, <1>7 DEF LateAfterCancel
<1>8. ~SkippedStaleOwner(w, t)
  BY <1>1 DEF SkippedStaleOwner
<1> QED
  BY <1>2, <1>3, <1>4, <1>5, <1>6, <1>7, <1>8 DEF Finish

LEMMA OwnershipCrash ==
    ASSUME CounterInv, OwnershipInv, NEW w \in Workers, Crash(w)
    PROVE  OwnershipInv'
<1> SUFFICES ASSUME recovered = 0 PROVE OwnershipInv'
  BY DEF Crash, OwnershipInv
<1>1. pc[w] # "idle" /\ Release(w) /\ task' = task /\ attempts' = attempts
  BY DEF Crash, dbVars
<1>2. on[w] \in Tasks
  BY <1>1 DEF OwnershipInv, WorkerInv
<1>4. PICK u \in Tasks : u = on[w]
  BY <1>2
<1>5. TaskInv(u)'
  BY <1>1, TaskFrame DEF OwnershipInv, Mirrors
<1> QED
  BY <1>1, <1>4, <1>5, OwnershipRelease DEF CounterInv

LEMMA OwnershipStep == CounterInv /\ OwnershipInv /\ [Next]_vars => OwnershipInv'
<1> SUFFICES ASSUME CounterInv, OwnershipInv, [Next]_vars PROVE OwnershipInv'
  OBVIOUS
<1>1. ASSUME NEW t \in Tasks, BrokerStep(t) PROVE OwnershipInv'
  BY <1>1, OwnershipFrame
     DEF BrokerStep, Enqueue, LoseDispatch, LoseMessage, StrayMessage, Reroute, Reject,
         SkipNotPending, dbVars, workerVars, bounds
<1>2. CASE UNCHANGED vars
  BY <1>2, OwnershipFrame DEF vars, dbVars, workerVars, bounds
<1> QED
  BY <1>1, <1>2, OwnershipApi, OwnershipClaim, OwnershipAllocate, OwnershipFinish,
     OwnershipCrash DEF Next, WorkerStep

LEMMA OwnershipAlways == Spec => [](CounterInv /\ OwnershipInv)
<1>1. Init => OwnershipInv
  BY RowColumns, BoundsAssumption DEF Init, OwnershipInv, TaskInv, WorkerInv
<1> QED
  BY <1>1, OwnershipStep, CountersAlways, PTL DEF Spec

\* Until an admin recovers a task, the conditional UPDATE of _handle_process admits
\* one live worker per task, and the session copy it decides on is accurate.
THEOREM OneOwner == Spec => []SoleOwner
<1>1. CounterInv /\ OwnershipInv => SoleOwner
  BY DEF OwnershipInv, WorkerInv, SoleOwner
<1> QED
  BY <1>1, OwnershipAlways, PTL

\* Until an admin recovers a task, only the last attempt of a running task runs.
THEOREM LastAttemptRuns == Spec => []RunningAttemptIsLast
<1>1. CounterInv /\ OwnershipInv => RunningAttemptIsLast
  BY DEF OwnershipInv, TaskInv, RunningAttemptIsLast
<1> QED
  BY <1>1, OwnershipAlways, PTL

\* Until an admin recovers a task, a success has a result and no old error.
THEOREM SuccessIsClean == Spec => []CleanSuccess
<1>1. CounterInv /\ OwnershipInv => CleanSuccess
  BY DEF OwnershipInv, TaskInv, CleanSuccess
<1> QED
  BY <1>1, OwnershipAlways, PTL

\* Until an admin recovers a task, a cycle makes at most MaxAttempts calls.
THEOREM BudgetKept == Spec => []CycleBudget
<1>1. CounterInv /\ OwnershipInv => CycleBudget
  BY DEF OwnershipInv, TaskInv, CycleBudget
<1> QED
  BY <1>1, OwnershipAlways, PTL

-----------------------------------------------------------------------------
(* Refinement. *)

Phase == [t \in Tasks |-> PhaseOf(task[t].status)]
Cycle == [t \in Tasks |-> task[t].retry_cycle_no]
Calls == [t \in Tasks |-> task[t].cycle_attempt_count]

\* A step that leaves status, cycle and calls of every task is a stutter.
LEMMA Stutter ==
    ASSUME \A t \in Tasks : /\ task'[t].status = task[t].status
                            /\ task'[t].retry_cycle_no = task[t].retry_cycle_no
                            /\ task'[t].cycle_attempt_count = task[t].cycle_attempt_count
    PROVE  UNCHANGED Lifecycle!lifeVars
<1>1. Phase' = Phase /\ Cycle' = Cycle /\ Calls' = Calls
  BY Zenon DEF Phase, Cycle, Calls
<1> QED
  BY <1>1 DEF Lifecycle!lifeVars, Phase, Cycle, Calls

\* A step that changes the status of one task moves its phase.
LEMMA PhaseMoves ==
    ASSUME NEW t \in Tasks,
           \A u \in Tasks \ {t} : task'[u] = task[u]
    PROVE  /\ Phase' = [Phase EXCEPT ![t] = PhaseOf(task'[t].status)]
           /\ Cycle' = [Cycle EXCEPT ![t] = task'[t].retry_cycle_no]
           /\ Calls' = [Calls EXCEPT ![t] = task'[t].cycle_attempt_count]
BY DEF Phase, Cycle, Calls

LEMMA PhaseValues ==
    /\ PhaseOf("absent") = "new" /\ PhaseOf("pending") = "waiting"
    /\ PhaseOf("running") = "working" /\ PhaseOf("succeeded") = "done"
    /\ PhaseOf("failed") = "broken" /\ PhaseOf("output_invalid") = "broken"
    /\ PhaseOf("cancelled") = "withdrawn"
BY DEF PhaseOf

\* The status of one task changes, its cycle and its calls do not.
LEMMA MoveStep ==
    ASSUME NEW t \in Tasks,
           \A u \in Tasks \ {t} : task'[u] = task[u],
           task'[t].retry_cycle_no = task[t].retry_cycle_no,
           task'[t].cycle_attempt_count = task[t].cycle_attempt_count
    PROVE  Lifecycle!Move(t, PhaseOf(task[t].status), PhaseOf(task'[t].status))
           /\ UNCHANGED <<Cycle, Calls>>
<1>1. Cycle' = Cycle /\ Calls' = Calls
  BY Zenon DEF Cycle, Calls
<1>2. Phase' = [Phase EXCEPT ![t] = PhaseOf(task'[t].status)]
  BY PhaseMoves
<1>3. Phase[t] = PhaseOf(task[t].status)
  BY DEF Phase
<1> QED
  BY <1>1, <1>2, <1>3 DEF Phase, Lifecycle!Move

\* A status change the lifecycle allows is a step of it.
LEMMA LifecycleMove ==
    ASSUME NEW t \in Tasks,
           \A u \in Tasks \ {t} : task'[u] = task[u],
           task'[t].retry_cycle_no = task[t].retry_cycle_no,
           task'[t].cycle_attempt_count = task[t].cycle_attempt_count,
           \/ task[t].status = "absent" /\ task'[t].status = "pending"
           \/ task[t].status = "pending" /\ task'[t].status \in {"running", "cancelled"}
           \/ /\ task[t].status = "running"
              /\ task'[t].status \in {"succeeded", "failed", "output_invalid"}
           \/ /\ task[t].status = "running"
              /\ task'[t].status = "pending"
              /\ task[t].cycle_attempt_count < MaxAttempts
    PROVE  Lifecycle!Next
<1>1. /\ Lifecycle!Move(t, PhaseOf(task[t].status), PhaseOf(task'[t].status))
      /\ UNCHANGED <<Cycle, Calls>>
  BY MoveStep
<1>2. Calls[t] = task[t].cycle_attempt_count
  BY DEF Calls
<1>3. \/ Lifecycle!Submit(t) \/ Lifecycle!Start(t) \/ Lifecycle!Withdraw(t)
      \/ Lifecycle!Done(t) \/ Lifecycle!Break(t) \/ Lifecycle!Again(t)
  BY <1>1, <1>2, PhaseValues
     DEF Lifecycle!Submit, Lifecycle!Start, Lifecycle!Withdraw, Lifecycle!Done,
         Lifecycle!Break, Lifecycle!Again, Cycle, Calls
<1> QED
  BY <1>3 DEF Lifecycle!Next

LEMMA LifecycleApi ==
    ASSUME CounterInv, OwnershipInv, recovered = 0, recovered' = 0,
           NEW t \in Tasks, ApiStep(t)
    PROVE  Lifecycle!Next \/ UNCHANGED Lifecycle!lifeVars
<1>0. task[t] \in TaskRow /\ task \in [Tasks -> TaskRow]
  BY DEF CounterInv, TypeOK
<1>1. CASE Create(t)
  <2>1. task'[t] = PendingRow /\ \A u \in Tasks \ {t} : task'[u] = task[u]
    BY <1>0, <1>1 DEF Create
  <2>2. task[t].retry_cycle_no = 0 /\ task[t].cycle_attempt_count = 0
    BY <1>1, RowColumns DEF CounterInv, AbsentIsBlank, Create
  <2> QED
    BY <1>1, <2>1, <2>2, RowColumns, LifecycleMove DEF Create
<1>2. CASE Redispatch(t)
  BY <1>2, Stutter DEF Redispatch, dbVars
<1>3. CASE retry_ai_task(t)
  <2>1. /\ task'[t] = RetriedRow(task[t]) /\ \A u \in Tasks \ {t} : task'[u] = task[u]
        /\ task[t].status \in {"failed", "output_invalid"}
    BY <1>0, <1>3 DEF retry_ai_task
  <2>2. /\ task'[t].status = "pending"
        /\ task'[t].retry_cycle_no = task[t].retry_cycle_no + 1
        /\ task'[t].cycle_attempt_count = 0
    BY <1>0, <2>1, RowColumns
  <2>3. Phase[t] = PhaseOf(task[t].status) /\ Cycle[t] = task[t].retry_cycle_no
    BY DEF Phase, Cycle
  <2>4. /\ Phase' = [Phase EXCEPT ![t] = "waiting"]
        /\ Cycle' = [Cycle EXCEPT ![t] = Cycle[t] + 1]
        /\ Calls' = [Calls EXCEPT ![t] = 0]
    BY <2>1, <2>2, <2>3, PhaseMoves, PhaseValues
  <2>5. Phase[t] = "broken"
    BY <2>1, <2>3, PhaseValues
  <2>6. Lifecycle!Reopen(t)
    BY <2>4, <2>5 DEF Lifecycle!Reopen, Lifecycle!Move, Phase, Cycle, Calls
  <2> QED
    BY <2>6 DEF Lifecycle!Next
<1>4. CASE cancel_ai_task(t)
  <2>1. task'[t] = CancelledRow(task[t]) /\ \A u \in Tasks \ {t} : task'[u] = task[u]
    BY <1>0, <1>4 DEF cancel_ai_task
  <2> QED
    BY <1>0, <1>4, <2>1, RowColumns, LifecycleMove DEF cancel_ai_task
<1>5. CASE mark_stale_failed_ai_task(t)
  BY <1>5 DEF mark_stale_failed_ai_task
<1>6. CASE StaleAgeReached(t)
  <2>1. task'[t] = AgedRow(task[t]) /\ \A u \in Tasks \ {t} : task'[u] = task[u]
    BY <1>0, <1>6 DEF StaleAgeReached
  <2> QED
    BY <1>0, <2>1, RowColumns, Stutter
<1> QED
  BY <1>1, <1>2, <1>3, <1>4, <1>5, <1>6 DEF ApiStep

LEMMA LifecycleClaim ==
    ASSUME CounterInv, NEW w \in Workers, NEW t \in Tasks, Claim(w, t)
    PROVE  Lifecycle!Next
<1>1. task[t] \in TaskRow /\ task \in [Tasks -> TaskRow]
  BY DEF CounterInv, TypeOK
<1>2. /\ task'[t] = ClaimedRow(task[t]) /\ \A u \in Tasks \ {t} : task'[u] = task[u]
      /\ task[t].status = "pending"
  BY <1>1 DEF Claim
<1> QED
  BY <1>1, <1>2, RowColumns, LifecycleMove

LEMMA LifecycleAllocate ==
    ASSUME CounterInv, OwnershipInv, recovered = 0,
           NEW w \in Workers, NEW t \in Tasks, Allocate(w, t)
    PROVE  Lifecycle!Next
<1> DEFINE locked == StartedRow(task[t], max_attempt_no(t) + 1, now_old[w])
<1>1. /\ task \in [Tasks -> TaskRow] /\ task[t] \in TaskRow
      /\ now_old[w] \in BOOLEAN /\ Len(attempts[t]) \in Nat
  BY DEF CounterInv, TypeOK
<1>2. /\ locked.status = task[t].status
      /\ locked.retry_cycle_no = task[t].retry_cycle_no
      /\ locked.cycle_attempt_count = task[t].cycle_attempt_count + 1
  BY <1>1, NextAttemptNo, StartedColumns DEF CounterInv
<1>3. /\ task'[t] = locked /\ \A u \in Tasks \ {t} : task'[u] = task[u]
      /\ pc[w] = "claimed" /\ on[w] = t
  BY <1>1 DEF Allocate
<1> HIDE DEF locked
<1>4. task[t].status = "running" /\ task[t].cycle_attempt_count < MaxAttempts
  BY <1>3 DEF OwnershipInv, WorkerInv
<1>5. /\ Phase[t] = PhaseOf(task[t].status) /\ Calls[t] = task[t].cycle_attempt_count
      /\ Phase' = Phase /\ Cycle' = Cycle
  <2>1. \A u \in Tasks : /\ task'[u].status = task[u].status
                         /\ task'[u].retry_cycle_no = task[u].retry_cycle_no
    BY <1>2, <1>3
  <2> QED
    BY <2>1, Zenon DEF Phase, Calls, Cycle
<1>6. Calls' = [Calls EXCEPT ![t] = Calls[t] + 1]
  BY <1>2, <1>3, <1>5, PhaseMoves
<1>7. Lifecycle!Call(t)
  BY <1>4, <1>5, <1>6, PhaseValues DEF Lifecycle!Call, Phase, Cycle, Calls
<1> QED
  BY <1>7 DEF Lifecycle!Next

\* The commit that ends a provider call of the only owner.
LEMMA LifecycleSettle ==
    ASSUME CounterInv, OwnershipInv, recovered = 0, NEW w \in Workers, NEW t \in Tasks,
           pc[w] = "calling", on[w] = t,
           NEW status \in {"succeeded", "failed", "output_invalid", "pending"},
           NEW error \in ErrorCodes,
           NEW result \in Results \cup {None},
           NEW attempt_status \in AttemptStatuses,
           Settle(w, t, status, error, result, attempt_status),
           status = "pending" => row[w].cycle_attempt_count < MaxAttempts
    PROVE  Lifecycle!Next
<1>1. status \in Statuses
  BY DEF Statuses
<1>2. task[t].status = "running" /\ Mirrors(row[w], task[t])
  BY DEF OwnershipInv, WorkerInv
<1>3. /\ \A u \in Tasks \ {t} : task'[u] = task[u]
      /\ task'[t].retry_cycle_no = task[t].retry_cycle_no
      /\ task'[t].cycle_attempt_count = task[t].cycle_attempt_count
      /\ task'[t].status = IF status = row[w].status THEN task[t].status ELSE status
  BY <1>1, SettleRows DEF CounterInv
<1>4. task'[t].status = status
  BY <1>2, <1>3 DEF Mirrors
<1>5. status = "pending" => task[t].cycle_attempt_count < MaxAttempts
  BY <1>2 DEF Mirrors
<1> QED
  BY <1>2, <1>3, <1>4, <1>5, LifecycleMove

LEMMA LifecycleFinish ==
    ASSUME CounterInv, OwnershipInv, recovered = 0,
           NEW w \in Workers, NEW t \in Tasks, Finish(w, t)
    PROVE  Lifecycle!Next
<1>1. pc[w] = "calling" => row[w].status = "running"
  BY DEF OwnershipInv, WorkerInv, Mirrors
<1>2. /\ row[w].error_code \in ErrorCodes
      /\ "error" \in ErrorCodes
      /\ AttemptStatuses = {"running", "succeeded", "failed", "output_invalid"}
      /\ \A r \in Results : ResultAfterFailure(w, t, r) \in Results \cup {None}
  <2>1. row[w].error_code \in ErrorCodes
    BY DEF CounterInv, TypeOK, TaskRow
  <2>2. "error" \in ErrorCodes
    BY DEF ErrorCodes
  <2>3. \A r \in Results : ResultAfterFailure(w, t, r) \in Results \cup {None}
    BY OutcomeTypes DEF CounterInv
  <2> QED
    BY <2>1, <2>2, <2>3 DEF AttemptStatuses
<1> USE DEF OwnsPerSession
<1>3. ASSUME NEW r \in Results, FinishSucceeded(w, t, r) PROVE Lifecycle!Next
  BY <1>2, <1>3, LifecycleSettle DEF FinishSucceeded
<1>4. ASSUME NEW r \in Results, NEW status \in {"output_invalid", "failed"},
             PersistFailed(w, t, r, status)
      PROVE  Lifecycle!Next
  BY <1>2, <1>4, LifecycleSettle DEF PersistFailed
<1>5. ASSUME NEW r \in Results, FinishOutputInvalid(w, t, r) PROVE Lifecycle!Next
  BY <1>2, <1>5, LifecycleSettle DEF FinishOutputInvalid
<1>6. ASSUME NEW r \in Results, NEW c \in {"retryable", "non_retryable"},
             FinishFailed(w, t, r, c)
      PROVE  Lifecycle!Next
  BY <1>2, <1>6, LifecycleSettle DEF FinishFailed
<1>7. ASSUME NEW r \in Results, AutoRetry(w, t, r) PROVE Lifecycle!Next
  BY <1>2, <1>7, LifecycleSettle DEF AutoRetry, should_auto_retry
<1>8. ASSUME NEW r \in Results, LateAfterCancel(w, t, r) PROVE FALSE
  BY <1>1, <1>8 DEF LateAfterCancel
<1>9. ~SkippedStaleOwner(w, t)
  BY <1>1 DEF SkippedStaleOwner
<1> QED
  BY <1>3, <1>4, <1>5, <1>6, <1>7, <1>8, <1>9 DEF Finish

LEMMA LifecycleStep ==
    CounterInv /\ OwnershipInv /\ recovered = 0 /\ (recovered = 0)' /\ [Next]_vars
    => [Lifecycle!Next]_(Lifecycle!lifeVars)
<1> SUFFICES ASSUME CounterInv, OwnershipInv, recovered = 0, (recovered = 0)', [Next]_vars
             PROVE  Lifecycle!Next \/ UNCHANGED Lifecycle!lifeVars
  OBVIOUS
<1>1. CASE UNCHANGED task
  BY <1>1, Stutter
<1>2. ASSUME NEW t \in Tasks, BrokerStep(t) PROVE UNCHANGED task
  BY <1>2 DEF BrokerStep, Enqueue, LoseDispatch, LoseMessage, StrayMessage, Reroute,
              Reject, SkipNotPending, dbVars
<1>3. ASSUME NEW w \in Workers, Crash(w) PROVE UNCHANGED task
  BY <1>3 DEF Crash, dbVars
<1>4. UNCHANGED vars => UNCHANGED task
  BY DEF vars, dbVars
<1> QED
  BY <1>1, <1>2, <1>3, <1>4, LifecycleApi, LifecycleClaim, LifecycleAllocate,
     LifecycleFinish DEF Next, WorkerStep

LEMMA LifecycleInit == Init => Lifecycle!Init
<1>1. Init => /\ Phase = [t \in Tasks |-> "new"]
              /\ Cycle = [t \in Tasks |-> 0]
              /\ Calls = [t \in Tasks |-> 0]
  BY RowColumns, PhaseValues DEF Init, Phase, Cycle, Calls
<1> QED
  BY <1>1 DEF Lifecycle!Init, Phase, Cycle, Calls

\* In every behaviour in which no admin recovers a task, the task table, seen through
\* PhaseOf, its cycle and its call counter, behaves as TaskLifecycle: whatever queues
\* and workers do, a task only makes the moves that the service promises.
THEOREM LifecycleImplemented == Spec /\ [](recovered = 0) => ImplementsLifecycle
BY LifecycleInit, LifecycleStep, OwnershipAlways, PTL
   DEF Spec, ImplementsLifecycle, Lifecycle!Spec
=============================================================================
