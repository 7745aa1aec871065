------------------------ MODULE AiTasksDeliveryProofs ------------------------
(***************************************************************************)
(* What holds whatever admins recovered before: a pending task always has  *)
(* somebody coming for it, an interview AI task yields one version, and an *)
(* attempt closed by its worker is history.                                *)
(***************************************************************************)
EXTENDS AiTasksProofs

\* A message that an entry point accepts, or a process about to publish one.
Coming(t) ==
    \/ outbox[t] > 0
    \/ queue[Route(t)][t] > 0
    \/ t \in SensitiveTasks /\ queue["default"][t] > 0

Persisted(t) ==
    /\ versions[t] <= 1
    /\ task[t].status = "succeeded" => versions[t] = 1

LEMMA Routes ==
    \A t \in Tasks : Route(t) = IF t \in SensitiveTasks THEN "sensitive" ELSE "default"
BY DEF Route

\* Messages of the tables that TypeOK describes.
LEMMA MessageTypes ==
    ASSUME TypeOK, NEW t \in Tasks
    PROVE  /\ outbox \in [Tasks -> Nat] /\ outbox[t] \in Nat
           /\ queue \in [Queues -> [Tasks -> Nat]]
           /\ queue["default"] \in [Tasks -> Nat] /\ queue["default"][t] \in Nat
           /\ queue["sensitive"] \in [Tasks -> Nat] /\ queue["sensitive"][t] \in Nat
           /\ versions \in [Tasks -> Nat] /\ versions[t] \in Nat
           /\ lost \in Nat
<1>1. queue \in [Queues -> [Tasks -> Nat]] /\ "default" \in Queues /\ "sensitive" \in Queues
  BY DEF TypeOK, Queues
<1>2. queue["default"] \in [Tasks -> Nat] /\ queue["sensitive"] \in [Tasks -> Nat]
  BY <1>1
<1> QED
  BY <1>1, <1>2 DEF TypeOK

\* What the end of a provider call does to status, versions and messages.
LEMMA FinishEffect ==
    ASSUME TypeOK, NEW w \in Workers, NEW t \in Tasks, Finish(w, t)
    PROVE  /\ \A u \in Tasks \ {t} : task'[u].status = task[u].status
                                     /\ versions'[u] = versions[u]
           /\ queue' = queue /\ lost' = lost
           /\ \/ /\ task'[t].status = task[t].status
                 /\ versions' = versions /\ outbox' = outbox
              \/ /\ task'[t].status = "succeeded"
                 /\ versions'[t] = RowsAfterPersist(t) /\ outbox' = outbox
              \/ /\ task'[t].status \in {"failed", "output_invalid"}
                 /\ versions'[t] \in {versions[t], RowsAfterPersist(t)}
                 /\ outbox' = outbox
              \/ /\ task'[t].status = "pending"
                 /\ versions' = versions /\ Send(t)
<1> DEFINE Others == \A u \in Tasks \ {t} : task'[u].status = task[u].status
                                            /\ versions'[u] = versions[u]
           Quiet == queue' = queue /\ lost' = lost
<1>1. /\ row[w].error_code \in ErrorCodes
      /\ "error" \in ErrorCodes
      /\ \A r \in Results : r \in Results \cup {None}
                            /\ ResultAfterFailure(w, t, r) \in Results \cup {None}
  <2>1. row[w].error_code \in ErrorCodes
    BY DEF TypeOK, TaskRow
  <2>2. "error" \in ErrorCodes
    BY DEF ErrorCodes
  <2>3. \A r \in Results : ResultAfterFailure(w, t, r) \in Results \cup {None}
    BY OutcomeTypes
  <2> QED
    BY <2>1, <2>2, <2>3
<1>2. /\ {"succeeded", "failed", "output_invalid", "pending", "cancelled"} \subseteq Statuses
      /\ {"succeeded", "failed", "output_invalid"} \subseteq AttemptStatuses
  BY DEF Statuses, AttemptStatuses
<1>3. ASSUME NEW status \in Statuses, NEW error \in ErrorCodes,
             NEW result \in Results \cup {None}, NEW attempt_status \in AttemptStatuses,
             Settle(w, t, status, error, result, attempt_status)
      PROVE  /\ \A u \in Tasks \ {t} : task'[u].status = task[u].status
             /\ task'[t].status = IF status = row[w].status THEN task[t].status ELSE status
  BY <1>3, SettleRows
<1>4. versions \in [Tasks -> Nat]
  BY DEF TypeOK
<1> USE DEF OwnsPerSession, msgVars, bounds
<1>5. ASSUME NEW r \in Results, FinishSucceeded(w, t, r)
      PROVE  /\ Others /\ Quiet /\ outbox' = outbox
             /\ task'[t].status = "succeeded" /\ versions'[t] = RowsAfterPersist(t)
  <2>1. /\ Settle(w, t, "succeeded", row[w].error_code, r, "succeeded")
        /\ row[w].status = "running"
        /\ versions' = [versions EXCEPT ![t] = RowsAfterPersist(t)]
        /\ Quiet /\ outbox' = outbox
    BY <1>5 DEF FinishSucceeded
  <2>2. /\ \A u \in Tasks \ {t} : task'[u].status = task[u].status
        /\ task'[t].status = "succeeded"
    BY <1>1, <1>2, <1>3, <2>1
  <2> QED
    BY <1>4, <2>1, <2>2
<1>6. ASSUME NEW r \in Results, NEW status \in {"output_invalid", "failed"},
             PersistFailed(w, t, r, status)
      PROVE  /\ Others /\ Quiet /\ outbox' = outbox
             /\ task'[t].status \in {"failed", "output_invalid"}
             /\ versions'[t] \in {versions[t], RowsAfterPersist(t)}
  <2>1. /\ Settle(w, t, status, "error", ResultAfterFailure(w, t, r), status)
        /\ row[w].status = "running"
        /\ \E rows \in {versions[t], RowsAfterPersist(t)} :
              versions' = [versions EXCEPT ![t] = rows]
        /\ Quiet /\ outbox' = outbox
    BY <1>6 DEF PersistFailed
  <2>2. /\ \A u \in Tasks \ {t} : task'[u].status = task[u].status
        /\ task'[t].status = status
    BY <1>1, <1>2, <1>3, <2>1
  <2> QED
    BY <1>4, <2>1, <2>2
<1>7. ASSUME NEW r \in Results,
             \/ FinishOutputInvalid(w, t, r)
             \/ \E c \in {"retryable", "non_retryable"} : FinishFailed(w, t, r, c)
      PROVE  /\ Others /\ Quiet /\ outbox' = outbox /\ versions' = versions
             /\ task'[t].status \in {"failed", "output_invalid"}
  <2>1. PICK status \in {"failed", "output_invalid"} :
           Settle(w, t, status, "error", ResultAfterFailure(w, t, r), status)
    BY <1>7 DEF FinishOutputInvalid, FinishFailed
  <2>2. row[w].status = "running" /\ Quiet /\ outbox' = outbox /\ versions' = versions
    BY <1>7 DEF FinishOutputInvalid, FinishFailed
  <2>3. /\ \A u \in Tasks \ {t} : task'[u].status = task[u].status
        /\ task'[t].status = status
    BY <1>1, <1>2, <1>3, <2>1, <2>2
  <2> QED
    BY <2>2, <2>3
<1>8. ASSUME NEW r \in Results, AutoRetry(w, t, r)
      PROVE  /\ Others /\ Quiet /\ versions' = versions
             /\ task'[t].status = "pending" /\ Send(t)
  <2>1. /\ Settle(w, t, "pending", "error", ResultAfterFailure(w, t, r), "failed")
        /\ row[w].status = "running" /\ Quiet /\ versions' = versions /\ Send(t)
    BY <1>8 DEF AutoRetry
  <2>2. /\ \A u \in Tasks \ {t} : task'[u].status = task[u].status
        /\ task'[t].status = "pending"
    BY <1>1, <1>2, <1>3, <2>1
  <2> QED
    BY <2>1, <2>2
<1>9. ASSUME NEW r \in Results, LateAfterCancel(w, t, r)
      PROVE  /\ Others /\ Quiet /\ outbox' = outbox /\ versions' = versions
             /\ task'[t].status = task[t].status
  <2>1. /\ Settle(w, t, "cancelled", row[w].error_code, ResultAfterFailure(w, t, r),
                  "failed")
        /\ row[w].status = "cancelled" /\ Quiet /\ outbox' = outbox /\ versions' = versions
    BY <1>9 DEF LateAfterCancel
  <2>2. /\ \A u \in Tasks \ {t} : task'[u].status = task[u].status
        /\ task'[t].status = task[t].status
    BY <1>1, <1>2, <1>3, <2>1
  <2> QED
    BY <2>1, <2>2
<1>10. ASSUME SkippedStaleOwner(w, t)
       PROVE  /\ Others /\ Quiet /\ outbox' = outbox /\ versions' = versions
              /\ task'[t].status = task[t].status
  BY <1>10 DEF SkippedStaleOwner, dbVars
<1> QED
  BY <1>5, <1>6, <1>7, <1>8, <1>9, <1>10 DEF Finish

-----------------------------------------------------------------------------
LEMMA DeliveryApi ==
    ASSUME TypeOK, NEW t \in Tasks, ApiStep(t), PendingHasDispatch, PersistedOnce
    PROVE  PendingHasDispatch' /\ PersistedOnce'
<1>0. task \in [Tasks -> TaskRow] /\ task[t] \in TaskRow
  BY DEF TypeOK
<1>1. versions' = versions /\ queue' = queue /\ lost' = lost
  BY DEF ApiStep, Create, Redispatch, retry_ai_task, cancel_ai_task,
         mark_stale_failed_ai_task, StaleAgeReached, dbVars, msgVars, bounds
<1>2. /\ \A u \in Tasks \ {t} : task'[u].status = task[u].status
      /\ task'[t].status = "succeeded" => task[t].status = "succeeded"
      /\ task'[t].status = "pending" => Send(t) \/ task[t].status = "pending"
      /\ Send(t) \/ outbox' = outbox
  <2>1. CASE Create(t)
    BY <1>0, <2>1, RowColumns DEF Create
  <2>2. CASE Redispatch(t)
    BY <2>2 DEF Redispatch, dbVars
  <2>3. CASE retry_ai_task(t)
    BY <1>0, <2>3, RowColumns DEF retry_ai_task
  <2>4. CASE cancel_ai_task(t)
    BY <1>0, <2>4, RowColumns DEF cancel_ai_task, msgVars
  <2>5. CASE mark_stale_failed_ai_task(t)
    BY <1>0, <2>5, RowColumns DEF mark_stale_failed_ai_task, msgVars
  <2>6. CASE StaleAgeReached(t)
    BY <1>0, <2>6, RowColumns DEF StaleAgeReached, msgVars
  <2> QED
    BY <2>1, <2>2, <2>3, <2>4, <2>5, <2>6 DEF ApiStep
<1>3. PersistedOnce'
  BY <1>1, <1>2, TasksAssumption DEF PersistedOnce
<1>4. /\ \A u \in Tasks : outbox[u] > 0 => outbox'[u] > 0
      /\ Send(t) => outbox'[t] > 0
  BY <1>2, MessageTypes DEF Send
<1>5. PendingHasDispatch'
  BY <1>1, <1>2, <1>4 DEF PendingHasDispatch
<1> QED
  BY <1>3, <1>5

\* A step that leaves the rows alone and keeps every pending task served.
LEMMA DeliveryBroker ==
    ASSUME TypeOK, NEW t \in Tasks, BrokerStep(t), PendingHasDispatch, PersistedOnce
    PROVE  PendingHasDispatch' /\ PersistedOnce'
<1>1. UNCHANGED <<task, attempts, versions>>
  BY DEF BrokerStep, Enqueue, LoseDispatch, LoseMessage, StrayMessage, Reroute, Reject,
         SkipNotPending, dbVars
<1>2. PersistedOnce'
  BY <1>1 DEF PersistedOnce
<1>3. SUFFICES ASSUME lost' = 0, NEW u \in Tasks, task[u].status = "pending"
               PROVE  Coming(u)'
  BY <1>1, <1>2 DEF PendingHasDispatch, Coming
<1> USE MessageTypes
<1>4. lost = 0 /\ Coming(u)
  <2>1. lost' = lost \/ lost' = lost + 1
    BY DEF BrokerStep, Enqueue, LoseDispatch, LoseMessage, StrayMessage, Reroute,
           Reject, SkipNotPending, bounds
  <2> QED
    BY <1>3, <2>1 DEF PendingHasDispatch, Coming
<1>5. CASE Enqueue(t)
  <2>1. /\ outbox' = [outbox EXCEPT ![t] = outbox[t] - 1]
        /\ queue' = [queue EXCEPT ![Route(t)][t] = queue[Route(t)][t] + 1]
    BY <1>5 DEF Enqueue
  <2> QED
    BY <1>4, <2>1, Routes DEF Coming, Queues
<1>6. CASE LoseDispatch(t)
  BY <1>3, <1>4, <1>6 DEF LoseDispatch
<1>7. ASSUME NEW q \in Queues, LoseMessage(q, t) PROVE Coming(u)'
  BY <1>3, <1>4, <1>7 DEF LoseMessage
<1>8. ASSUME NEW q \in Queues, StrayMessage(q, t) PROVE Coming(u)'
  <2>1. queue' = [queue EXCEPT ![q][t] = queue[q][t] + 1] /\ outbox' = outbox
    BY <1>8 DEF StrayMessage
  <2> QED
    BY <1>4, <2>1, Routes DEF Coming, Queues
<1>9. CASE Reroute(t)
  <2>1. /\ queue' = [queue EXCEPT !["default"][t] = queue["default"][t] - 1,
                                  !["sensitive"][t] = queue["sensitive"][t] + 1]
        /\ outbox' = outbox /\ t \in SensitiveTasks
    BY <1>9 DEF Reroute
  <2> QED
    BY <1>4, <2>1, Routes DEF Coming, Queues
<1>10. CASE Reject(t)
  <2>1. /\ queue' = [queue EXCEPT !["sensitive"][t] = queue["sensitive"][t] - 1]
        /\ outbox' = outbox /\ t \notin SensitiveTasks
    BY <1>10 DEF Reject
  <2> QED
    BY <1>4, <2>1, Routes DEF Coming, Queues
<1>11. CASE SkipNotPending(t)
  <2>1. /\ queue' = [queue EXCEPT ![Route(t)][t] = queue[Route(t)][t] - 1]
        /\ outbox' = outbox /\ u # t
    BY <1>3, <1>11 DEF SkipNotPending
  <2> QED
    BY <1>4, <2>1, Routes DEF Coming, Queues
<1> QED
  BY <1>5, <1>6, <1>7, <1>8, <1>9, <1>10, <1>11 DEF BrokerStep

LEMMA DeliveryWorker ==
    ASSUME TypeOK, AttemptNumbering, PendingHasDispatch, PersistedOnce,
           NEW w \in Workers, NEW t \in Tasks, WorkerStep(w, t)
    PROVE  PendingHasDispatch' /\ PersistedOnce'
<1>0. task \in [Tasks -> TaskRow] /\ task[t] \in TaskRow /\ now_old[w] \in BOOLEAN
  BY DEF TypeOK
<1>1. CASE Claim(w, t)
  <2>1. /\ \A u \in Tasks \ {t} : task'[u].status = task[u].status
        /\ task'[t].status = "running"
        /\ versions' = versions /\ lost' = lost /\ outbox' = outbox
        /\ queue' = [queue EXCEPT ![Route(t)][t] = queue[Route(t)][t] - 1]
    BY <1>0, <1>1, RowColumns DEF Claim, bounds
  <2>2. \A u \in Tasks \ {t} : Coming(u) => Coming(u)'
    BY <2>1, MessageTypes, Routes DEF Coming, Queues
  <2>3. PersistedOnce'
    BY <2>1, TasksAssumption DEF PersistedOnce
  <2> QED
    BY <2>1, <2>2, <2>3 DEF PendingHasDispatch, Coming
<1>2. CASE Allocate(w, t)
  <2>1. /\ \A u \in Tasks : task'[u].status = task[u].status
        /\ versions' = versions /\ lost' = lost /\ outbox' = outbox /\ queue' = queue
    <3>1. max_attempt_no(t) + 1 \in Nat
      BY NextAttemptNo DEF TypeOK
    <3>2. StartedRow(task[t], max_attempt_no(t) + 1, now_old[w]).status = task[t].status
      BY <1>0, <3>1, StartedColumns
    <3> QED
      BY <1>0, <1>2, <3>2 DEF Allocate, msgVars, bounds
  <2> QED
    BY <2>1, TasksAssumption DEF PendingHasDispatch, PersistedOnce
<1>3. CASE Finish(w, t)
  <2>1. /\ \A u \in Tasks \ {t} : task'[u].status = task[u].status
                                  /\ versions'[u] = versions[u]
        /\ queue' = queue /\ lost' = lost
    BY <1>3, FinishEffect
  <2>2. \/ /\ task'[t].status = task[t].status
           /\ versions' = versions /\ outbox' = outbox
        \/ /\ task'[t].status = "succeeded"
           /\ versions'[t] = RowsAfterPersist(t) /\ outbox' = outbox
        \/ /\ task'[t].status \in {"failed", "output_invalid"}
           /\ versions'[t] \in {versions[t], RowsAfterPersist(t)}
           /\ outbox' = outbox
        \/ /\ task'[t].status = "pending"
           /\ versions' = versions /\ Send(t)
    BY <1>3, FinishEffect
  <2>3. versions[t] \in Nat /\ outbox \in [Tasks -> Nat] /\ outbox[t] \in Nat
    BY MessageTypes
  <2>4. t \in SensitiveTasks => Persisted(t)'
    <3>1. t \in SensitiveTasks =>
             Persisted(t) /\ RowsAfterPersist(t) = 1
      BY <2>3 DEF PersistedOnce, Persisted, RowsAfterPersist
    <3> QED
      BY <2>2, <2>3, <3>1 DEF Persisted
  <2>5. PersistedOnce'
    BY <2>1, <2>4, TasksAssumption DEF PersistedOnce, Persisted
  <2>6. /\ \A u \in Tasks : outbox[u] > 0 => outbox'[u] > 0
        /\ task'[t].status = "pending" => task[t].status = "pending" \/ outbox'[t] > 0
    <3>1. Send(t) => /\ \A u \in Tasks : outbox[u] > 0 => outbox'[u] > 0
                     /\ outbox'[t] > 0
      BY MessageTypes DEF Send
    <3> QED
      BY <2>2, <3>1
  <2> QED
    BY <2>1, <2>5, <2>6 DEF PendingHasDispatch
<1> QED
  BY <1>1, <1>2, <1>3 DEF WorkerStep

LEMMA DeliveryStep ==
    CounterInv /\ PendingHasDispatch /\ PersistedOnce /\ [Next]_vars
    => PendingHasDispatch' /\ PersistedOnce'
<1> SUFFICES ASSUME TypeOK, AttemptNumbering, PendingHasDispatch, PersistedOnce, [Next]_vars
             PROVE  PendingHasDispatch' /\ PersistedOnce'
  BY DEF CounterInv
<1>1. ASSUME NEW w \in Workers, Crash(w) PROVE PendingHasDispatch' /\ PersistedOnce'
  <2>1. UNCHANGED <<task, versions, outbox, queue>> /\ lost' = lost + 1 /\ lost \in Nat
    BY <1>1 DEF Crash, dbVars, msgVars, TypeOK
  <2> QED
    BY <2>1 DEF PendingHasDispatch, PersistedOnce
<1>2. CASE UNCHANGED vars
  BY <1>2 DEF PendingHasDispatch, PersistedOnce, vars, dbVars, msgVars, bounds
<1> QED
  BY <1>1, <1>2, DeliveryApi, DeliveryBroker, DeliveryWorker DEF Next

LEMMA DeliveryAlways == Spec => [](PendingHasDispatch /\ PersistedOnce)
<1>1. Init => PendingHasDispatch /\ PersistedOnce
  BY RowColumns, TasksAssumption DEF Init, PendingHasDispatch, PersistedOnce
<1> QED
  BY <1>1, DeliveryStep, CountersAlways, PTL DEF Spec

\* As long as no dispatch or message was lost, every pending task has a message on a
\* queue whose consumer accepts it, or a committed request that still publishes one:
\* auto-retries, manual retries, late workers and reroutes strand no task.
THEOREM NobodyStranded == Spec => []PendingHasDispatch
BY DeliveryAlways, PTL

\* An interview AI task yields at most one version, and one when it succeeded, with
\* any number of claims, recoveries, retries and late workers.
THEOREM OneVersion == Spec => []PersistedOnce
BY DeliveryAlways, PTL

-----------------------------------------------------------------------------
(* History. *)

\* The attempt a worker in its provider call will close is one that only a recovery
\* may have closed before, and no other worker closes it.
WritesOpen(w) ==
    pc[w] = "calling" =>
        /\ on[w] \in Tasks
        /\ att[w] \in 1..Len(attempts[on[w]])
        /\ attempts[on[w]][att[w]].status \in {"running", "failed"}
        /\ \A v \in Workers \ {w} :
              pc[v] = "calling" /\ on[v] = on[w] => att[v] # att[w]

HistoryInv == \A w \in Workers : WritesOpen(w)

Frozen(t, i) ==
    attempts[t][i].status \in {"succeeded", "output_invalid"}
    => attempts'[t][i] = attempts[t][i]

\* A step that starts no call, keeps every attempt and closes none but as failed.
LEMMA HistoryFrame ==
    ASSUME HistoryInv,
           \A t \in Tasks :
              /\ Len(attempts'[t]) = Len(attempts[t])
              /\ \A i \in 1..Len(attempts[t]) :
                    attempts'[t][i].status \in {attempts[t][i].status, "failed"},
           \A w \in Workers :
              pc'[w] = "calling" => /\ pc[w] = "calling" /\ on'[w] = on[w]
                                    /\ att'[w] = att[w]
    PROVE  HistoryInv'
BY DEF HistoryInv, WritesOpen

LEMMA HistoryApi ==
    ASSUME TypeOK, HistoryInv, NEW t \in Tasks, ApiStep(t)
    PROVE  /\ HistoryInv'
           /\ \A u \in Tasks : \A i \in 1..Len(attempts[u]) : Frozen(u, i)
<1>1. pc' = pc /\ on' = on /\ att' = att
  BY DEF ApiStep, Create, Redispatch, retry_ai_task, cancel_ai_task,
         mark_stale_failed_ai_task, StaleAgeReached, workerVars
<1>2. CASE attempts' = attempts
  BY <1>1, <1>2, HistoryFrame DEF Frozen
<1>3. CASE mark_stale_failed_ai_task(t)
  <2>1. /\ attempts \in [Tasks -> Seq(AttemptRow)]
        /\ attempts[t] \in Seq(AttemptRow)
        /\ attempts' = [attempts EXCEPT ![t] = FailRunning(attempts[t])]
    BY <1>3 DEF mark_stale_failed_ai_task, TypeOK
  <2>2. /\ Len(FailRunning(attempts[t])) = Len(attempts[t])
        /\ \A i \in 1..Len(attempts[t]) :
              FailRunning(attempts[t])[i] =
                 IF attempts[t][i].status = "running" THEN WithStatus(attempts[t][i], "failed")
                                                      ELSE attempts[t][i]
    BY <2>1 DEF FailRunning
  <2>3. \A i \in 1..Len(attempts[t]) : WithStatus(attempts[t][i], "failed").status = "failed"
    <3>1. "failed" \in AttemptStatuses
      BY DEF AttemptStatuses
    <3>2. \A i \in 1..Len(attempts[t]) : attempts[t][i] \in AttemptRow
      BY <2>1
    <3> QED
      BY <3>1, <3>2, StatusColumns
  <2>4. \A u \in Tasks :
           /\ Len(attempts'[u]) = Len(attempts[u])
           /\ \A i \in 1..Len(attempts[u]) :
                 /\ attempts'[u][i].status \in {attempts[u][i].status, "failed"}
                 /\ Frozen(u, i)
    BY <2>1, <2>2, <2>3 DEF Frozen
  <2> QED
    BY <1>1, <2>4, HistoryFrame
<1> QED
  BY <1>2, <1>3
     DEF ApiStep, Create, Redispatch, retry_ai_task, cancel_ai_task, StaleAgeReached, dbVars

LEMMA HistoryAllocate ==
    ASSUME TypeOK, HistoryInv, NEW w \in Workers, NEW t \in Tasks, Allocate(w, t)
    PROVE  /\ HistoryInv'
           /\ \A u \in Tasks : \A i \in 1..Len(attempts[u]) : Frozen(u, i)
<1>1. PICK a : /\ a.status = "running"
               /\ attempts' = [attempts EXCEPT ![t] = Append(attempts[t], a)]
  BY DEF Allocate, NewAttempt
<1>2. /\ pc' = [pc EXCEPT ![w] = "calling"] /\ on' = on /\ on[w] = t
      /\ att' = [att EXCEPT ![w] = Len(attempts[t]) + 1]
  BY DEF Allocate
<1>3. /\ attempts \in [Tasks -> Seq(AttemptRow)] /\ attempts[t] \in Seq(AttemptRow)
      /\ att \in [Workers -> Nat] /\ pc \in [Workers -> {"idle", "claimed", "calling"}]
      /\ Len(attempts[t]) \in Nat
  BY DEF TypeOK
<1>4. /\ Len(attempts'[t]) = Len(attempts[t]) + 1
      /\ \A i \in 1..Len(attempts[t]) : attempts'[t][i] = attempts[t][i]
      /\ attempts'[t][Len(attempts[t]) + 1] = a
      /\ \A u \in Tasks \ {t} : attempts'[u] = attempts[u]
  <2>1. attempts'[t] = Append(attempts[t], a)
    BY <1>1, <1>3
  <2>2. \A u \in Tasks \ {t} : attempts'[u] = attempts[u]
    BY <1>1, <1>3
  <2>3. /\ Len(Append(attempts[t], a)) = Len(attempts[t]) + 1
        /\ \A i \in 1..Len(attempts[t]) : Append(attempts[t], a)[i] = attempts[t][i]
        /\ Append(attempts[t], a)[Len(attempts[t]) + 1] = a
    BY <1>3
  <2> QED
    BY <2>1, <2>2, <2>3
<1>5. \A u \in Tasks : \A i \in 1..Len(attempts[u]) : Frozen(u, i)
  BY <1>4 DEF Frozen
<1>6. ASSUME NEW v \in Workers PROVE WritesOpen(v)'
  <2>1. CASE v = w
    <3>1. pc'[w] = "calling" /\ on'[w] = t /\ att'[w] = Len(attempts[t]) + 1
      BY <1>2, <1>3
    <3>2. ASSUME NEW x \in Workers \ {w}, pc'[x] = "calling", on'[x] = t
          PROVE  att'[x] # Len(attempts[t]) + 1
      <4>1. att[x] \in 1..Len(attempts[t]) /\ att'[x] = att[x]
        BY <1>2, <1>3, <3>2 DEF HistoryInv, WritesOpen
      <4> QED
        BY <1>3, <4>1
    <3> QED
      BY <1>1, <1>3, <1>4, <2>1, <3>1, <3>2 DEF WritesOpen
  <2>2. CASE v # w /\ pc[v] = "calling"
    <3>1. /\ on[v] \in Tasks /\ att[v] \in 1..Len(attempts[on[v]])
          /\ attempts[on[v]][att[v]].status \in {"running", "failed"}
          /\ pc'[v] = "calling" /\ on'[v] = on[v] /\ att'[v] = att[v]
      BY <1>2, <1>3, <2>2 DEF HistoryInv, WritesOpen
    <3>2. /\ att[v] \in 1..Len(attempts'[on[v]])
          /\ attempts'[on[v]][att[v]].status \in {"running", "failed"}
      BY <1>3, <1>4, <3>1
    <3>3. ASSUME NEW x \in Workers \ {v}, pc'[x] = "calling", on'[x] = on[v]
          PROVE  att'[x] # att[v]
      <4>1. CASE x = w
        <5>1. att'[x] = Len(attempts[on[v]]) + 1
          BY <1>2, <1>3, <3>3, <4>1
        <5> QED
          BY <1>3, <3>1, <5>1
      <4>2. CASE x # w
        BY <1>2, <1>3, <2>2, <3>3, <4>2 DEF HistoryInv, WritesOpen
      <4> QED
        BY <4>1, <4>2
    <3> QED
      BY <3>1, <3>2, <3>3 DEF WritesOpen
  <2>3. CASE v # w /\ pc[v] # "calling"
    BY <1>2, <1>3, <2>3 DEF WritesOpen
  <2> QED
    BY <2>1, <2>2, <2>3
<1> QED
  BY <1>5, <1>6 DEF HistoryInv

LEMMA HistoryFinish ==
    ASSUME TypeOK, HistoryInv, NEW w \in Workers, NEW t \in Tasks, Finish(w, t)
    PROVE  /\ HistoryInv'
           /\ \A u \in Tasks : \A i \in 1..Len(attempts[u]) : Frozen(u, i)
<1>1. pc[w] = "calling" /\ on[w] = t
  BY FinishSettles
<1>2. Release(w)
  BY FinishSettles DEF SkippedStaleOwner, Settle
<1>3. /\ attempts \in [Tasks -> Seq(AttemptRow)] /\ attempts[t] \in Seq(AttemptRow)
      /\ pc \in [Workers -> {"idle", "claimed", "calling"}]
      /\ on \in [Workers -> Tasks \cup {None}] /\ att \in [Workers -> Nat]
  BY DEF TypeOK
<1>4. /\ pc'[w] = "idle"
      /\ \A v \in Workers \ {w} : pc'[v] = pc[v] /\ on'[v] = on[v] /\ att'[v] = att[v]
  BY <1>2, <1>3 DEF Release
<1>5. \A u \in Tasks :
         /\ Len(attempts'[u]) = Len(attempts[u])
         /\ \A i \in 1..Len(attempts[u]) :
               (u = t /\ i = att[w]) \/ attempts'[u][i] = attempts[u][i]
  <2>1. CASE SkippedStaleOwner(w, t)
    BY <2>1 DEF SkippedStaleOwner, dbVars
  <2>2. ASSUME NEW attempt_status \in AttemptStatuses,
               attempts' = [attempts EXCEPT ![t] =
                               CloseAttempt(attempts[t], att[w], attempt_status)]
        PROVE  \A u \in Tasks :
                  /\ Len(attempts'[u]) = Len(attempts[u])
                  /\ \A i \in 1..Len(attempts[u]) :
                        (u = t /\ i = att[w]) \/ attempts'[u][i] = attempts[u][i]
    BY <1>3, <2>2 DEF CloseAttempt
  <2> QED
    BY <2>1, <2>2, FinishSettles DEF Settle
<1>6. \A u \in Tasks : \A i \in 1..Len(attempts[u]) : Frozen(u, i)
  BY <1>1, <1>5 DEF Frozen, HistoryInv, WritesOpen
<1>7. ASSUME NEW v \in Workers PROVE WritesOpen(v)'
  <2>1. CASE pc'[v] = "calling"
    <3>1. /\ v # w /\ pc[v] = "calling" /\ on'[v] = on[v] /\ att'[v] = att[v]
          /\ WritesOpen(v) /\ on[v] \in Tasks
      BY <1>4, <2>1 DEF HistoryInv, WritesOpen
    <3>2. ~(on[v] = t /\ att[v] = att[w])
      BY <1>1, <3>1 DEF WritesOpen
    <3>3. \A x \in Workers : pc'[x] = "calling" => /\ pc[x] = "calling" /\ on'[x] = on[x]
                                                   /\ att'[x] = att[x]
      BY <1>4
    <3> QED
      BY <1>5, <3>1, <3>2, <3>3 DEF WritesOpen
  <2>2. CASE pc'[v] # "calling"
    BY <2>2 DEF WritesOpen
  <2> QED
    BY <2>1, <2>2
<1> QED
  BY <1>6, <1>7 DEF HistoryInv

LEMMA HistoryStep ==
    TypeOK /\ HistoryInv /\ [Next]_vars
    => /\ HistoryInv'
       /\ \A u \in Tasks : \A i \in 1..Len(attempts[u]) : Frozen(u, i)
<1> SUFFICES ASSUME TypeOK, HistoryInv, [Next]_vars
             PROVE  /\ HistoryInv'
                    /\ \A u \in Tasks : \A i \in 1..Len(attempts[u]) : Frozen(u, i)
  OBVIOUS
<1> DEFINE Goal == /\ HistoryInv'
                   /\ \A u \in Tasks : \A i \in 1..Len(attempts[u]) : Frozen(u, i)
<1>1. ASSUME attempts' = attempts,
             \A w \in Workers :
                pc'[w] = "calling" => /\ pc[w] = "calling" /\ on'[w] = on[w]
                                      /\ att'[w] = att[w]
      PROVE  Goal
  BY <1>1, HistoryFrame DEF Frozen
<1>2. ASSUME NEW t \in Tasks, BrokerStep(t) PROVE Goal
  BY <1>1, <1>2
     DEF BrokerStep, Enqueue, LoseDispatch, LoseMessage, StrayMessage, Reroute, Reject,
         SkipNotPending, dbVars, workerVars
<1>3. ASSUME NEW w \in Workers, NEW t \in Tasks, Claim(w, t) PROVE Goal
  <2>1. \A v \in Workers : pc'[v] = "calling" => /\ pc[v] = "calling" /\ on'[v] = on[v]
                                                 /\ att'[v] = att[v]
    BY <1>3 DEF Claim, TypeOK
  <2> QED
    BY <1>1, <1>3, <2>1 DEF Claim
<1>4. ASSUME NEW w \in Workers, Crash(w) PROVE Goal
  <2>1. \A v \in Workers : pc'[v] = "calling" => /\ pc[v] = "calling" /\ on'[v] = on[v]
                                                 /\ att'[v] = att[v]
    BY <1>4 DEF Crash, Release, TypeOK
  <2> QED
    BY <1>1, <1>4, <2>1 DEF Crash, dbVars
<1>5. CASE UNCHANGED vars
  BY <1>1, <1>5 DEF vars, dbVars, workerVars
<1> QED
  BY <1>2, <1>3, <1>4, <1>5, HistoryApi, HistoryAllocate, HistoryFinish DEF Next, WorkerStep

LEMMA HistoryAlways == Spec => []HistoryInv
<1>1. Init => HistoryInv
  BY DEF Init, HistoryInv, WritesOpen
<1> QED
  BY <1>1, HistoryStep, TypeCorrect, PTL DEF Spec

\* No recovery and no other worker of the same task rewrites an attempt that its
\* worker closed as succeeded or output_invalid.
THEOREM HistoryKept == Spec => ClosedAttemptFrozen
<1>1. TypeOK /\ HistoryInv /\ [Next]_vars =>
         [\A t \in Tasks : \A i \in 1..Len(attempts[t]) :
             attempts[t][i].status \in {"succeeded", "output_invalid"}
             => attempts'[t][i] = attempts[t][i]]_vars
  BY HistoryStep DEF Frozen
<1> QED
  BY <1>1, HistoryAlways, TypeCorrect, PTL DEF Spec, ClosedAttemptFrozen
=============================================================================
