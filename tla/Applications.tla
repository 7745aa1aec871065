---------------------------- MODULE Applications ----------------------------
(***************************************************************************)
(* Job applications from creation to the hiring decision: screening,       *)
(* resume scores, version migration, closing, hiring decisions and the     *)
(* jobs they belong to (backend/app/services/candidates.py, resumes.py,    *)
(* hiring_decisions.py, jobs.py).                                          *)
(*                                                                         *)
(* Only create_hiring_decision locks the application row.  Every other     *)
(* handler loads its rows, decides on what it loaded and commits later:    *)
(* it is two actions here, and `req` keeps what the handler loaded.  A     *)
(* commit writes the columns that differ from the loaded row (SQLAlchemy   *)
(* flushes changed attributes) and is refused by the unique indexes that   *)
(* guard idempotency keys and the current score.  A request that a handler *)
(* refuses changes nothing and is no action.                               *)
(*                                                                         *)
(* A definition whose name ends in _Suffix is a faulty variant of a later  *)
(* one: some property below tells the two apart.                           *)
(*                                                                         *)
(* Left out: texts, reasons, scores, status logs and audit rows, the       *)
(* drafts and contents of job versions and the resume behind a score       *)
(* (Jobs, Resumes), the analysis behind a hiring decision                  *)
(* (InterviewEvidence), and late workers of recovered tasks (AiTasks).     *)
(***************************************************************************)
EXTENDS Integers, Sequences, FiniteSets, TLC

CONSTANTS
    Jobs,           \* jobs
    Apps,           \* rows that may be created in job_applications
    Clients,        \* HR requests that may be open at one time
    Tasks,          \* RESUME_SCORE rows that may be created in ai_tasks
    Keys,           \* idempotency keys
    None,           \* SQL NULL, or no request
    Lost,           \* a score worker that was rolled back and never reports
    MaxVersions,    \* bound: versions of a job, numbered as they are published
    MaxCandidates,  \* bound: rows present when a candidate is created
    MaxRequests,    \* bound: requests that load rows and commit later
    MaxDecisions    \* bound: screening and hiring decisions together

ASSUME TasksAssumption  == IsFiniteSet(Tasks) /\ \A S \in SUBSET Tasks : S # None /\ S # Lost
ASSUME NoneAssumption   == None \notin Keys \cup Apps \cup Jobs \cup Tasks \cup {Lost}
ASSUME BoundsAssumption == MaxVersions \in Nat \ {0} /\ {MaxCandidates, MaxRequests, MaxDecisions} \subseteq Nat

VARIABLES
    job,         \* jobs: status and number of the current (published) version, 0 for none
    app,         \* job_applications, None before the INSERT commits
    decisions,   \* screening_decisions and hiring_decisions, in commit order
    task,        \* score rows of ai_tasks, with their frozen input
    result,      \* ai_results: the row a task wrote, or None
    opened,      \* number of requests opened so far (for the bound only)
    req,         \* client: None, or the handler it runs and what that loaded
    saving       \* task: None, Lost, or the current rows its worker marks as previous

vars == <<job, app, decisions, task, result, opened, req, saving>>

Screening  == {"enter_interview", "hold", "reject", "talent_pool"}
Hiring     == {"recommend_hire", "reject", "hold"}
Closing    == {"reject", "transfer", "terminate"}
JobEdits   == {"publish", "pause", "resume", "close"}
Pipelines  == {"pending_hr_screen", "interviewing", "pending_offer", "rejected", "talent_pool"}
AppStatuses == {"in_progress", "rejected", "transferred", "terminated"}

JobRow == [status : {"draft", "open", "paused", "closed"}, current : 0..MaxVersions]

AppRow == [job : Jobs, version : 1..MaxVersions, status : AppStatuses,
           pipeline : Pipelines, lock : Nat \ {0}, started : BOOLEAN,
           interview : {"none", "active", "pending_cancel", "pending_rebuild"},
           moved_to : Jobs \cup {None}]

Decision == [app : Apps, kind : {"screening", "hiring"}, what : Screening \cup Hiring,
             at : Nat \ {0}, key : Keys \cup {None}]

\* A task whose output was invalid is retried like a failed one, and stands with it here.
TaskStatuses == {"absent", "pending", "running", "succeeded", "failed", "cancelled"}

TaskRow == [app : Apps \cup {None}, version : 0..MaxVersions, key : Keys \cup {None},
            status : TaskStatuses]

ResultRow == [label : Nat \ {0}, version : 1..MaxVersions, is_current : BOOLEAN,
              is_stale : BOOLEAN]

\* What a request holds between its two steps: its arguments and the rows it loaded.
Handler ==
    [op : {"job"}, what : JobEdits, job : Jobs, row : JobRow, new : JobRow]
    \cup [op : {"close"}, app : Apps, row : AppRow, action : Closing,
          target : Jobs \cup {None}, version : 1..MaxVersions \cup {None}]
    \cup [op : {"migrate"}, app : Apps, row : AppRow, version : 1..MaxVersions]
    \cup [op : {"screen"}, app : Apps, row : AppRow, what : Screening, key : Keys \cup {None}]
    \cup [op : {"score"}, app : Apps, row : AppRow, key : Keys \cup {None}]

ASSUME NoneIsNoRow == None \notin AppRow \cup ResultRow \cup Handler

AbsentTask == [app |-> None, version |-> 0, key |-> None, status |-> "absent"]
-----------------------------------------------------------------------------
(* Rows. *)

Live(a) == app[a] # None

\* What a session writes of a row it loaded: the columns it changed.
Flush_WholeRow(db, loaded, new) == new

Flush(db, loaded, new) ==
    [f \in DOMAIN db |-> IF new[f] = loaded[f] THEN db[f] ELSE new[f]]

create_application(j, version, started) ==
    [job |-> j, version |-> version, status |-> "in_progress",
     pipeline |-> "pending_hr_screen", lock |-> 1, started |-> started,
     interview |-> IF started THEN "active" ELSE "none", moved_to |-> None]

in_flight_applications(j) ==
    {a \in Apps : Live(a) /\ app[a].job = j /\ app[a].status = "in_progress"}

ResultsOf(a) == {t \in Tasks : task[t].app = a /\ result[t] # None}

current_results(a) == {t \in ResultsOf(a) : result[t].is_current}

count_ai_results_for_application(a) == Cardinality(ResultsOf(a))

find_by_idempotency(kind, a, k) ==
    {i \in 1..Len(decisions) : /\ decisions[i].kind = kind
                               /\ decisions[i].app = a
                               /\ decisions[i].key = k}

find_inflight_task(a) ==
    {t \in Tasks : task[t].app = a /\ task[t].status \in {"pending", "running"}}

Load(c, handler) ==
    /\ req[c] = None /\ opened < MaxRequests
    /\ opened' = opened + 1
    /\ req' = [req EXCEPT ![c] = handler]

Done(c) == req' = [req EXCEPT ![c] = None] /\ UNCHANGED opened

Running(c, op) == req[c] # None /\ req[c].op = op
-----------------------------------------------------------------------------
(* Jobs: no handler locks the job row. *)

EditJob(c, j, op, new) ==
    /\ Load(c, [op |-> "job", what |-> op, job |-> j, row |-> job[j], new |-> new])
    /\ UNCHANGED <<job, app, decisions, task, result, saving>>

\* A new version supersedes the current one; the first opens the job, and a paused job
\* stays paused.
publish_job(c, j) ==
    /\ job[j].status # "closed" /\ job[j].current < MaxVersions
    /\ EditJob(c, j, "publish",
               [status  |-> IF job[j].status = "draft" THEN "open" ELSE job[j].status,
                current |-> job[j].current + 1])

pause_job(c, j) ==
    /\ job[j].status = "open"
    /\ EditJob(c, j, "pause", [job[j] EXCEPT !.status = "paused"])

resume_job(c, j) ==
    /\ job[j].status = "paused"
    /\ EditJob(c, j, "resume", [job[j] EXCEPT !.status = "open"])

get_close_preview(j) == [can_close |-> in_flight_applications(j) = {},
                         items     |-> in_flight_applications(j)]

assert_job_can_close(j) == get_close_preview(j).can_close

close_job(c, j) ==
    /\ job[j].status \in {"open", "paused"}
    /\ assert_job_can_close(j)
    /\ EditJob(c, j, "close", [job[j] EXCEPT !.status = "closed"])

CommitJob(c) ==
    /\ Running(c, "job")
    /\ LET r == req[c] IN job' = [job EXCEPT ![r.job] = Flush(job[r.job], r.row, r.new)]
    /\ Done(c)
    /\ UNCHANGED <<app, decisions, task, result, saving>>
-----------------------------------------------------------------------------
(* Candidates. *)

\* One read and one insert: nothing the read decides can change what is inserted
\* but the version.  A job that was never published is applied for in its draft, which
\* version 1 will be.
create_job_candidate(a, j, started) ==
    /\ ~Live(a) /\ Cardinality({b \in Apps : Live(b)}) < MaxCandidates
    /\ LET i == IF job[j].current = 0 THEN 1 ELSE job[j].current IN
       app' = [app EXCEPT ![a] = create_application(j, i, started)]
    /\ UNCHANGED <<job, decisions, task, result, opened, req, saving>>

EditApp(c, a, handler) ==
    /\ Live(a) /\ app[a].status = "in_progress"
    /\ Load(c, handler)
    /\ UNCHANGED <<job, app, decisions, task, result, saving>>

resolve_close_application(c, a, action, target) ==
    /\ Live(a)
    /\ action = "transfer" <=> target # None
    /\ target # None => /\ target # app[a].job
                        /\ job[target].status = "open" /\ job[target].current # 0
    /\ EditApp(c, a, [op |-> "close", app |-> a, row |-> app[a], action |-> action,
                      target |-> target,
                      version |-> IF target = None THEN None ELSE job[target].current])

_mark_interview_pending_cancel(r) ==
    IF r.started THEN [r EXCEPT !.interview = "pending_cancel"] ELSE r

ClosingTarget == [transfer |-> "transferred", reject |-> "rejected", terminate |-> "terminated"]

Closed(r, action, target) ==
    _mark_interview_pending_cancel(
        [r EXCEPT !.status = ClosingTarget[action], !.moved_to = target])

\* The transferred application and its successor are one transaction.
CommitClose(c) ==
    /\ Running(c, "close")
    /\ LET r   == req[c]
           row == Flush(app[r.app], r.row, Closed(r.row, r.action, r.target)) IN
       \/ /\ r.action # "transfer"
          /\ app' = [app EXCEPT ![r.app] = row]
       \/ /\ r.action = "transfer"
          /\ \E b \in Apps :
                /\ ~Live(b)
                /\ app' = [app EXCEPT ![r.app] = row,
                                      ![b] = create_application(r.target, r.version, FALSE)]
    /\ Done(c)
    /\ UNCHANGED <<job, decisions, task, result, saving>>

\* The target is the published version, which is the current one.
migrate_application_version(c, a) ==
    /\ Live(a) /\ job[app[a].job].current \notin {0, app[a].version}
    /\ EditApp(c, a, [op |-> "migrate", app |-> a, row |-> app[a],
                      version |-> job[app[a].job].current])

Migrated(r, version) ==
    [r EXCEPT !.version   = version,
              !.interview = IF r.started THEN "pending_rebuild" ELSE r.interview]

StaleResult(r) == [r EXCEPT !.is_stale = TRUE]

mark_current_results_stale(a) ==
    result' = [t \in Tasks |-> IF t \in current_results(a) THEN StaleResult(result[t])
                               ELSE result[t]]

CommitMigrate(c) ==
    /\ Running(c, "migrate")
    /\ LET r == req[c] IN
       /\ app' = [app EXCEPT ![r.app] = Flush(app[r.app], r.row, Migrated(r.row, r.version))]
       /\ mark_current_results_stale(r.app)
    /\ Done(c)
    /\ UNCHANGED <<job, decisions, task, saving>>
-----------------------------------------------------------------------------
(* Screening: lock_version and status are compared with the loaded row. *)

ScreeningTarget_Decision == [enter_interview |-> "interviewing", hold |-> "hold",
                             reject |-> "rejected", talent_pool |-> "talent_pool"]

ScreeningTarget == [enter_interview |-> "interviewing", hold |-> "pending_hr_screen",
                    reject |-> "rejected", talent_pool |-> "talent_pool"]

\* `k` was used before: the earlier decision is returned.
create_screening_decision(c, a, what, k) ==
    /\ Live(a) /\ app[a].pipeline \notin {"rejected", "talent_pool", "pending_offer"}
    /\ k # None => find_by_idempotency("screening", a, k) = {}
    /\ EditApp(c, a, [op |-> "screen", app |-> a, row |-> app[a], what |-> what, key |-> k])

Screened_PipelineOnly(r, what) ==
    [r EXCEPT !.pipeline = ScreeningTarget[what], !.lock = r.lock + 1,
              !.started  = r.started \/ what = "enter_interview"]

Screened(r, what) ==
    [r EXCEPT !.pipeline = ScreeningTarget[what],
              !.lock     = r.lock + 1,
              !.started  = r.started \/ what = "enter_interview",
              !.status   = IF what = "reject" THEN "rejected"
                           ELSE IF what = "talent_pool" THEN "terminated" ELSE r.status]

\* The unique index uq_screening_decisions_idempotency.
UniqueDecision(kind, a, k) == k # None => find_by_idempotency(kind, a, k) = {}

Record(kind, a, what, at, k) ==
    /\ Len(decisions) < MaxDecisions
    /\ decisions' = Append(decisions, [app |-> a, kind |-> kind, what |-> what,
                                       at |-> at, key |-> k])

CommitScreening(c) ==
    /\ Running(c, "screen")
    /\ LET r == req[c] IN
       /\ UniqueDecision("screening", r.app, r.key)
       /\ Record("screening", r.app, r.what, r.row.lock, r.key)
       /\ app' = [app EXCEPT ![r.app] = Flush(app[r.app], r.row, Screened(r.row, r.what))]
    /\ Done(c)
    /\ UNCHANGED <<job, task, result, saving>>

\* The insert hits the unique index and the transaction is rolled back; a client may
\* also go away before its commit.
Abandon(c) ==
    /\ req[c] # None
    /\ Done(c)
    /\ UNCHANGED <<job, app, decisions, task, result, saving>>
-----------------------------------------------------------------------------
(* Hiring: SELECT ... FOR UPDATE, so the handler is one action. *)

HiringTarget == [recommend_hire |-> "pending_offer", reject |-> "rejected",
                 hold |-> "interviewing"]

Hired(r, what) ==
    [r EXCEPT !.pipeline = HiringTarget[what],
              !.lock     = r.lock + 1,
              !.status   = IF what = "reject" THEN "rejected" ELSE r.status]

CanHire_AnyStage(r) == r.status = "in_progress"

CanHire(r) == r.status = "in_progress" /\ r.pipeline = "interviewing"

create_hiring_decision(a, what, k) ==
    /\ Live(a) /\ CanHire(app[a])
    /\ UniqueDecision("hiring", a, k)
    /\ Record("hiring", a, what, app[a].lock, k)
    /\ app' = [app EXCEPT ![a] = Hired(app[a], what)]
    /\ UNCHANGED <<job, task, result, opened, req, saving>>
-----------------------------------------------------------------------------
(* Resume scores. *)

\* The task of the same key is returned; one in flight refuses the request.
create_resume_score_task(c, a, k) ==
    /\ Live(a)
    /\ job[app[a].job].status \in {"open", "paused"}
    /\ app[a].version = job[app[a].job].current     \* the others are superseded
    /\ k # None => ~\E t \in Tasks : task[t].app = a /\ task[t].key = k
    /\ find_inflight_task(a) = {}
    /\ EditApp(c, a, [op |-> "score", app |-> a, row |-> app[a], key |-> k])

\* The unique index uq_ai_tasks_idempotency.
CommitScoreTask(c) ==
    /\ Running(c, "score")
    /\ \E t \in Tasks :
          /\ task[t] = AbsentTask
          /\ LET r == req[c] IN
             /\ r.key # None => ~\E u \in Tasks : task[u].app = r.app /\ task[u].key = r.key
             /\ task' = [task EXCEPT ![t] = [app |-> r.app, version |-> r.row.version,
                                             key |-> r.key, status |-> "pending"]]
    /\ Done(c)
    /\ UNCHANGED <<job, app, decisions, result, saving>>

TaskStatus(r, status) == [r EXCEPT !.status = status]

MoveTask(t, from, to) ==
    /\ task[t].status = from
    /\ task' = [task EXCEPT ![t] = TaskStatus(task[t], to)]
    /\ UNCHANGED <<job, app, decisions, result, opened, req, saving>>

ClaimTask(t)      == MoveTask(t, "pending", "running")
cancel_ai_task(t) == MoveTask(t, "pending", "cancelled")
retry_ai_task(t)  == MoveTask(t, "failed", "pending")

\* The provider failed, or an administrator recovered a task whose worker is gone.
FailTask(t) ==
    /\ task[t].status = "running" /\ saving[t] \in {None, Lost}
    /\ task' = [task EXCEPT ![t] = TaskStatus(task[t], "failed")]
    /\ saving' = [saving EXCEPT ![t] = None]
    /\ UNCHANGED <<job, app, decisions, result, opened, req>>

\* persist_resume_score_result: the current rows are read and marked ...
mark_previous_results_not_current(t) ==
    /\ task[t].status = "running" /\ saving[t] = None
    /\ saving' = [saving EXCEPT ![t] = current_results(task[t].app)]
    /\ UNCHANGED <<job, app, decisions, task, result, opened, req>>

\* The partial unique index uq_ai_results_current.
OneCurrentRow_NoIndex(t) == TRUE

OneCurrentRow(t) == current_results(task[t].app) \subseteq saving[t]

NewResult(t) ==
    [label      |-> count_ai_results_for_application(task[t].app) + 1,
     version    |-> task[t].version,
     is_current |-> TRUE,
     is_stale   |-> FALSE]

PreviousResult(r) == [r EXCEPT !.is_current = FALSE]

\* ... and the new row is inserted and committed with its number and the marks.
CommitScore(t) ==
    /\ saving[t] \notin {None, Lost}
    /\ OneCurrentRow(t)
    /\ result' = [u \in Tasks |-> IF u = t THEN NewResult(t)
                                  ELSE IF u \in saving[t] THEN PreviousResult(result[u])
                                  ELSE result[u]]
    /\ task' = [task EXCEPT ![t] = TaskStatus(task[t], "succeeded")]
    /\ saving' = [saving EXCEPT ![t] = None]
    /\ UNCHANGED <<job, app, decisions, opened, req>>

\* The insert hits the index (or the worker dies): nothing is written, and the task
\* is running without a worker.
RollBackScore(t) ==
    /\ saving[t] \notin {None, Lost}
    /\ saving' = [saving EXCEPT ![t] = Lost]
    /\ UNCHANGED <<job, app, decisions, task, result, opened, req>>
\* Reading: the numbers of the report shown and of the history.
get_score_report(a) == {result[t].label : t \in current_results(a)}

get_score_history(a) == {result[t].label : t \in ResultsOf(a)}
-----------------------------------------------------------------------------
Init ==
    /\ job \in [Jobs -> {[status |-> "draft", current |-> 0], [status |-> "open", current |-> 1]}]
    /\ app = [a \in Apps |-> None]
    /\ decisions = <<>>
    /\ task = [t \in Tasks |-> AbsentTask]
    /\ result = [t \in Tasks |-> None]
    /\ opened = 0
    /\ req = [c \in Clients |-> None]
    /\ saving = [t \in Tasks |-> None]

JobStep(c) ==
    \/ \E j \in Jobs : publish_job(c, j) \/ pause_job(c, j) \/ resume_job(c, j) \/ close_job(c, j)
    \/ CommitJob(c)

ApplicationStep(c) ==
    \/ \E a \in Apps :
          \/ \E action \in Closing, j \in Jobs \cup {None} :
                resolve_close_application(c, a, action, j)
          \/ migrate_application_version(c, a)
          \/ \E what \in Screening, k \in Keys \cup {None} :
                create_screening_decision(c, a, what, k)
          \/ \E k \in Keys \cup {None} : create_resume_score_task(c, a, k)
    \/ CommitClose(c) \/ CommitMigrate(c) \/ CommitScreening(c) \/ CommitScoreTask(c)
    \/ Abandon(c)

TaskStep(t) ==
    \/ ClaimTask(t) \/ cancel_ai_task(t) \/ retry_ai_task(t) \/ FailTask(t)
    \/ mark_previous_results_not_current(t) \/ CommitScore(t) \/ RollBackScore(t)

Next ==
    \/ \E c \in Clients : JobStep(c) \/ ApplicationStep(c)
    \/ \E a \in Apps, j \in Jobs, started \in BOOLEAN : create_job_candidate(a, j, started)
    \/ \E a \in Apps, what \in Hiring, k \in Keys \cup {None} : create_hiring_decision(a, what, k)
    \/ \E t \in Tasks : TaskStep(t)

Spec == Init /\ [][Next]_vars
-----------------------------------------------------------------------------
TypeOK ==
    /\ job \in [Jobs -> JobRow]
    /\ app \in [Apps -> AppRow \cup {None}]
    /\ decisions \in Seq(Decision)
    /\ task \in [Tasks -> TaskRow]
    /\ result \in [Tasks -> ResultRow \cup {None}]
    /\ req \in [Clients -> Handler \cup {None}]
    /\ opened \in 0..MaxRequests
    /\ saving \in [Tasks -> {None, Lost} \cup SUBSET Tasks]

\* The score reports of an application are numbered M1, M2, ... without a gap or a
\* repetition, and the report shown as current is the last one, although the numbers
\* are counted and the earlier rows marked without a lock (persist_resume_score_result).
ScoreHistory ==
    \A a \in Apps : LET n == count_ai_results_for_application(a) IN
        /\ get_score_history(a) = 1..n
        /\ get_score_report(a) = IF n = 0 THEN {} ELSE {n}

\* A hiring decision is taken only about a candidate that screening has sent to the
\* interviews, whatever screening, migration or closing commits from an older row.
HireAfterInterview ==
    \A i \in 1..Len(decisions) : decisions[i].kind = "hiring" =>
        \E k \in 1..(i - 1) : /\ decisions[k].app = decisions[i].app
                              /\ decisions[k].what = "enter_interview"

\* A candidate whose pipeline ended in rejection or the talent pool has a closed
\* application, also when handlers that read the open row commit afterwards.
EndedIsClosed ==
    \A a \in Apps : Live(a) /\ app[a].pipeline \in {"rejected", "talent_pool"}
                        => app[a].status # "in_progress"

\* A closed application is never reopened: a request that loaded the row before it was
\* closed writes only the columns it changed.
ClosedForGood ==
    [][\A a \in Apps : Live(a) /\ app[a].status # "in_progress"
                          => app'[a] # None /\ app'[a].status # "in_progress"]_vars

\* Two decisions about one application are never both accepted for the same
\* lock_version: the second request gets 409 (docs/stage-6-acceptance.md).
OneDecisionPerLock ==
    \A i, k \in 1..Len(decisions) :
        decisions[i].app = decisions[k].app /\ decisions[i].at = decisions[k].at => i = k
=============================================================================
