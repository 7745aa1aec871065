------------------------------ MODULE Resumes -------------------------------
(***************************************************************************)
(* Resumes from the upload to the application they are screened with       *)
(* (backend/app/services/resumes.py), composed with the jobs they are for  *)
(* (Jobs), with all that creates an application or rewrites what it is     *)
(* bound to (candidates.py), and with the workers that parse resumes       *)
(* (workers/ai_tasks.py).                                                  *)
(*                                                                         *)
(* No handler locks a row.  A request, and the worker that applies what a  *)
(* task returned, load the rows and commit later; a worker that ends has   *)
(* the lock of its task from its load to its commit.                       *)
(*                                                                         *)
(* Left out: texts, names, contacts and duplicate hints; several files in  *)
(* one upload (one after the other); attempts and messages of a task       *)
(* (AiTasks) - a message that never arrives, as when an upload enqueues    *)
(* before it commits, is a task no worker claims; lock_version, scores and *)
(* hiring decisions (Applications), which bind an application to nothing.  *)
(***************************************************************************)
EXTENDS Jobs

CONSTANTS
    MaxCandidates,   \* bound: rows of candidates
    MaxResumes,      \* bound: rows of resumes, one per uploaded file
    MaxResumeRows,   \* bound: rows of resume_versions
    MaxTasks,        \* bound: RESUME_PARSE rows of ai_tasks
    MaxWorkers,      \* bound: workers that run one task, late ones included
    MaxApps          \* bound: rows of job_applications

ASSUME ResumesAssumption ==
    {MaxCandidates, MaxResumes, MaxResumeRows, MaxTasks, MaxWorkers, MaxApps} \subseteq Nat

VARIABLES
    candidates,   \* number of rows of candidates
    resume,       \* resumes
    rv,           \* resume_versions
    task,         \* RESUME_PARSE rows of ai_tasks
    busy,         \* task: number of workers that claimed it and have not ended
    saving        \* task: None, or the version a worker loaded that is about to end

taskVars   == <<task, busy, saving>>
resumeVars == <<candidates, resume, rv, taskVars>>
vars == <<jobVars, resumeVars>>

\* Rows are numbered in the order of their commits; 0 is SQL NULL.
Resume == [candidate : 1..MaxCandidates, confirmed : 0..MaxResumeRows]

ResumeVersion ==
    [resume : 1..MaxResumes, kind : {"file", "confirmed"}, label : Nat \ {0},
     status : {"parsing", "parse_failed", "pending_review", "confirmed"},
     source : 0..MaxResumeRows, task : 0..MaxTasks, draft : {"seed", "hr", "ai"}]

\* "unreported": failed without _after_task_failure (persist_failed, or recovered).
TaskRow ==
    [version : 1..MaxResumeRows,
     status : {"pending", "running", "succeeded", "failed", "unreported", "cancelled"}]

\* "interviewing" stands for what follows it too, "rejected" for the talent pool.
Pipelines == {"pending_parse", "pending_hr_screen", "interviewing", "rejected"}

\* early: a screening decision was taken from pending_parse (its from_pipeline_status).
Application ==
    [candidate : 1..MaxCandidates, job : Jobs, version : 1..MaxVersions,
     resume_version : 0..MaxResumeRows, open : BOOLEAN, pipeline : Pipelines, early : BOOLEAN]

Rows(table) == 1..Len(table)

\* What the requests on resumes hold (see upload_resumes and the Load of each).
Handler ==
    JobHandler
    \cup [op : {"upload"}, candidate : 0..MaxCandidates, job : Jobs \cup {None},
          extracted : BOOLEAN, version : 0..MaxVersions]
    \cup [op : {"draft", "reparse"}, version : 1..MaxResumeRows, row : ResumeVersion]
    \cup [op : {"confirm"}, version : 1..MaxResumeRows, row : ResumeVersion,
          link : 0..MaxCandidates, waiting : SUBSET (1..MaxApps), label : Nat \ {0}]
    \cup [op : {"apply"}, candidate : 1..MaxCandidates, job : Jobs, version : 1..MaxVersions,
          resume_version : 1..MaxResumeRows]
    \cup [op : {"candidate"}, job : Jobs, version : 1..MaxVersions]
    \cup [op : {"close"}, app : 1..MaxApps, target : Jobs \cup {None}, version : 0..MaxVersions]
    \cup [op : {"migrate"}, app : 1..MaxApps, version : 1..MaxVersions]
    \cup [op : {"screen"}, app : 1..MaxApps, from : Pipelines, to : Pipelines]

create_application(p, j, i, v, pipeline) ==
    [candidate |-> p, job |-> j, version |-> i, resume_version |-> v, open |-> TRUE,
     pipeline |-> pipeline, early |-> FALSE]

NewTask(v) == [version |-> v, status |-> "pending"]
-----------------------------------------------------------------------------
(* Upload: a new resume of a new or a linked candidate, with one file version. *)

count_confirmed_versions(r) ==
    Cardinality({v \in Rows(rv) : rv[v].resume = r /\ rv[v].kind = "confirmed"})

find_open_application(p, j) ==
    {a \in Rows(app) : app[a].candidate = p /\ app[a].job = j /\ app[a].open}

\* Jobs that take resumes: open or paused, with a published current version.
Accepts(j) ==
    /\ Live(j)
    /\ job[j].status \in {"open", "paused"}
    /\ job[j].current # 0 /\ version[j][job[j].current].status = "published"

\* `p` is 0 for a new candidate, `j` is None for an upload without a job.
upload_resumes(c, p, j, extracted) ==
    /\ p <= candidates
    /\ j # None => Accepts(j)
    /\ Load(c, [op |-> "upload", candidate |-> p, job |-> j, extracted |-> extracted,
                version |-> IF j = None THEN 0 ELSE job[j].current])
    /\ UNCHANGED <<job, version, app, resumeVars>>

FileVersion(r, t) ==
    [resume |-> r, kind |-> "file", label |-> 1, source |-> 0, task |-> t, draft |-> "seed",
     status |-> IF t = 0 THEN "parse_failed" ELSE "parsing"]

_upload_one(c) ==
    /\ Running(c, "upload")
    /\ LET u == req[c]
           p == IF u.candidate = 0 THEN candidates + 1 ELSE u.candidate
           r == Len(resume) + 1
           v == Len(rv) + 1
           t == IF u.extracted THEN Len(task) + 1 ELSE 0 IN
       /\ p <= MaxCandidates /\ r <= MaxResumes /\ v <= MaxResumeRows /\ t <= MaxTasks
       /\ candidates' = IF p > candidates THEN p ELSE candidates
       /\ resume' = Append(resume, [candidate |-> p, confirmed |-> 0])
       /\ rv' = Append(rv, FileVersion(r, t))
       /\ task' = IF t = 0 THEN task ELSE Append(task, NewTask(v))
       /\ \/ u.job = None /\ UNCHANGED app
          \/ /\ u.job # None /\ Live(u.job)      \* the foreign key
             /\ Len(app) < MaxApps
             /\ app' = Append(app, create_application(p, u.job, u.version, v, "pending_parse"))
    /\ Done(c)
    /\ UNCHANGED <<job, version, busy, saving>>
-----------------------------------------------------------------------------
(* Review. *)

LoadVersion(c, op, v) ==
    /\ Load(c, [op |-> op, version |-> v, row |-> rv[v]])
    /\ UNCHANGED <<job, version, app, resumeVars>>

save_draft(c, v) ==
    /\ rv[v].status # "confirmed"
    /\ LoadVersion(c, "draft", v)

CommitDraft(c) ==
    /\ Running(c, "draft")
    /\ LET d == req[c] IN
       rv' = [rv EXCEPT ![d.version] = Flush(rv[d.version], d.row, [d.row EXCEPT !.draft = "hr"])]
    /\ Done(c)
    /\ UNCHANGED <<job, version, app, candidates, resume, taskVars>>

Waiting(p) ==
    {a \in Rows(app) : app[a].candidate = p /\ app[a].pipeline = "pending_parse" /\ app[a].open}

\* Any version may be confirmed, whatever its status; `link` is 0, or the candidate
\* to whom HR moves the resume.
confirm_resume_version(c, v, link) ==
    LET r == rv[v].resume
        p == IF link = 0 THEN resume[r].candidate ELSE link IN
    /\ link # 0 => link <= candidates /\ link # resume[r].candidate
    /\ Load(c, [op |-> "confirm", version |-> v, row |-> rv[v], link |-> link,
                waiting |-> Waiting(p), label |-> count_confirmed_versions(r) + 1])
    /\ UNCHANGED <<job, version, app, resumeVars>>

ConfirmedVersion(v, row, label) ==
    [row EXCEPT !.kind   = "confirmed", !.label = label, !.status = "confirmed", !.task = 0,
                !.draft  = "hr",
                !.source = IF row.kind = "file" \/ row.source = 0 THEN v ELSE row.source]

\* The version that was sent is confirmed too when it is a file.
Reviewed(row) == IF row.kind = "file" THEN [row EXCEPT !.status = "confirmed"] ELSE row

Confirmed(row, n, link) ==
    [row EXCEPT !.confirmed = n, !.candidate = IF link = 0 THEN row.candidate ELSE link]

Screenable(a, n) == [a EXCEPT !.resume_version = n, !.pipeline = "pending_hr_screen"]

CommitConfirm(c) ==
    /\ Running(c, "confirm")
    /\ LET q == req[c]
           r == q.row.resume
           n == Len(rv) + 1 IN
       /\ n <= MaxResumeRows
       /\ rv' = Append([rv EXCEPT ![q.version] = Flush(rv[q.version], q.row, Reviewed(q.row))],
                       ConfirmedVersion(q.version, q.row, q.label))
       /\ resume' = [resume EXCEPT ![r] = Confirmed(resume[r], n, q.link)]
       /\ app' = [a \in Rows(app) |->
                     IF a \in q.waiting THEN Screenable(app[a], n) ELSE app[a]]
    /\ Done(c)
    /\ UNCHANGED <<job, version, candidates, taskVars>>

retry_resume_parse_manual_text(c, v) == LoadVersion(c, "reparse", v)

Reparsed_SameTask(row, t) == [row EXCEPT !.status = "parsing", !.draft = "hr"]

Reparsed(row, t) == [row EXCEPT !.status = "parsing", !.task = t, !.draft = "hr"]

CommitReparse(c) ==
    /\ Running(c, "reparse")
    /\ Len(task) < MaxTasks
    /\ LET q == req[c]
           t == Len(task) + 1 IN
       /\ task' = Append(task, NewTask(q.version))
       /\ rv' = [rv EXCEPT ![q.version] = Flush(rv[q.version], q.row, Reparsed(q.row, t))]
    /\ Done(c)
    /\ UNCHANGED <<job, version, app, candidates, resume, busy, saving>>
-----------------------------------------------------------------------------
(* An application for a candidate who is known already. *)

\* An open application is returned as it is.  Without a version in the request the
\* current confirmed one of the candidate's resume is taken.
Applicable_AnyStatus(v) == TRUE

Applicable(v) == rv[v].status = "confirmed"

create_application_for_resume(c, p, j, v) ==
    /\ Accepts(j)
    /\ find_open_application(p, j) = {}
    /\ Applicable(v)
    /\ Load(c, [op |-> "apply", candidate |-> p, job |-> j, version |-> job[j].current,
                resume_version |-> v])
    /\ UNCHANGED <<job, version, app, resumeVars>>

CommitApplication(c) ==
    /\ Running(c, "apply")
    /\ Len(app) < MaxApps
    /\ LET q == req[c] IN
       /\ Live(q.job)
       /\ app' = Append(app, create_application(q.candidate, q.job, q.version,
                                                 q.resume_version, "pending_hr_screen"))
    /\ Done(c)
    /\ UNCHANGED <<job, version, resumeVars>>
-----------------------------------------------------------------------------
(* Applications that HR creates, moves and decides on without a resume       *)
(* (candidates.py), and their screening (resumes.py).                        *)

\* A job that was never published is applied for in its draft.
create_job_candidate(c, j) ==
    /\ Live(j)
    /\ LET i == IF job[j].current # 0 THEN job[j].current ELSE job[j].draft IN
       /\ i # 0
       /\ Load(c, [op |-> "candidate", job |-> j, version |-> i])
    /\ UNCHANGED <<job, version, app, resumeVars>>

CommitCandidate(c) ==
    /\ Running(c, "candidate")
    /\ Len(app) < MaxApps /\ candidates < MaxCandidates
    /\ LET q == req[c] IN
       /\ Live(q.job)                            \* the foreign key
       /\ app' = Append(app, create_application(candidates + 1, q.job, q.version, 0,
                                                 "pending_hr_screen"))
    /\ candidates' = candidates + 1
    /\ Done(c)
    /\ UNCHANGED <<job, version, resume, rv, taskVars>>

\* `target` is the job of a transfer, or None when the application is rejected or
\* terminated.
resolve_close_application(c, a, target) ==
    /\ app[a].open
    /\ target # None => /\ target # app[a].job /\ Live(target)
                        /\ job[target].status = "open" /\ job[target].current # 0
    /\ Load(c, [op |-> "close", app |-> a, target |-> target,
                version |-> IF target = None THEN 0 ELSE job[target].current])
    /\ UNCHANGED <<job, version, app, resumeVars>>

Closed(a) == [a EXCEPT !.open = FALSE]

CommitClose(c) ==
    /\ Running(c, "close")
    /\ LET q    == req[c]
           rows == [app EXCEPT ![q.app] = Closed(app[q.app])] IN
       \/ q.target = None /\ app' = rows
       \/ /\ q.target # None /\ Live(q.target)
          /\ Len(app) < MaxApps
          /\ app' = Append(rows, create_application(app[q.app].candidate, q.target, q.version, 0,
                                                    "pending_hr_screen"))
    /\ Done(c)
    /\ UNCHANGED <<job, version, resumeVars>>

migrate_application_version(c, a, i) ==
    /\ app[a].open
    /\ LET j == app[a].job IN
       /\ i \in 1..Len(version[j]) /\ i # app[a].version
       /\ version[j][i].status = "published" \/ i = job[j].current
    /\ Load(c, [op |-> "migrate", app |-> a, version |-> i])
    /\ UNCHANGED <<job, version, app, resumeVars>>

CommitMigrate(c) ==
    /\ Running(c, "migrate")
    /\ LET q == req[c] IN app' = [app EXCEPT ![q.app] = [app[q.app] EXCEPT !.version = q.version]]
    /\ Done(c)
    /\ UNCHANGED <<job, version, resumeVars>>

\* An application that waits for its parse may be screened like any other.
create_screening_decision(c, a, to) ==
    /\ app[a].open /\ app[a].pipeline # "rejected"
    /\ to # "pending_parse"
    /\ Load(c, [op |-> "screen", app |-> a, from |-> app[a].pipeline, to |-> to])
    /\ UNCHANGED <<job, version, app, resumeVars>>

\* The columns the session changed, and the row of screening_decisions.
Screened(a, from, to) ==
    [a EXCEPT !.pipeline = IF to = from THEN a.pipeline ELSE to,
              !.open     = a.open /\ to # "rejected",
              !.early    = a.early \/ from = "pending_parse"]

CommitScreening(c) ==
    /\ Running(c, "screen")
    /\ LET q == req[c] IN app' = [app EXCEPT ![q.app] = Screened(app[q.app], q.from, q.to)]
    /\ Done(c)
    /\ UNCHANGED <<job, version, resumeVars>>
-----------------------------------------------------------------------------
(* Parse tasks. *)

TaskMoved(t, status) == [task EXCEPT ![t] = [version |-> task[t].version, status |-> status]]

\* saving[t] = None: nobody has the lock of the task.
MoveTask(t, from, to) ==
    /\ task[t].status = from /\ saving[t] = None
    /\ task' = TaskMoved(t, to)
    /\ UNCHANGED <<jobVars, candidates, resume, rv, saving>>

ClaimTask(t) ==
    /\ MoveTask(t, "pending", "running")
    /\ busy[t] < MaxWorkers
    /\ busy' = [busy EXCEPT ![t] = busy[t] + 1]

cancel_ai_task(t) == MoveTask(t, "pending", "cancelled") /\ UNCHANGED busy

\* Its worker may be alive.
mark_stale_failed_ai_task(t) == MoveTask(t, "running", "unreported") /\ UNCHANGED busy

retry_ai_task(t) ==
    /\ \E failed \in {"failed", "unreported"} : MoveTask(t, failed, "pending")
    /\ UNCHANGED busy

\* Whether the task is still running a worker reads from its session's copy, where it
\* always is: what it ends with is written over whatever the task has become.
EndWorker(t, status) ==
    /\ busy[t] > 0
    /\ task' = TaskMoved(t, status)
    /\ busy' = [busy EXCEPT ![t] = busy[t] - 1]
    /\ saving' = [saving EXCEPT ![t] = None]
    /\ UNCHANGED <<jobVars, candidates, resume>>

AutoRetry(t) == saving[t] = None /\ EndWorker(t, "pending") /\ UNCHANGED rv

\* persist_failed, or the worker died and its task was recovered: what had been written
\* is rolled back.  A late worker that dies is one that never ends.
LoseTask(t) == EndWorker(t, "unreported") /\ UNCHANGED rv

\* A worker loads the version, and commits it with its task.
ApplyTask(t) ==
    /\ busy[t] > 0 /\ saving[t] = None
    /\ saving' = [saving EXCEPT ![t] = rv[task[t].version]]
    /\ UNCHANGED <<jobVars, candidates, resume, rv, task, busy>>

Apply(t, status, row) ==
    /\ saving[t] # None
    /\ rv' = [rv EXCEPT ![task[t].version] = Flush(rv[task[t].version], saving[t], row)]
    /\ EndWorker(t, status)

\* _manual_edited is written nowhere: the draft is always replaced.
apply_resume_parse_success(t) ==
    Apply(t, "succeeded", [saving[t] EXCEPT !.status = "pending_review", !.draft = "ai"])

ParseFailed(row) == IF row.status = "parsing" THEN [row EXCEPT !.status = "parse_failed"] ELSE row

apply_resume_parse_failure(t) == Apply(t, "failed", ParseFailed(saving[t]))
-----------------------------------------------------------------------------
Init ==
    /\ JobInit
    /\ candidates = 0
    /\ resume = <<>>
    /\ rv = <<>>
    /\ task = <<>>
    /\ busy = [t \in 1..MaxTasks |-> 0]
    /\ saving = [t \in 1..MaxTasks |-> None]

\* A client has one request open at a time, as Load says of each.
ResumeRequest(c) ==
    /\ req[c] = None /\ opened < MaxRequests
    /\ \/ \E p \in 0..MaxCandidates, j \in {None} \cup Jobs, extracted \in BOOLEAN :
             upload_resumes(c, p, j, extracted)
       \/ \E v \in Rows(rv) :
             \/ save_draft(c, v)
             \/ \E link \in 0..MaxCandidates : confirm_resume_version(c, v, link)
             \/ retry_resume_parse_manual_text(c, v)
             \/ \E p \in 1..candidates, j \in Jobs : create_application_for_resume(c, p, j, v)

CandidateRequest(c) ==
    /\ req[c] = None /\ opened < MaxRequests
    /\ \/ \E j \in Jobs : create_job_candidate(c, j)
       \/ \E a \in Rows(app) :
             \/ \E target \in Jobs \cup {None} : resolve_close_application(c, a, target)
             \/ \E i \in 1..MaxVersions : migrate_application_version(c, a, i)
             \/ \E to \in Pipelines : create_screening_decision(c, a, to)

ResumeCommit(c) ==
    \/ _upload_one(c) \/ CommitDraft(c) \/ CommitConfirm(c)
    \/ CommitReparse(c) \/ CommitApplication(c)

CandidateCommit(c) ==
    CommitCandidate(c) \/ CommitClose(c) \/ CommitMigrate(c) \/ CommitScreening(c)

TaskStep(t) ==
    \/ ClaimTask(t) \/ AutoRetry(t) \/ LoseTask(t) \/ mark_stale_failed_ai_task(t)
    \/ cancel_ai_task(t) \/ retry_ai_task(t)
    \/ ApplyTask(t) \/ apply_resume_parse_success(t) \/ apply_resume_parse_failure(t)

Next ==
    \/ JobStep /\ UNCHANGED resumeVars
    \/ \E c \in Clients : \/ ResumeRequest(c) \/ ResumeCommit(c)
                          \/ CandidateRequest(c) \/ CandidateCommit(c)
                          \/ Abandon(c) /\ UNCHANGED resumeVars
    \/ \E t \in Rows(task) : TaskStep(t)

Spec == Init /\ [][Next]_vars
-----------------------------------------------------------------------------
(* Every row is well formed and refers to rows that exist (models/job.py,    *)
(* models/resume.py, models/candidate.py).                                   *)
TypeOK ==
    /\ JobTypeOK
    /\ req \in [Clients -> Handler \cup {None}]
    /\ candidates \in 0..MaxCandidates
    /\ resume \in Seq(Resume) /\ Len(resume) <= MaxResumes
    /\ rv \in Seq(ResumeVersion) /\ Len(rv) <= MaxResumeRows
    /\ task \in Seq(TaskRow) /\ Len(task) <= MaxTasks
    /\ app \in Seq(Application) /\ Len(app) <= MaxApps
    /\ busy \in [1..MaxTasks -> 0..MaxWorkers]
    /\ saving \in [1..MaxTasks -> ResumeVersion \cup {None}]
    /\ \A r \in Rows(resume) : resume[r].candidate <= candidates
    /\ \A v \in Rows(rv) : rv[v].resume \in Rows(resume)
    /\ \A t \in Rows(task) : task[t].version \in Rows(rv)
    /\ \A a \in Rows(app) : app[a].candidate <= candidates

(* What an application is bound to was released, however uploads,            *)
(* confirmations, publications, removals, transfers, migrations, screenings  *)
(* and parse workers overlap.  Its job and job version exist; the version is *)
(* a draft only as long as its job was never published (create_job_candidate *)
(* on a new job), and the application then has no resume.  Its resume        *)
(* version, if it has one, was confirmed by HR - it is the confirmed copy,   *)
(* or the file some copy was made of - or it is the uploaded file of an      *)
(* application that waits for its parse, or that HR screened while it did    *)
(* (create_screening_decision does not refuse that).                         *)
WasConfirmed(v) ==
    \/ rv[v].kind = "confirmed"
    \/ \E w \in Rows(rv) : rv[w].kind = "confirmed" /\ rv[w].source = v

BoundToReleased ==
    \A a \in Rows(app) : LET j == app[a].job  v == app[a].resume_version IN
        /\ Live(j) /\ app[a].version \in DOMAIN version[j]
        /\ version[j][app[a].version].status = "draft" => job[j].status = "draft" /\ v = 0
        /\ \/ v = 0
           \/ WasConfirmed(v)
           \/ rv[v].kind = "file" /\ (app[a].pipeline = "pending_parse" \/ app[a].early)

(* A version that says it is being parsed waits for a task: the one it       *)
(* points at has neither succeeded nor reported a failure, although retries  *)
(* replace the task while older ones still come back.  Tasks that were       *)
(* cancelled, recovered or failed while persisting do leave it waiting       *)
(* (apply_resume_parse_success, apply_resume_parse_failure).                 *)
ParsingAwaitsTask ==
    \A v \in Rows(rv) :
        rv[v].status = "parsing" =>
            /\ rv[v].task # 0
            /\ task[rv[v].task].version = v
            /\ task[rv[v].task].status \notin {"succeeded", "failed"}
=============================================================================
