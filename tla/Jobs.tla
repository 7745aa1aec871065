-------------------------------- MODULE Jobs --------------------------------
(***************************************************************************)
(* Jobs and their versions (backend/app/services/jobs.py, repositories/    *)
(* jobs.py): a draft is edited and published, a published version is       *)
(* superseded by the next one, and the job is paused, resumed, closed,     *)
(* copied or removed.  Resumes composes it with the resumes that apply.    *)
(*                                                                         *)
(* No handler locks the job row: it decides on the rows it loaded, and its *)
(* commit writes the columns it changed, so it is two actions, and `req`   *)
(* keeps what it loaded.  A request that is refused changes nothing and is *)
(* no action.                                                              *)
(*                                                                         *)
(* A definition whose name ends in _Suffix is a faulty variant of a later  *)
(* one: some property of Resumes tells the two apart.                      *)
(*                                                                         *)
(* Left out: a job's basic fields and their snapshot (name, department,    *)
(* headcount), its code, reasons and audit rows.  The description and the  *)
(* score dimensions of a version are one `content`; Blank is one that      *)
(* cannot be published.                                                    *)
(***************************************************************************)
EXTENDS Integers, Sequences, FiniteSets, TLC

CONSTANTS
    Jobs,          \* rows that may be created in jobs
    Clients,       \* HR requests that may be open at one time
    Contents,      \* publishable contents of a version
    Blank,         \* content that validate_publish_payload refuses
    None,          \* no row yet, or no request
    Deleted,       \* a row that was deleted
    MaxVersions,   \* bound: versions of a job
    MaxRequests    \* bound: requests that load rows and commit later

ASSUME JobsAssumption   == Blank \notin Contents /\ None # Deleted /\ {None, Deleted} \cap Jobs = {}
ASSUME BoundsAssumption == MaxVersions \in Nat \ {0} /\ MaxRequests \in Nat

VARIABLES
    job,        \* jobs
    version,    \* job_versions of each job, in the order of their commits
    app,        \* job_applications, in the order of their commits (see Resumes)
    opened,     \* number of requests opened so far (for the bound only)
    req         \* client: None, or the handler it runs and what that loaded

jobVars == <<job, version, app, opened, req>>

\* 0 is SQL NULL in current and draft.
JobRow == [status : {"draft", "open", "paused", "closed"}, current : 0..MaxVersions,
           draft : 0..MaxVersions]

JobVersion == [status : {"draft", "published", "superseded"}, major : Nat, minor : Nat,
               content : Contents \cup {Blank}, base : 0..MaxVersions]

\* What a request that edits a job, or removes it, holds (see Edit, remove_job).
JobHandler ==
    [op : {"job"}, job : Jobs, row : JobRow, new : JobRow, versions : Seq(JobVersion),
     edited : Seq(JobVersion), added : JobVersion \cup {None}]
    \cup [op : {"remove"}, job : Jobs]

ASSUME NoneIsNoRow == None \notin JobRow /\ Deleted \notin JobRow

Live(j) == job[j] \notin {None, Deleted}

JobTypeOK ==
    /\ job \in [Jobs -> JobRow \cup {None, Deleted}]
    /\ version \in [Jobs -> Seq(JobVersion)]
    /\ \A j \in Jobs : Len(version[j]) <= IF Live(j) THEN MaxVersions ELSE 0
    /\ opened \in 0..MaxRequests

\* A session writes the columns of a row that differ from what it loaded.
Flush(db, loaded, new) ==
    [f \in DOMAIN db |-> IF new[f] = loaded[f] THEN db[f] ELSE new[f]]

Load(c, handler) ==
    /\ req[c] = None /\ opened < MaxRequests
    /\ opened' = opened + 1
    /\ req' = [req EXCEPT ![c] = handler]

Done(c) == req' = [req EXCEPT ![c] = None] /\ UNCHANGED opened

Running(c, op) == req[c] # None /\ req[c].op = op

\* `edited` are the versions the session loaded, with its changes; `added` is the row
\* of the draft that is inserted, if any.
Edit(c, j, new, edited, added) ==
    /\ Load(c, [op |-> "job", job |-> j, row |-> job[j], new |-> new,
                versions |-> version[j], edited |-> edited, added |-> added])
    /\ UNCHANGED <<job, version, app>>

FlushVersions_WholeRows(rows, loaded, edited) ==
    [i \in 1..Len(rows) |-> IF i <= Len(loaded) THEN edited[i] ELSE rows[i]]

FlushVersions(rows, loaded, edited) ==
    [i \in 1..Len(rows) |-> IF i <= Len(loaded) THEN Flush(rows[i], loaded[i], edited[i])
                                               ELSE rows[i]]

\* A row that is gone refuses the UPDATE (StaleDataError): see Abandon.
CommitEdit(c) ==
    /\ Running(c, "job")
    /\ LET e    == req[c]
           rows == FlushVersions(version[e.job], e.versions, e.edited)
           new  == Len(version[e.job]) + 1 IN
       /\ Live(e.job)
       /\ \/ /\ e.added = None
             /\ version' = [version EXCEPT ![e.job] = rows]
             /\ job' = [job EXCEPT ![e.job] = Flush(job[e.job], e.row, e.new)]
          \/ /\ e.added # None /\ new <= MaxVersions
             /\ version' = [version EXCEPT ![e.job] = Append(rows, e.added)]
             /\ job' = [job EXCEPT ![e.job] =
                           Flush(job[e.job], e.row, [e.new EXCEPT !.draft = new])]
    /\ Done(c)
    /\ UNCHANGED app

\* A constraint or a vanished row rolls the transaction back, or the client goes away.
Abandon(c) ==
    /\ req[c] # None
    /\ Done(c)
    /\ UNCHANGED <<job, version, app>>
-----------------------------------------------------------------------------
(* New jobs. *)

create_draft_version(content, base) ==
    [status |-> "draft", major |-> 0, minor |-> 0, content |-> content, base |-> base]

create_job_with_draft(j, content) ==
    /\ job[j] = None
    /\ job' = [job EXCEPT ![j] = [status |-> "draft", current |-> 0, draft |-> 1]]
    /\ version' = [version EXCEPT ![j] = <<create_draft_version(content, 0)>>]
    /\ UNCHANGED <<app, opened, req>>

create_job(j, content) == create_job_with_draft(j, content)

copy_job(j, source) ==
    /\ Live(source)
    /\ LET row == job[source]
           i   == IF row.current # 0 THEN row.current ELSE row.draft IN
       i # 0 /\ create_job_with_draft(j, version[source][i].content)

remove_job(c, j) ==
    /\ Live(j) /\ job[j].status = "draft"
    /\ Load(c, [op |-> "remove", job |-> j])
    /\ UNCHANGED <<job, version, app>>

\* The versions go with their job; job_applications.job_version_id is ON DELETE RESTRICT.
delete_versions_NoCascade(j) == version

delete_versions(j) == [version EXCEPT ![j] = <<>>]

CommitRemove(c) ==
    /\ Running(c, "remove")
    /\ LET j == req[c].job IN
       /\ Live(j)
       /\ \A a \in 1..Len(app) : app[a].job # j
       /\ job' = [job EXCEPT ![j] = Deleted]
       /\ version' = delete_versions(j)
    /\ Done(c)
    /\ UNCHANGED app
-----------------------------------------------------------------------------
(* Drafts.  A published job has none until someone edits it: then it is a    *)
(* copy of some base version, inserted by the same transaction.              *)

Draft(j) == version[j][job[j].draft]

ReviseDraft(c, j, revised) ==
    /\ job[j].draft # 0
    /\ Edit(c, j, job[j], [version[j] EXCEPT ![job[j].draft] = revised], None)

AddDraft(c, j, added) ==
    /\ job[j].draft = 0 /\ added.base # 0
    /\ Edit(c, j, job[j], version[j], added)

WriteDraft(c, j, content) ==
    \/ ReviseDraft(c, j, [Draft(j) EXCEPT !.content = content])
    \/ AddDraft(c, j, create_draft_version(content, job[j].current))

save_job_draft(c, j, content) ==
    /\ Live(j) /\ job[j].status # "closed"
    /\ WriteDraft(c, j, content)

copy_version_to_draft(c, j, i) ==
    /\ Live(j) /\ job[j].status \in {"open", "paused"}
    /\ i <= Len(version[j]) /\ version[j][i].status # "draft"
    /\ LET source == version[j][i] IN
       \/ ReviseDraft(c, j, [Draft(j) EXCEPT !.content = source.content, !.base = i])
       \/ AddDraft(c, j, create_draft_version(source.content, i))

\* An AI task on the description or the dimensions needs a draft to work on; on a
\* job that has one it changes nothing here (the task itself: AiTasks).
_ensure_job_draft(c, j) ==
    /\ Live(j) /\ job[j].status # "closed"
    /\ job[j].current # 0
    /\ LET base == job[j].current IN
       AddDraft(c, j, create_draft_version(version[j][base].content, base))

\* The result of a task that ran on an earlier draft, or on another description, is
\* written to the draft there is now.
apply_ai_task_result(c, j, result) ==
    /\ Live(j) /\ job[j].status # "closed"
    /\ WriteDraft(c, j, result)
-----------------------------------------------------------------------------
(* Publishing, and the status of the job. *)

decide_version_bump(current, draft, major) ==
    IF major \/ current.content # draft.content
    THEN [draft EXCEPT !.major = current.major + 1, !.minor = 0]
    ELSE [draft EXCEPT !.major = current.major, !.minor = current.minor + 1]

validate_publish_payload(draft) == draft.content # Blank

Published(v)  == [v EXCEPT !.status = "published"]
Superseded(v) == [v EXCEPT !.status = "superseded"]

\* A paused job stays paused.
Release(row, status) == [row EXCEPT !.status = status, !.current = row.draft, !.draft = 0]

publish_job(c, j, major) ==
    LET row   == job[j]
        draft == version[j][row.draft]
        first == [draft EXCEPT !.major = 1]
        old   == version[j][row.current] IN
    /\ Live(j) /\ row.status # "closed"
    /\ row.draft # 0 /\ draft.status = "draft"
    /\ validate_publish_payload(draft)
    /\ \/ /\ row.current = 0 /\ ~major
          /\ Edit(c, j, Release(row, "open"),
                  [version[j] EXCEPT ![row.draft] = Published(first)], None)
       \/ /\ row.current # 0
          /\ Edit(c, j, Release(row, row.status),
                  [version[j] EXCEPT
                      ![row.draft]   = Published(decide_version_bump(old, draft, major)),
                      ![row.current] = Superseded(old)], None)

ChangeStatus(c, j, from, to) ==
    /\ Live(j) /\ job[j].status \in from
    /\ Edit(c, j, [job[j] EXCEPT !.status = to], version[j], None)

pause_job(c, j)  == ChangeStatus(c, j, {"open"}, "paused")
resume_job(c, j) == ChangeStatus(c, j, {"paused"}, "open")

assert_job_can_close(j) == \A a \in 1..Len(app) : app[a].job = j => ~app[a].open

close_job(c, j) == assert_job_can_close(j) /\ ChangeStatus(c, j, {"open", "paused"}, "closed")
-----------------------------------------------------------------------------
FirstVersion(content) ==
    [create_draft_version(content, 0) EXCEPT !.status = "published", !.major = 1]

\* One job is open with its first version, and perhaps with a draft of the next; the
\* others are still to come.
JobInit ==
    /\ \E first \in Jobs, content \in Contents, draft \in {0, 2} \cap (0..MaxVersions) :
          /\ job = [j \in Jobs |->
                IF j = first THEN [status |-> "open", current |-> 1, draft |-> draft] ELSE None]
          /\ version = [j \in Jobs |->
                IF j # first THEN <<>>
                ELSE <<FirstVersion(content)>>
                     \o IF draft = 0 THEN <<>> ELSE <<create_draft_version(content, 1)>>]
    /\ app = <<>>
    /\ opened = 0
    /\ req = [c \in Clients |-> None]

NewJob ==
    \E j \in Jobs :
        \/ \E content \in Contents : create_job(j, content)
        \/ \E source \in Jobs : copy_job(j, source)

\* A client has one request open at a time, as Load says of each.
JobRequest(c, j) ==
    /\ req[c] = None /\ opened < MaxRequests
    /\ \/ remove_job(c, j)
       \/ \E content \in Contents \cup {Blank} :
             save_job_draft(c, j, content) \/ apply_ai_task_result(c, j, content)
       \/ \E i \in 1..MaxVersions : copy_version_to_draft(c, j, i)
       \/ _ensure_job_draft(c, j)
       \/ \E major \in BOOLEAN : publish_job(c, j, major)
       \/ pause_job(c, j) \/ resume_job(c, j) \/ close_job(c, j)

JobStep ==
    \/ NewJob
    \/ \E c \in Clients : \/ \E j \in Jobs : JobRequest(c, j)
                          \/ CommitEdit(c) \/ CommitRemove(c)
-----------------------------------------------------------------------------
(* A job has one current version, which is published, and its draft pointer  *)
(* leads to a draft, whatever publications and edits of the job overlapped:  *)
(* nothing but a publication moves `current`, and it publishes the version   *)
(* it moves it to (publish_job, create_draft_version_from_base).             *)
PointersRight ==
    \A j \in Jobs : Live(j) =>
        LET row == job[j] IN
        /\ row.current # 0 => version[j][row.current].status = "published"
        /\ row.draft # 0 => version[j][row.draft].status = "draft"
        /\ row.status = "draft" <=> row.current = 0
=============================================================================
