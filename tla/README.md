# A verification development for ai-recruitment

`ai-recruitment` is a recruiting system: a FastAPI service over PostgreSQL, Celery
workers over a broker, Redis sessions, a Vue client. This directory holds TLA+
modules that model its stateful core, TLC configurations that check them on small
instances and proofs that TLAPS checks for every instance.

## 1. Inventory

| Component | State | Operations | Talks to | Hard parts | Module |
|---|---|---|---|---|---|
| AI task lifecycle (`services/ai_tasks.py`) | rows of `ai_tasks`, `ai_task_attempts` | create, retry, cancel, recover a stale running task, apply | publishes to Celery after commit | lost publication, recovery against a live worker | `AiTasks`, `Jobs` |
| AI worker (`workers/ai_tasks.py`) | none but its SQLAlchemy session | reroute, reject, claim, allocate an attempt, call a provider, settle, auto-retry, purge raw payloads | broker, provider, the services that persist results | duplicates, crashes between commits, the session's stale copies | `AiTasks` |
| AI providers (`services/ai_providers`) | none | one call, with a timeout | HTTP | classification of errors, a chain of two workflows, retry budget | `AiProvider` |
| Jobs (`services/jobs.py`) | jobs and versions | draft, publish, pause, close, copy, remove | AI tasks, applications | no lock: edits and publications overlap | `Jobs` |
| Resumes and applications (`services/resumes.py`) | resumes, versions, applications, AI results | upload, parse, review, confirm, score, screen | AI tasks, jobs | no lock: late parse results, two score tasks, two screenings | `Resumes`, `Applications` |
| Candidates (`services/candidates.py`) | applications | create, close, transfer, migrate | jobs | no lock: a close against a decision | `Applications`, `Resumes` |
| Hiring decisions (`services/hiring_decisions.py`) | decisions, application status and lock version | decide | analyses, offers | gate on current analysis, optimistic lock, idempotency | `Applications` |
| Interviews and invitations (`services/interviews.py`, `invitations.py`) | rounds, schedules, messages | create, schedule, reschedule, reorder, hold, cancel, end; generate, edit, send, confirm | applications | conflicts across rounds, messages of dead schedules, a check older than its lock | `Interviews` |
| Transcripts (`services/interview_transcripts.py`) | transcripts and versions | import, draft, save, confirm, complete without | analyses | what was on the screen, staleness of what was derived | `InterviewEvidence` |
| Interview AI (`interview_questions`, `interview_analyses`, `comprehensive_analyses`) | question sets, analyses, their versions | request, persist, edit, confirm | AI tasks, transcripts, decisions | late and repeated results, stale analyses, one version per task | `InterviewEvidence`, `AiTasks` |
| Offers and mail (`services/offers.py`, `workers/mail_tasks.py`) | offers, send attempts | draft, mark ready, void, confirm, retry, recover, deliver | broker, a console mail provider | at-least-once sending, recovery against a live worker, deadlocks | `OfferMail` |
| Sessions | Redis keys | login, refresh, logout, revoke | Redis | a refresh during a revocation | - |
| Integration settings | encrypted settings, overlay | save, test, bootstrap | workers at start | the overlay is not reloaded | - |

How a candidate passes through: a job is published (`Jobs`), a resume is uploaded,
parsed by an AI task and confirmed, and an application leaves `pending_parse`, or HR
enters a candidate by hand, without a resume (`Resumes`); it is screened, scored and, after its interviews, decided
(`Applications`); the interviews are booked and held (`Interviews`), transcribed and
analysed (`InterviewEvidence`); an offer is mailed (`OfferMail`). Everything an AI
model does on the way is one task of `AiTasks`.

What makes each correct: an AI task is handled by one worker, numbered without gaps,
never forgotten, never persisted twice and ends; a job's pointers lead to rows of the
right status; an application is bound to a published job version, or to the draft of a job
that never was published, and to no resume but one that was confirmed for it or uploaded
with it; it is not reopened; of its score reports the last one is shown; two schedules of a candidate overlap only when
neither request could see the other; an invitation is about the current schedule; what
a person confirmed is what was on the screen, and an analysis rests on a confirmed text
and stays stale once stale; a mail is not sent after its offer stopped waiting for it.

Three styles of concurrency occur, and each module takes the grain of its code:

- *load and commit* (`Jobs`, `Resumes`, most of `Applications`): no row lock. A handler
  is two actions; `req` keeps what it loaded. `Flush` writes the columns that differ
  from the loaded row, which is what SQLAlchemy does; unique indexes and foreign keys
  are guards of the commit. A failed commit is `Abandon`.
- *row locks* (`Interviews`, `InterviewEvidence`, `OfferMail`): a handler that locks what
  it reads and writes is one action, and one that reads something else is two.
- *workers* (`AiTasks`, the mail worker): an action is what lies between two commits,
  and the worker's session keeps the columns of its first read.

A request that a handler refuses changes nothing and is no action.

## 2. Plan

1. `AiTasks` with `TaskLifecycle` as its abstract specification, and `AiProvider`, which
   says in what a call can end. Done.
2. `OfferMail` with `OfferLifecycle`: offers, send attempts and the mail worker. Done.
3. `Jobs`, extended by `Resumes`: versions of a job and what applies to it. Done.
4. `Applications`, `Interviews`, `InterviewEvidence`. Done.
5. Proofs of the safety properties of all of these. Done.
6. Raw payload retention and sessions.

## 3. AiTasks

### State and actions

One action is one database transaction (or one broker step). The row of `ai_tasks`
keeps the columns that decide something: status, the three counters, error code,
result, and whether `updated_at` is older than `STALE_RUNNING_MIN_AGE`. `attempts` is
the sequence of `ai_task_attempts`, `versions` the number of business rows that name
the task. `outbox` are committed requests that have yet to call `apply_async`, `queue`
the messages per queue. A worker has a program counter: `claimed` between the commit
at line 602 of `workers/ai_tasks.py` and that at line 637, `calling` from there to the
last commit.

The worker's `row` is its SQLAlchemy session's copy. This is the point the model is
most careful about: `create_session_factory` turns `expire_on_commit` off, a
`SELECT ... FOR UPDATE` without `populate_existing` does not refresh an object the
session holds, and a flush writes just the columns that changed. So `OwnsPerSession`
reads the copy and `Flush` writes the difference.

| Action | Code |
|---|---|
| `Create`, `retry_ai_task`, `cancel_ai_task`, `mark_stale_failed_ai_task` | `services/ai_tasks.py` |
| `Redispatch` | a replayed interview AI request, `dispatch_persisted_question_generation_task` |
| `Enqueue`, `LoseDispatch` | `apply_async` after the commit, and its failure |
| `Reroute`, `Reject`, `SkipNotPending`, `Claim`, `Allocate` | the two entry points and the first half of `_handle_process` |
| `FinishSucceeded`, `PersistFailed`, `FinishOutputInvalid`, `FinishFailed`, `AutoRetry`, `LateAfterCancel`, `SkippedStaleOwner` | the ends of `_handle_process` |
| `LoseMessage`, `StrayMessage`, `Crash`, `StaleAgeReached` | environment |

`SensitiveTasks` are interview AI tasks, whose persist step looks for a version of the
same task first; of the others `versions` counts the results that were persisted, and
each success persists once more.

How a call ends is computed in `AiProvider`: `_run_provider(type)` is the set of error
codes and categories a call of that type can end in, over all settings, transport errors
and answers, through the JD_PARSE chain of two workflows with two tries each. `Finish`
picks one of the `Verdicts` of the task's type: accepted, refused output, retryable or
not. `AiProvider` keeps no state and is used through `EXTENDS`.

### Runs

| Run | Question | Bounds |
|---|---|---|
| `AiTasksOwnership` | Without recovery: exclusive claim, faithful copy, running attempts, clean success, implements `TaskLifecycle` | a score and an interview task, 2 workers, 2 calls a cycle, 1 manual retry, 1 stray message |
| `AiTasksRecovery` | With recovery: numbering, dispatch, one version, closed attempts | one task, 2 workers, 2 retries, 2 recoveries, 1 loss or crash, 1 stray message |
| `AiTasksLateWorker` | Does a recovered row stay failed? No: see findings | one task, 1 recovery |
| `AiTasksLiveness` | Is a pending task settled? | one task, 2 workers, 3 calls a cycle, 1 retry, 1 recovery, 2 stray messages, no loss |

Two workers and two messages are what a race on one row needs; two recoveries allow a
late worker of each of two cycles; two tasks show that a worker or a queue does not
mix them up. All counters a run bounds are CONSTANTS of the module and occur in guards.
Deadlock is not checked: the system may stop when all tasks are settled or a task was
lost.

Fairness (`FairSpec`): publishing after the commit, the reroute, the claim of a pending
task that has a message, the allocation and the end of a call. Celery keeps consuming,
provider calls have timeouts. Nothing is assumed about the API calls, about which
outcome a call has, or about messages of tasks that are not pending.

### Finding

`RecoveredStaysFailed` fails: a worker whose call returns after an admin recovered its
task overwrites the failed row, because the ownership check compares the copy. This
contradicts the docstring of `_reassert_running_ownership_for_terminal`, the test that
is named after the rule (it calls the helper in a fresh session, where the check does
work) and section 6.1 of the recovery design document.

### Proofs

`AiTasksProofs` proves, for every set of tasks and workers and every bound, under
`TasksAssumption`, `NoneAssumption` and `BoundsAssumption`: `TypeCorrect`,
`AttemptsNumbered`, `CyclesNumbered`. The inductive invariant `CounterInv` joins
the types, the two numberings, `CycleCounted` (no attempt is ahead of the counters of
its row) and `AbsentIsBlank`. The types need the numbering: the next number is the
maximum of a set, which exists because the numbers are 1..n. `CounterEffect` reduces the
next-state relation to three cases for the counters, so that the numbering argument
does not mention the actions.

`AiTasksOwnershipProofs` proves what holds until an admin recovers a task: `OneOwner`
(`SoleOwner`), `LastAttemptRuns`, `SuccessIsClean`, `BudgetKept` and
`LifecycleImplemented`. The properties are not inductive alone: that a copy equals the
row needs that nobody else writes a running row, which needs that its worker is the only
one, which needs that a claim finds no worker on a pending row. `OwnershipInv` joins
these; each is guarded by `recovered = 0`, so a recovery ends the claim instead of
breaking it. The refinement is stated as `Spec /\ [](recovered = 0) =>
ImplementsLifecycle`: the ownership invariant turns what a worker decides on its copy
into a fact about the row, and `MoveStep` turns a status change of one row into an
action of `TaskLifecycle`.

`AiTasksDeliveryProofs` proves what survives recoveries too: `NobodyStranded` (a pending
task has a message or a publisher while nothing was lost), `OneVersion` and
`HistoryKept` (an attempt closed as succeeded or output_invalid is never rewritten; the
invariant behind it says that the attempt of a calling worker is running or failed and
belongs to no other worker).

`AiTasksProofs` also proves `JdParseNeverRetried`: for every combination of replies a
JD_PARSE task gets the verdict ok, refused output or not retryable. The chain reports a
timeout or a 5xx as a refused output with a retryable category, and the worker settles a
refused output before it looks at the category.

Liveness and the violated property stay with TLC.

## 4. OfferMail

### State and actions

`offer` keeps of an offer its status, the number of its current version and whether that
version is frozen and blank; `attempt` is `offer_send_attempts`; `open` is the
application's gate (in progress and pending offer). `mail` counts the messages of an
attempt, published or about to be.

Row locks decide this component, so an action is what happens between two commits or
two lock waits, and a lock is read off the program counters (`HasOffer`, `AttemptFree`):

- `claimed`: the claim is committed (line 157 of `workers/mail_tasks.py`), no lock held;
- `sending`, `accepted`, `refused`: the offer is locked (line 159) up to the last commit,
  before and after `provider.send`; the attempt's lock is asked for at line 83;
- `duplicate`: the attempt is locked (line 128), the offer is waited for (line 141);
- `holds[p]`: an admin's recovery has locked the attempt (`services/offers.py`, line 1142)
  and waits for the offer (line 1156).

The two orders can deadlock. PostgreSQL aborts one of the waiting transactions:
`AbortSender`, `AbortRecovery`, `AbortDuplicate`. A worker that was killed or aborted
after the provider accepted its mail is counted in `unrecorded`.

| Action | Code |
|---|---|
| `create_offer`, `update_offer_draft`, `mark_offer_ready`, `void_offer`, `confirm_offer_send`, `retry_offer_send`, `Redispatch` | `services/offers.py` |
| `LockStaleAttempt`, `RecoverAttempt` | `mark_stale_failed_offer_send_attempt`, before and after its second lock |
| `CloseApplication` | `resolve_close_application` |
| `SkipSettled`, `LockDuplicate`, `DuplicateDone`, `Claim`, `LockOffer`, `SkippedStaleOwner`, `Deliver`, `FinishSucceeded`, `FinishRetried`, `FinishDead` | `_handle_mail_attempt` |
| `LoseMail`, `DuplicateMail`, `Crash`, `Abort...`, `StaleAgeReached` | environment |

Abstractions: texts and hashes are a version number; `lock_version` and idempotency keys
only refuse requests, and a refused request changes nothing; the branches for a missing
offer or version are left out because foreign keys keep both; a refusal by the provider
is a free choice, although the console provider refuses only on request; the countdown
of a retry has no time. An API call that takes only the offer's lock, and reads
nothing before, is one action.

### Runs

| Run | Question | Bounds |
|---|---|---|
| `OfferMailSafety` | Is every mail accounted for, is it what was confirmed, are retry chains bounded, has an offer one live attempt with a message, does it implement `OfferLifecycle`? | 2 offers, 4 attempts, 2 workers, 3 versions, 2 sends of 2 attempts, a recovery, a loss or crash, a stray message |
| `OfferMailLateWorker` | Does a recovered attempt stay dead? No: see below | one offer, 1 recovery |
| `OfferMailLiveness` | Is a sending offer decided? | one offer, 1 recovery, no loss |

Two sends and one recovery are what a late worker of the first send needs to meet the
second; a third version is what an edit after a confirmed version needs (the first is
blank); a second offer appears only after the first was voided.

Fairness: messages are delivered, processes go on, deadlocks are broken (weak), and a
worker that is repeatedly able to finish does (strong): PostgreSQL queues the waiters of
a row lock, so recoveries that start again cannot overtake it for ever. `aborted > 0` is
part of `EventuallyDecided` because a sender chosen as the deadlock's victim leaves its
attempt running and its offer sending until an admin recovers it.

### Finding

`RecoveredStaysDead` fails, for the reason of section 3: the mail worker compares its own
copy of the attempt. Here the window is short, from the commit of the claim to the offer
lock, and it takes a manual retry to make the offer sending again; then the old worker
mails and rewrites the dead attempt. The design document (5.8) requires it to skip.

### Proofs

`OfferMailProofs` proves, for every set of offers, attempts, workers and admins and every
bound, all safety properties that the passing runs check.

- `MailTypeCorrect`, `RecoveryReadsTrue` (`LockedStaysRunning`), `MailsAccounted`. The
  account needs mutual exclusion: `LocksInv` says that the offer's lock has one holder and
  that its offer is sending, `RowsInv` that an attempt and its offer exist, `HoldsInv` that
  no two recoveries hold one attempt. Two frame lemmas carry the argument: `LocksKept`
  for steps that move no worker and change only offers that are free, and `LocksMoved` for
  steps of one worker, which may change the offers it gives back. `BalanceMoved` then has
  the four ways one worker changes the account of an offer.
- `OfferLifecycleImplemented`: initial states map to initial states; `StepMoves` shows that
  every step moves at most one offer, and by an action of `OfferLifecycle`.
- `ConfirmedIsSent` (`SentAsConfirmed`). The invariant `Texts` says that from
  `ready` on the current version of an offer is frozen and not blank, so an edit makes a
  new version and what an attempt refers to is never rewritten.
- `ChainsBounded` (`RetryChains`), `OneAttemptLives` (`OneLiveAttempt`), `PendingMailed`
  (`PendingHasMail`). `Owners` says that a worker that is busy owns its attempt until an
  admin recovers it. With it `StepSends` sorts what a step does to the attempts into six
  cases (nothing but a flag, a new send, a recovery, a settled one, a retry, an attempt
  that the handler finishes), and the two properties about chains and live attempts are
  proved once per case instead of once per action.

`EventuallyDecided` and the violated `RecoveredStaysDead` stay with TLC.

## 5. Jobs and Resumes

### State and actions

`Jobs` has the tables `jobs` and `job_versions`: of a job its status and the pointers to
its current version and its draft, of a version its status, numbers, content and base.
`Resumes` EXTENDS it with candidates, resumes, `resume_versions`, the RESUME_PARSE rows of
`ai_tasks` and the applications. Rows are numbered in the order of their commits. Of an
application it keeps what it is bound to (candidate, job, job version, resume version),
whether it is open, and its pipeline as far as that decides what it may be bound to;
`early` says that one of its `screening_decisions` was taken from `pending_parse`. Every
handler that creates an application or rewrites what it is bound to is there; of those
that move its pipeline the hiring decision is left to `Applications` (it starts from the
interviews, and ends there or in a closed application, as a screening may).

| Action | Code |
|---|---|
| `create_job`, `copy_job`, `remove_job` / `CommitRemove` | `services/jobs.py` |
| `save_job_draft`, `copy_version_to_draft`, `_ensure_job_draft`, `apply_ai_task_result`, `publish_job`, `pause_job`, `resume_job`, `close_job`, and `CommitEdit` for all of them | `services/jobs.py`, `services/ai_tasks.py` |
| `upload_resumes` / `_upload_one`, `save_draft` / `CommitDraft`, `confirm_resume_version` / `CommitConfirm`, `retry_resume_parse_manual_text` / `CommitReparse`, `create_application_for_resume` / `CommitApplication`, `create_screening_decision` / `CommitScreening` | `services/resumes.py` |
| `create_job_candidate` / `CommitCandidate`, `resolve_close_application` / `CommitClose` (with the successor of a transfer), `migrate_application_version` / `CommitMigrate` | `services/candidates.py` |
| `ApplyTask`, then `apply_resume_parse_success` or `apply_resume_parse_failure` | `_after_task_success`, `_after_task_failure` |
| `ClaimTask`, `AutoRetry`, `LoseTask`, `mark_stale_failed_ai_task`, `cancel_ai_task`, `retry_ai_task` | the rest of a task's life, as in `AiTasks` |
| `Abandon` | a constraint, a vanished row or a client that goes away |

The description and the score dimensions of a version are one `content`; `Blank` is one
`validate_publish_payload` refuses. The draft of a resume version is told apart by who
wrote it last. An upload that enqueues before it commits is a task that nobody claims.
`busy` counts the workers of a task that have not ended. A recovery does not end its
worker, so a late one may apply its result after a retry, beside a newer worker or after
it; `EndWorker` writes its ending over whatever the task has become (section 3). `saving`
is the version a worker loaded: it has the lock of its task until it commits. A worker
that dies is a `LoseTask`, which is what its recovery comes to, or one that never ends.

### Run

`Resumes`: two jobs with two versions, two candidates, one resume of three versions, two
applications, three requests of any kind by two clients, two parse tasks of one worker
each. One job starts open with its first version and, or not, a draft of the second, so
that three requests reach what would otherwise take four. Two overlapping requests and one
before them are what a stale commit needs: a draft, a publication and an edit that began
before it, or an upload, a screening and a confirmation that loaded the application
before it. The second application is the successor of a transfer. A worker may be late: it
is recovered and applies afterwards. Two workers of one task at once, and a second resume,
are in the proofs only.

The run shows `PointersRight` (current leads to a published version and draft to a draft),
`ParsingAwaitsTask` and `BoundToReleased`, which speaks of every application, whoever
created it:

- its job exists and has the version it names; the version is a draft only while its job
  was never published and the application has no resume (`create_job_candidate` binds
  `current_version_id or draft_version_id`); a transfer and a migration bind a published
  one;
- its resume version, if it has one, is one that HR confirmed (the copy, or the file that
  some copy was made of), or the uploaded file, as long as it waits for its parse or if it
  was screened while it waited. Applications that `create_job_candidate` or a transfer
  made have no resume version, and nothing gives them one: a confirmation binds only those
  that are in `pending_parse`.

Seen while modelling, allowed by the code and by these properties: an edit that races the
publication of its draft changes the published version; a late publication of an older
draft moves `current` back; a resume of a paused job that races its closing reopens it; a
parse that ends late, or a manual retry, takes a confirmed file version out of
`confirmed` (the confirmed copy stays); two confirmations at once both get label C1;
confirming into another candidate leaves the uploading candidate's application in
`pending_parse`; a parse task that is cancelled, recovered or fails while persisting
leaves its version `parsing`; `create_screening_decision` does not refuse an application
in `pending_parse`, which then goes to the interviews with a file nobody confirmed, and a
confirmation that had loaded it before sends it back to `pending_hr_screen`, or opens the
pipeline of an application that was rejected (the application itself stays closed); the
successor of a transfer is created without the resume of its predecessor; and `_manual_edited`, on which
`apply_resume_parse_success` would keep an edit, is written nowhere.

### Proofs

`ResumesProofs` proves `TypeCorrect`, `PointersLeadRight` (`PointersRight`),
`ApplicationsBound` (`BoundToReleased`) and `ParsingWaits` (`ParsingAwaitsTask`) for every
set of jobs, clients and contents and every bound, under `JobsAssumption`,
`BoundsAssumption` (at least one version fits, because a job starts with one),
`ResumesAssumption` and `NoneIsNoRow`.

No handler here locks a row, so every commit writes columns that were computed from rows
somebody may have rewritten since. The parts of `Inv` say what such a request may still
rely on:

- `Requests`. An edit of a job either publishes the draft it loaded (`Publishing`) or
  leaves statuses and pointers as it loaded them, but for a draft it adds (`Keeping`), so
  a late one overwrites nothing else of them; the versions it loaded are still there, and what was released when it loaded is
  released now. A request on a resume version still finds that version, and its resume,
  kind and source are what they were.
- `Pointers` adds to `PointersRight` that a job is a draft if and only if it has no current
  version, and that its first version is then the draft and later never is one again.
  Together with `Publishing` this is why a publication that commits late can move
  `current` back, but only to a published version; and why an application to a job that
  was never published, which names version 1, names a published one as soon as the job is.
- `Bound`: the version an application names was released, or is the first of its job and
  the application has no resume; nothing that is released becomes a draft again, and
  nothing but a confirmation of what waits in `pending_parse` rewrites the resume, whatever
  order the commits come in. A screening that loaded `pending_parse` leaves its mark
  (`early`) whenever it commits.
- `Confirmations`: a version that says `confirmed` has a confirmed copy, or is one. The
  file version may be taken back to `parsing`, but the kind and source of the copy are
  never written again, so what an application rests on stays confirmed.
- `OwnTasks` and `Saving`: the task of a version is about this version; a worker, late or
  not, that applies the task a version waits for, while the version is being parsed, loaded it as
  such. Its flush therefore rewrites the status, and no version stays `parsing` behind a
  task that is done.

Two lemmas carry the requests of others through a step: `RequestStays` shows from
`JobsGrow` and `ResumesGrow` (rows are added, what was released stays released, the
identity of a row does not change) that what a request relied on still holds. Each commit
then owes that it only lets the tables grow, and its own part: `JobMoves` for those that
rewrite a job, `ResumeStep` for those that write resumes. `FlushVersions` is handled row
by row: a column that the request did not change keeps the value it has now.

## 6. Applications

### State and actions

`app` is `job_applications`, `decisions` the screening and hiring decisions in commit
order, `task` and `result` the score tasks and the report each wrote. Jobs are kept only
as far as they decide about applications (status and current version, 0 before the first
publication); their drafts are in `Jobs`. An application to a job that was never published
names its draft, which version 1 will be. Each job starts as a draft or open with its first
version. Only `create_hiring_decision` locks the row.

| Action | Code |
|---|---|
| `create_job_candidate`, `resolve_close_application` / `CommitClose`, `migrate_application_version` / `CommitMigrate` | `services/candidates.py` |
| `create_screening_decision` / `CommitScreening`, `create_resume_score_task` / `CommitScoreTask` | `services/resumes.py` |
| `mark_previous_results_not_current`, then `CommitScore` or `RollBackScore` | `persist_resume_score_result` |
| `create_hiring_decision` | `services/hiring_decisions.py` |
| `publish_job`, `pause_job`, `resume_job`, `close_job` / `CommitJob` | `services/jobs.py` |
| `ClaimTask`, `FailTask`, `cancel_ai_task`, `retry_ai_task` | as in `AiTasks` |

### Runs

| Run | Question | Bounds |
|---|---|---|
| `Applications` | Are reports numbered and the last one shown, is nobody hired who was not sent to interviews, is an ended application closed and never reopened? | 2 jobs, 2 applications, 2 clients, 3 requests, 2 score tasks, 3 decisions, 1 key |
| `ApplicationsLock` | Is one decision accepted per `lock_version`? No: see below | the same |

Two score tasks are what a race of two reports needs; the second application is the
successor of a transfer; three requests let a close or a migration cross a screening
after an earlier screening has opened the interviews.

### Finding

`OneDecisionPerLock` fails: `create_screening_decision` compares `lock_version` with a row
it loaded without a lock, so two requests that loaded the same one are both accepted.
`docs/stage-6-acceptance.md` promises that one gets 409. A hiring decision locks the row
and does refuse.

Also seen: a score that is in flight when its application is migrated is stored as not
stale; `create_job_candidate` does not look at the status of its job.

### Proofs

`ApplicationsProofs` proves `TypeCorrect`, `HistoryNumbered` (`ScoreHistory`),
`HiredAfterInterview` (`HireAfterInterview`), `EndedClosed` (`EndedIsClosed`) and
`ClosedStaysClosed` (`ClosedForGood`) for every set of jobs, clients and keys and every
bound, under `TasksAssumption`, `NoneAssumption`, `BoundsAssumption` and `NoneIsNoRow`.

The handlers that lock nothing decide on rows they loaded earlier, so the inductive
invariant `Inv` is about `req` as much as about the tables. `Loaded`: what a handler holds
was open when it was read, and rows never go away. A closing, migration or screening that
commits late writes only the columns it changes; none of them writes `open`, and that is
why a closed application stays closed although its row is not locked (`FlushKeepsClosed`).
`PastScreening`: a pipeline beyond the screening has a decision that entered the
interviews, in the table or in the hand of the request that writes both; hiring requires
such a pipeline. `Reports`: a task has a report if and only if it succeeded, and the task a
worker is saving is running, so nobody else stores a report for it.

The violated `OneDecisionPerLock` stays with TLC.

## 7. Interviews

### State and actions

`round`, `schedules` and `message` are the tables `interview_rounds`,
`interview_schedules` and `interview_invitation_messages` of one application; `lock` says who
holds the row of a round between two steps. Most handlers lock the round and are one
action. Two steps have `create_interview_round` (locks nothing), `schedule_interview_round`
and `reschedule_interview_round` (lock their round, read the calendar of the others) and
`end_interview_abnormally`, which loads the round, then locks it: the lock returns the
object its session holds, so the status it checks is as old as the first read.

`seen`, which is no column, records in a schedule the bookings its request read; with it
`OverlapOnlyInFlight` says that two active bookings at one time never saw each other.

| Action | Code |
|---|---|
| `create_interview_round` / `CommitCreate`, `schedule_interview_round` / `CommitSchedule`, `reschedule_interview_round` / `CommitReschedule`, `end_interview_abnormally` / `CommitEnd`, `reorder_interview_rounds`, `start_interview_round`, `finish_interview_round`, `cancel_interview_round` | `services/interviews.py` |
| `CompleteRound` | the confirmation of a transcript, or the completion without one |
| `generate_invitations`, `update_invitation`, `record_sent`, `confirm_invitation` | `services/invitations.py` |

### Run

`Interviews`: two rounds, two clients, two times, two creation keys, two schedules per
round, three requests of two steps, one recipient, any number of the others. Two rounds
and two clients are what an overlap, a shared number or a shared key needs. It shows
`RoundsDistinct`, `ScheduleMatchesStatus`, `InvitationsAreCurrent`, `OverlapOnlyInFlight`
and `TerminalForGood`, which names the one exception: a stale abnormal end may mark a
completed or cancelled round.

### Proofs

`InterviewsProofs` proves all six for every set of rounds, clients, times, keys and
recipients and every bound: `TypeCorrect`, `DistinctRounds`, `OneActiveSchedule`,
`CurrentInvitations`, `OverlapsNeverSeen`, `TerminalRounds`. It rests on `NoneAssumption`,
`EmailAssumption`, `BoundsAssumption`, `NoneIsNoRow`, and `RoundsAssumption`: the rounds are
finitely many, because `next_sequence_no` is a maximum over them.

`Inv` joins the types with what the two-step requests rely on. `Locks`: the lock of a row
and the request that holds it name each other. `Checked`: what the first step of a request
checked about its round still holds at the second, because the round is locked; for
`end_interview_abnormally`, which checks before it locks, only that the round exists and
began. `Shapes`: the last schedule of a round is the one its version counts, no earlier one
is active, and the last one is active exactly as the status says. `Calendars`: the slot of a
schedule, or of a request, is free of the bookings its request read, and the calendar only
grows after that. `OpenMessages`: an invitation that is not voided is about the current
schedule, a cancellation about a round that was cancelled or ended.
`RowStepKeeps` proves for a step that rewrites one round that these hold again, given the
shape of the new row; each handler then owes just that shape.

## 8. InterviewEvidence

### State and actions

Per round its status and completion mode, the transcript versions, question set and
analyses; per application the comprehensive analyses; the AI tasks with the input that
was frozen in them; and `screen`, what a person has open between a read and a write. A
text is the set of segments it includes in the analysis. `seen` in a confirmed version is
no column: it is the text that was on the screen of whoever confirmed it.

| Action | Code |
|---|---|
| `import_transcript`, `create_transcript_draft`, `get_transcript_version`, `save_transcript_draft`, `confirm_transcript_draft`, `complete_without_transcript` | `services/interview_transcripts.py` |
| `request_question_generation`, `list_question_versions`, `create_manual_question_version`, `confirm_question_set` | `services/interview_questions.py` |
| `request_analysis_generation`, `request_comprehensive_analysis_generation` | `services/interview_analyses.py`, `comprehensive_analyses.py` |
| `_after_task_success` (with the three `persist_...` functions), `Fail`, `retry_ai_task`, `cancel_ai_task` | `workers/ai_tasks.py` |
| `finish_interview_round`, `cancel_interview_round`, `end_interview_abnormally` | a summary of `Interviews` |

A result may be persisted twice and after a recovery, which is what `AiTasks` leaves
possible; the lookup of a version by its task makes the second one a reuse. Whether the
task is still to be persisted a worker reads from its session's copy (section 3), so it
also persists for a task that was recovered, retried and then cancelled: `late` marks a
task that was retried, and `HasWorker` says that a cancelled one is persisted only by such
a worker. An abnormal end may mark a cancelled or completed round, as in `Interviews`.

### Run

`InterviewEvidence`: one round, two people, one segment, two drafts of two saves, two
question versions, three tasks. Two drafts are what a second confirmation after an
analysis needs, three tasks an old analysis that is persisted after a newer one or a
comprehensive analysis of either. It shows `CompletionMatchesTranscript`,
`EvidenceStands`, `ApprovedAsSeen` and `StaleForGood`. With one round a comprehensive
analysis refers to one; that it must refer to fresh ones is the same for each.

Also seen: an analysis task that failed and is retried after a newer transcript was
confirmed makes an old input the current analysis, marked as stale; questions that are
persisted after the round was finished put a READY set back to DRAFT, where nobody can
confirm it any more; drafts are created with the transcript locked before the round, an
import or a completion locks the round first, so PostgreSQL may have to abort one.

### Proofs

`InterviewEvidenceProofs` proves `TypeCorrect`, `CompletionMatches`
(`CompletionMatchesTranscript`), `EvidenceKept` (`EvidenceStands`), `ApprovedWasSeen`
(`ApprovedAsSeen`) and `StaleStays` (`StaleForGood`) for every set of rounds, segments and
people and every bound, under `NoneAssumption`, `BoundsAssumption` and `NoneIsNoRow`.

The parts of `Inv`: `Modes` (a round has a completion mode if and only if it is completed),
`Transcripts` (one editing draft, the current version is confirmed, the base of a draft is
frozen), `Screens` (a draft or a question set on a screen is what the table holds, as long
as its version counter has not moved: the optimistic check), `Approvals` (a
question set that is READY shows the version that its approver had on the screen), `Makers` (each version was made by one task of its kind
and round; this also bounds the analyses by the tasks, which the types of the references
need), `Inputs` (the input of a task names versions that existed when it was created) and
`Evidence` (an analysis rests on a confirmed transcript version that says what its task was
given, and a comprehensive one refers to analyses that exist). There is one lemma per handler; `TranscriptStepKeeps` and
`AiStepKeeps` state once what steps that write only transcripts, or only tasks and
analyses, leave alone. `StaleStays` rests on `StepGrows`: a transcript that is confirmed
or an analysis that is made gets a number above all that exist, so the current
one never goes back to one an analysis was made from.

## 9. Not modelled

- *Sessions.* Refresh rotation is one Lua script in Redis; what remains is a revocation
  that reads a set and rewrites its members. They share no state with the rest and come
  after it in the plan.
- *Raw payload retention* (`purge_expired_ai_raw_payloads`): payloads are no part of the
  state of an attempt here.
- *The gate of a hiring decision on its analysis.* It is read from rows the application's
  lock does not protect; `Applications` and `InterviewEvidence` are not composed, because
  their product is out of reach at the bounds that make both interesting.
- *The panel of interviewers* (`update_interview_round`) and interviewer conflicts, which
  a caller may override.
- *Integration settings*: read at process start; `AiProvider` quantifies over them.
- HTTP, prompts and parsing in providers, file and transcript parsing, template
  rendering, lists and detail views, audit rows, permissions, the frontend, migrations
  and deployment: no state of their own, or none that a property here is about.

## 10. What rests on what

Proved for every value of the constants: all invariants and action properties that the
passing runs check, both refinements, and in `AiProvider` that JD_PARSE is never retried.
Model-checked only, at the bounds above: both liveness properties (the prover has no
ENABLED, hence no fairness), and the three violations, of which a run is the
proof. No fairness is assumed outside the two liveness runs.

Two proofs have hypotheses beyond the assumptions on constants, and both are in the
properties themselves: the ownership properties of `AiTasks` speak of the time before an
admin recovers a task, `PendingHasDispatch` of the time before a message is lost.

Every property has a mutant: a faulty variant of a definition (its name ends in
`_Suffix`, next to the definition it varies) under which the same run reports it.
Deadlock is not checked in any run: a bound that is used up, or an application that is
closed, is a legitimate end.
