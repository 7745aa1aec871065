-------------------------- MODULE ApplicationsProofs --------------------------
(***************************************************************************)
(* Applications for every set of jobs, applications, clients, score tasks  *)
(* and keys.  What a handler loaded without a lock may be out of date when *)
(* it commits; the invariant keeps what is still true of it, and what the  *)
(* columns it writes cannot undo.                                          *)
(***************************************************************************)
EXTENDS Applications, FiniteSetTheorems, SequenceTheorems, TLAPS

\* Handlers load only open applications, which never go away.
FromOpenRow(h) ==
    h.op # "job" =>
        /\ Live(h.app)
        /\ h.row.status = "in_progress"
        /\ h.op = "screen" => h.row.pipeline \notin {"rejected", "talent_pool", "pending_offer"}
        /\ h.op = "close" => (h.action = "transfer" => h.target \in Jobs /\ h.version \in 1..MaxVersions)

Loaded == \A c \in Clients : req[c] # None => FromOpenRow(req[c])

\* An application past screening has a decision that sent it to the interviews.
Interviewed(taken, a) ==
    \E k \in 1..Len(taken) : taken[k].app = a /\ taken[k].what = "enter_interview"

PastScreening ==
    \A a \in Apps : Live(a) /\ app[a].pipeline \in {"interviewing", "pending_offer"}
                        => Interviewed(decisions, a)

\* A task has a report when it succeeded, and its worker writes it while it runs.
Reports ==
    \A t \in Tasks :
        /\ task[t].status # "absent" => task[t].app \in Apps /\ task[t].version \in 1..MaxVersions
        /\ result[t] # None <=> task[t].status = "succeeded"
        /\ saving[t] \notin {None, Lost} => /\ task[t].status = "running"
                                            /\ saving[t] \subseteq ResultsOf(task[t].app)

\* The inductive invariant.
Inv == TypeOK /\ Loaded /\ PastScreening /\ HireAfterInterview /\ EndedIsClosed /\ Reports
       /\ ScoreHistory

-----------------------------------------------------------------------------
(* Columns. *)

LEMMA FlushColumns ==
    ASSUME NEW db \in AppRow, NEW loaded \in AppRow, NEW new \in AppRow
    PROVE  /\ Flush(db, loaded, new) \in AppRow
           /\ Flush(db, loaded, new).status =
                 (IF new.status = loaded.status THEN db.status ELSE new.status)
           /\ Flush(db, loaded, new).pipeline =
                 (IF new.pipeline = loaded.pipeline THEN db.pipeline ELSE new.pipeline)
  BY DEF Flush, AppRow

LEMMA JobFlush ==
    ASSUME NEW db \in JobRow, NEW loaded \in JobRow, NEW new \in JobRow
    PROVE  Flush(db, loaded, new) \in JobRow
  BY DEF Flush, JobRow

LEMMA AppColumns ==
    /\ \A j \in Jobs, version \in 1..MaxVersions, started \in BOOLEAN :
          /\ create_application(j, version, started) \in AppRow
          /\ create_application(j, version, started).pipeline = "pending_hr_screen"
    /\ \A r \in AppRow :
          /\ r.job \in Jobs /\ r.version \in 1..MaxVersions /\ r.lock \in Nat \ {0}
          /\ \A action \in Closing, target \in Jobs \cup {None} :
                /\ Closed(r, action, target) \in AppRow
                /\ Closed(r, action, target).status \in {"rejected", "transferred", "terminated"}
                /\ Closed(r, action, target).pipeline = r.pipeline
          /\ \A version \in 1..MaxVersions :
                /\ Migrated(r, version) \in AppRow
                /\ Migrated(r, version).status = r.status
                /\ Migrated(r, version).pipeline = r.pipeline
          /\ \A what \in Screening :
                /\ Screened(r, what) \in AppRow
                /\ Screened(r, what).status =
                      (IF what = "reject" THEN "rejected"
                       ELSE IF what = "talent_pool" THEN "terminated" ELSE r.status)
                /\ Screened(r, what).pipeline = ScreeningTarget[what]
          /\ \A what \in Hiring :
                /\ Hired(r, what) \in AppRow
                /\ Hired(r, what).status = (IF what = "reject" THEN "rejected" ELSE r.status)
                /\ Hired(r, what).pipeline = HiringTarget[what]
<1>1. ASSUME NEW j \in Jobs, NEW version \in 1..MaxVersions, NEW started \in BOOLEAN
      PROVE  /\ create_application(j, version, started) \in AppRow
             /\ create_application(j, version, started).pipeline = "pending_hr_screen"
  BY DEF create_application, AppRow, AppStatuses, Pipelines
<1>2. ASSUME NEW r \in AppRow
      PROVE  r.job \in Jobs /\ r.version \in 1..MaxVersions /\ r.lock \in Nat \ {0}
  BY DEF AppRow
<1>3. ASSUME NEW r \in AppRow, NEW action \in Closing, NEW target \in Jobs \cup {None}
      PROVE  /\ Closed(r, action, target) \in AppRow
             /\ Closed(r, action, target).status \in {"rejected", "transferred", "terminated"}
             /\ Closed(r, action, target).pipeline = r.pipeline
  <2>1. ClosingTarget[action] \in {"rejected", "transferred", "terminated"}
    BY DEF ClosingTarget, Closing
  <2> QED
    BY <2>1 DEF Closed, _mark_interview_pending_cancel, AppRow, AppStatuses
<1>4. ASSUME NEW r \in AppRow, NEW version \in 1..MaxVersions
      PROVE  /\ Migrated(r, version) \in AppRow
             /\ Migrated(r, version).status = r.status
             /\ Migrated(r, version).pipeline = r.pipeline
  BY DEF Migrated, AppRow
<1>5. ASSUME NEW r \in AppRow, NEW what \in Screening
      PROVE  /\ Screened(r, what) \in AppRow
             /\ Screened(r, what).status =
                   (IF what = "reject" THEN "rejected"
                    ELSE IF what = "talent_pool" THEN "terminated" ELSE r.status)
             /\ Screened(r, what).pipeline = ScreeningTarget[what]
  <2>1. ScreeningTarget[what] \in Pipelines
    BY DEF ScreeningTarget, Screening, Pipelines
  <2>2. r.lock + 1 \in Nat \ {0} /\ (r.started \/ what = "enter_interview") \in BOOLEAN
    BY <1>2
  <2> QED
    BY <2>1, <2>2 DEF Screened, AppRow, AppStatuses
<1>6. ASSUME NEW r \in AppRow, NEW what \in Hiring
      PROVE  /\ Hired(r, what) \in AppRow
             /\ Hired(r, what).status = (IF what = "reject" THEN "rejected" ELSE r.status)
             /\ Hired(r, what).pipeline = HiringTarget[what]
  <2>1. HiringTarget[what] \in Pipelines
    BY DEF HiringTarget, Hiring, Pipelines
  <2>2. r.lock + 1 \in Nat \ {0}
    BY <1>2
  <2> QED
    BY <2>1, <2>2 DEF Hired, AppRow, AppStatuses
<1> QED
  BY <1>1, <1>2, <1>3, <1>4, <1>5, <1>6

LEMMA TaskColumns ==
    /\ AbsentTask \in TaskRow /\ AbsentTask.status = "absent"
    /\ \A r \in TaskRow, status \in TaskStatuses :
          /\ TaskStatus(r, status) \in TaskRow
          /\ TaskStatus(r, status).status = status
          /\ TaskStatus(r, status).app = r.app
          /\ TaskStatus(r, status).version = r.version
    /\ \A r \in ResultRow :
          /\ StaleResult(r) \in ResultRow /\ StaleResult(r).label = r.label
          /\ StaleResult(r).is_current = r.is_current
          /\ PreviousResult(r) \in ResultRow /\ PreviousResult(r).label = r.label
          /\ ~PreviousResult(r).is_current
<1>1. AbsentTask \in TaskRow /\ AbsentTask.status = "absent"
  BY BoundsAssumption DEF AbsentTask, TaskRow, TaskStatuses
<1>2. ASSUME NEW r \in TaskRow, NEW status \in TaskStatuses
      PROVE  /\ TaskStatus(r, status) \in TaskRow
             /\ TaskStatus(r, status).status = status
             /\ TaskStatus(r, status).app = r.app
             /\ TaskStatus(r, status).version = r.version
  BY DEF TaskRow, TaskStatus
<1>3. ASSUME NEW r \in ResultRow
      PROVE  /\ StaleResult(r) \in ResultRow /\ StaleResult(r).label = r.label
             /\ StaleResult(r).is_current = r.is_current
             /\ PreviousResult(r) \in ResultRow /\ PreviousResult(r).label = r.label
             /\ ~PreviousResult(r).is_current
  BY DEF ResultRow, StaleResult, PreviousResult
<1> QED
  BY <1>1, <1>2, <1>3

LEMMA HandlerColumns ==
    ASSUME NEW h \in Handler
    PROVE  /\ h # None
           /\ h.op \in {"job", "close", "migrate", "screen", "score"}
           /\ h.op = "job" => h.job \in Jobs /\ h.row \in JobRow /\ h.new \in JobRow
           /\ h.op # "job" => h.app \in Apps /\ h.row \in AppRow
           /\ h.op = "close" => /\ h.action \in Closing /\ h.target \in Jobs \cup {None}
                                /\ h.version \in 1..MaxVersions \cup {None}
           /\ h.op = "migrate" => h.version \in 1..MaxVersions
           /\ h.op = "screen" => h.what \in Screening /\ h.key \in Keys \cup {None}
           /\ h.op = "score" => h.key \in Keys \cup {None}
<1>1. h # None
  BY NoneIsNoRow
<1> QED
  BY <1>1 DEF Handler
-----------------------------------------------------------------------------
(* Requests open and end. *)

LEMMA DoneKeeps ==
    ASSUME TypeOK, NEW c \in Clients, Done(c)
    PROVE  /\ req' \in [Clients -> Handler \cup {None}] /\ opened' \in 0..MaxRequests
           /\ \A d \in Clients : req'[d] # None => req'[d] = req[d]
  BY DEF Done, TypeOK

\* The reports of an application keep their numbers and its current one.
LEMMA SameHistory ==
    ASSUME ScoreHistory,
           \A a \in Apps : ResultsOf(a)' = ResultsOf(a),
           \A t \in Tasks : result[t] # None =>
              /\ result'[t].label = result[t].label
              /\ result'[t].is_current = result[t].is_current
    PROVE  ScoreHistory'
<1> SUFFICES ASSUME NEW a \in Apps
             PROVE  LET n == Cardinality(ResultsOf(a)') IN
                    /\ get_score_history(a)' = 1..n
                    /\ get_score_report(a)' = IF n = 0 THEN {} ELSE {n}
  BY DEF ScoreHistory, count_ai_results_for_application
<1>1. current_results(a)' = current_results(a) /\ ResultsOf(a)' = ResultsOf(a)
  BY DEF current_results, ResultsOf
<1>2. get_score_history(a)' = get_score_history(a) /\ get_score_report(a)' = get_score_report(a)
  BY <1>1 DEF get_score_history, get_score_report, current_results, ResultsOf
<1> QED
  BY <1>1, <1>2 DEF ScoreHistory, count_ai_results_for_application

\* While nothing but requests changes, the rest of the invariant stays.
LEMMA RequestsOnly ==
    ASSUME Inv, UNCHANGED <<job, app, decisions, task, result, saving>>,
           req' \in [Clients -> Handler \cup {None}], opened' \in 0..MaxRequests,
           \A d \in Clients : req'[d] # None => req'[d] = req[d] \/ FromOpenRow(req'[d])
    PROVE  Inv'
<1>1. TypeOK'
  BY DEF Inv, TypeOK
<1>2. Loaded'
  <2>1. \A d \in Clients : req'[d] # None => FromOpenRow(req'[d])
    BY DEF Inv, Loaded
  <2>2. \A d \in Clients : FromOpenRow(req'[d]) => FromOpenRow(req[d])'
    BY DEF FromOpenRow, Live
  <2> QED
    BY <2>1, <2>2 DEF Loaded
<1>3. PastScreening' /\ HireAfterInterview' /\ EndedIsClosed'
  BY DEF Inv, PastScreening, HireAfterInterview, EndedIsClosed, Live, Interviewed
<1>4. \A a \in Apps : ResultsOf(a)' = ResultsOf(a)
  BY DEF ResultsOf
<1>5. Reports'
  BY DEF Inv, Reports, ResultsOf
<1>6. ScoreHistory'
  BY <1>4, SameHistory DEF Inv
<1> QED
  BY <1>1, <1>2, <1>3, <1>5, <1>6 DEF Inv

LEMMA LoadInv ==
    ASSUME Inv, NEW c \in Clients, NEW h \in Handler, Load(c, h), FromOpenRow(h),
           UNCHANGED <<job, app, decisions, task, result, saving>>
    PROVE  Inv'
<1>1. /\ req' \in [Clients -> Handler \cup {None}]
      /\ \A d \in Clients : req'[d] = req[d] \/ req'[d] = h
  BY DEF Load, Inv, TypeOK
<1>2. opened' \in 0..MaxRequests
  BY BoundsAssumption DEF Load, Inv, TypeOK
<1> QED
  BY <1>1, <1>2, RequestsOnly

LEMMA AbandonKeeps ==
    ASSUME Inv, NEW c \in Clients, Abandon(c)
    PROVE  Inv'
<1>1. UNCHANGED <<job, app, decisions, task, result, saving>> /\ Done(c)
  BY DEF Abandon
<1> QED
  BY <1>1, DoneKeeps, RequestsOnly DEF Inv

LEMMA JobEditLoads ==
    ASSUME Inv, NEW c \in Clients, NEW j \in Jobs,
           publish_job(c, j) \/ pause_job(c, j) \/ resume_job(c, j) \/ close_job(c, j)
    PROVE  Inv'
<1>1. job[j] \in JobRow /\ job[j].current \in 0..MaxVersions
  BY DEF Inv, TypeOK, JobRow
<1>2. PICK op \in JobEdits, new \in JobRow : EditJob(c, j, op, new)
  <2>1. CASE publish_job(c, j)
    <3>1. job[j].current + 1 \in 0..MaxVersions
      BY <1>1, <2>1, BoundsAssumption DEF publish_job
    <3> DEFINE status == IF job[j].status = "draft" THEN "open" ELSE job[j].status
    <3>2. status \in {"draft", "open", "paused", "closed"}
      BY <1>1 DEF JobRow
    <3>3. EditJob(c, j, "publish", [status |-> status, current |-> job[j].current + 1])
      BY <2>1 DEF publish_job
    <3> HIDE DEF status
    <3>4. [status |-> status, current |-> job[j].current + 1] \in JobRow
      BY <3>1, <3>2 DEF JobRow
    <3> QED
      BY <3>3, <3>4 DEF JobEdits
  <2>2. \A status \in {"open", "paused", "closed"} : [job[j] EXCEPT !.status = status] \in JobRow
    BY <1>1 DEF JobRow
  <2>3. CASE pause_job(c, j)
    BY <2>2, <2>3 DEF pause_job, JobEdits
  <2>4. CASE resume_job(c, j)
    BY <2>2, <2>4 DEF resume_job, JobEdits
  <2>5. CASE close_job(c, j)
    BY <2>2, <2>5 DEF close_job, JobEdits
  <2> QED
    BY <2>1, <2>3, <2>4, <2>5
<1> DEFINE h == [op |-> "job", what |-> op, job |-> j, row |-> job[j], new |-> new]
<1>3. h \in Handler /\ FromOpenRow(h)
  BY <1>1 DEF Handler, FromOpenRow
<1>4. Load(c, h) /\ UNCHANGED <<job, app, decisions, task, result, saving>>
  BY <1>2 DEF EditJob
<1> QED
  BY <1>3, <1>4, LoadInv

LEMMA ApplicationLoads ==
    ASSUME Inv, NEW c \in Clients, NEW a \in Apps,
           \/ \E action \in Closing, j \in Jobs \cup {None} :
                 resolve_close_application(c, a, action, j)
           \/ migrate_application_version(c, a)
           \/ \E what \in Screening, k \in Keys \cup {None} :
                 create_screening_decision(c, a, what, k)
           \/ \E k \in Keys \cup {None} : create_resume_score_task(c, a, k)
    PROVE  Inv'
<1>0. \A j \in Jobs : job[j] \in JobRow /\ job[j].current \in 0..MaxVersions
  BY DEF Inv, TypeOK, JobRow
<1>1. ASSUME NEW h \in Handler, h.app = a, h.row = app[a], EditApp(c, a, h),
             h.op = "screen" => app[a].pipeline \notin {"rejected", "talent_pool", "pending_offer"},
             h.op = "close" => (h.action = "transfer" => h.target \in Jobs /\ h.version \in 1..MaxVersions)
      PROVE  Inv'
  BY <1>1, LoadInv DEF EditApp, FromOpenRow
<1>2. Live(a) /\ app[a] \in AppRow /\ app[a].job \in Jobs
  <2>1. Live(a)
    BY DEF resolve_close_application, migrate_application_version, create_screening_decision,
           create_resume_score_task
  <2>2. app[a] \in AppRow
    BY <2>1 DEF Live, Inv, TypeOK
  <2> QED
    BY <2>1, <2>2, AppColumns
<1>3. ASSUME NEW action \in Closing, NEW j \in Jobs \cup {None},
             resolve_close_application(c, a, action, j)
      PROVE  Inv'
  <2> DEFINE version == IF j = None THEN None ELSE job[j].current
             h == [op |-> "close", app |-> a, row |-> app[a], action |-> action,
                   target |-> j, version |-> version]
  <2>1. /\ version \in 1..MaxVersions \cup {None}
        /\ action = "transfer" => j # None /\ version \in 1..MaxVersions
    <3>1. CASE j = None
      BY <1>3, <3>1 DEF resolve_close_application
    <3>2. CASE j # None
      <4>1. j \in Jobs /\ job[j].current # 0 /\ job[j].current \in 0..MaxVersions
        BY <1>0, <1>3, <3>2 DEF resolve_close_application
      <4> QED
        BY <3>2, <4>1
    <3> QED
      BY <3>1, <3>2
  <2>2. h \in Handler
    BY <1>2, <2>1 DEF Handler
  <2>3. EditApp(c, a, h)
    BY <1>3 DEF resolve_close_application
  <2> QED
    BY <1>1, <2>1, <2>2, <2>3
<1>4. ASSUME migrate_application_version(c, a) PROVE Inv'
  <2> DEFINE h == [op |-> "migrate", app |-> a, row |-> app[a],
                   version |-> job[app[a].job].current]
  <2>1. job[app[a].job].current # 0 /\ EditApp(c, a, h)
    BY <1>4 DEF migrate_application_version
  <2>2. job[app[a].job].current \in 1..MaxVersions
    BY <1>0, <1>2, <2>1
  <2>3. h \in Handler
    BY <1>2, <2>2 DEF Handler
  <2> QED
    BY <1>1, <2>1, <2>3
<1>5. ASSUME NEW what \in Screening, NEW k \in Keys \cup {None},
             create_screening_decision(c, a, what, k)
      PROVE  Inv'
  <2> DEFINE h == [op |-> "screen", app |-> a, row |-> app[a], what |-> what, key |-> k]
  <2>1. h \in Handler /\ EditApp(c, a, h)
    BY <1>2, <1>5 DEF Handler, create_screening_decision
  <2> QED
    BY <1>1, <1>5, <2>1 DEF create_screening_decision
<1>6. ASSUME NEW k \in Keys \cup {None}, create_resume_score_task(c, a, k) PROVE Inv'
  <2> DEFINE h == [op |-> "score", app |-> a, row |-> app[a], key |-> k]
  <2>1. h \in Handler /\ EditApp(c, a, h)
    BY <1>2, <1>6 DEF Handler, create_resume_score_task
  <2> QED
    BY <1>1, <2>1
<1> QED
  BY <1>3, <1>4, <1>5, <1>6
-----------------------------------------------------------------------------
(* Applications change. *)

\* What the decisions and a row must say together after a step.
Grounded(taken, a, r) ==
    /\ r.pipeline \in {"interviewing", "pending_offer"} => Interviewed(taken, a)
    /\ r.pipeline \in {"rejected", "talent_pool"} => r.status # "in_progress"

LEMMA Rows ==
    ASSUME Inv, NEW a \in Apps, Live(a)
    PROVE  app[a] \in AppRow /\ Grounded(decisions, a, app[a])
  BY DEF Inv, TypeOK, Live, PastScreening, EndedIsClosed, Grounded

\* A decision is appended: what an earlier one says stays true.
LEMMA DecisionsGrow ==
    ASSUME Inv, NEW d \in Decision, decisions' = Append(decisions, d),
           d.kind = "hiring" => Interviewed(decisions, d.app)
    PROVE  /\ decisions' \in Seq(Decision)
           /\ \A a \in Apps : Interviewed(decisions, a) => Interviewed(decisions', a)
           /\ d.what = "enter_interview" => Interviewed(decisions', d.app)
           /\ HireAfterInterview'
<1>1. /\ decisions' \in Seq(Decision) /\ Len(decisions) \in Nat
      /\ Len(decisions') = Len(decisions) + 1
      /\ decisions'[Len(decisions) + 1] = d
      /\ \A i \in 1..Len(decisions) : decisions'[i] = decisions[i]
  BY DEF Inv, TypeOK
<1>2. \A a \in Apps : Interviewed(decisions, a) => Interviewed(decisions', a)
  BY <1>1 DEF Interviewed
<1>3. d.what = "enter_interview" => Interviewed(decisions', d.app)
  BY <1>1 DEF Interviewed
<1>4. ASSUME NEW i \in 1..Len(decisions'), decisions'[i].kind = "hiring"
      PROVE  \E k \in 1..(i - 1) : /\ decisions'[k].app = decisions'[i].app
                                   /\ decisions'[k].what = "enter_interview"
  <2>1. CASE i \in 1..Len(decisions)
    <3>1. PICK k \in 1..(i - 1) : /\ decisions[k].app = decisions[i].app
                                  /\ decisions[k].what = "enter_interview"
      BY <1>1, <1>4, <2>1 DEF Inv, HireAfterInterview
    <3>2. k \in 1..Len(decisions)
      BY <1>1, <2>1
    <3> QED
      BY <1>1, <2>1, <3>1, <3>2
  <2>2. CASE i = Len(decisions) + 1
    <3>1. PICK k \in 1..Len(decisions) : /\ decisions[k].app = d.app
                                         /\ decisions[k].what = "enter_interview"
      BY <1>1, <1>4, <2>2 DEF Interviewed
    <3> QED
      BY <1>1, <2>2, <3>1
  <2> QED
    BY <1>1, <2>1, <2>2
<1> QED
  BY <1>1, <1>2, <1>3, <1>4 DEF HireAfterInterview

\* The rows after a step: kept, or in accord with the decisions.
RowsGrounded ==
    /\ app' \in [Apps -> AppRow \cup {None}]
    /\ \A a \in Apps :
          \/ app'[a] = app[a]
          \/ app'[a] \in AppRow /\ Grounded(decisions', a, app'[a])

RequestsEnd ==
    /\ req' \in [Clients -> Handler \cup {None}] /\ opened' \in 0..MaxRequests
    /\ \A d \in Clients : req'[d] # None => req'[d] = req[d]

\* Applications and decisions change; the reports and what requests have loaded do not.
LEMMA AppStep ==
    ASSUME Inv, UNCHANGED <<job, task, saving>>,
           RowsGrounded, RequestsEnd,
           \/ UNCHANGED decisions
           \/ \E d \in Decision : /\ decisions' = Append(decisions, d)
                                  /\ d.kind = "hiring" => Interviewed(decisions, d.app),
           \/ UNCHANGED result
           \/ \E a \in Apps : mark_current_results_stale(a)
    PROVE  Inv'
<1>1. /\ decisions' \in Seq(Decision)
      /\ \A a \in Apps : Interviewed(decisions, a) => Interviewed(decisions', a)
      /\ HireAfterInterview'
  <2>1. CASE UNCHANGED decisions
    BY <2>1 DEF Inv, TypeOK, Interviewed, HireAfterInterview
  <2>2. ASSUME NEW d \in Decision, decisions' = Append(decisions, d),
               d.kind = "hiring" => Interviewed(decisions, d.app)
        PROVE  /\ decisions' \in Seq(Decision)
               /\ \A a \in Apps : Interviewed(decisions, a) => Interviewed(decisions', a)
               /\ HireAfterInterview'
    BY <2>2, DecisionsGrow
  <2> QED
    BY <2>1, <2>2
<1>2. /\ result' \in [Tasks -> ResultRow \cup {None}]
      /\ \A t \in Tasks : /\ result'[t] # None <=> result[t] # None
                          /\ result[t] # None => /\ result'[t].label = result[t].label
                                                 /\ result'[t].is_current = result[t].is_current
  <2>1. CASE UNCHANGED result
    BY <2>1 DEF Inv, TypeOK
  <2>2. ASSUME NEW a \in Apps, mark_current_results_stale(a)
        PROVE  /\ result' \in [Tasks -> ResultRow \cup {None}]
               /\ \A t \in Tasks : /\ result'[t] # None <=> result[t] # None
                                   /\ result[t] # None =>
                                         /\ result'[t].label = result[t].label
                                         /\ result'[t].is_current = result[t].is_current
    <3>1. \A t \in current_results(a) : result[t] \in ResultRow
      BY DEF current_results, ResultsOf, Inv, TypeOK
    <3>2. ASSUME NEW t \in Tasks
          PROVE  /\ result'[t] \in ResultRow \cup {None}
                 /\ result'[t] # None <=> result[t] # None
                 /\ result[t] # None => /\ result'[t].label = result[t].label
                                        /\ result'[t].is_current = result[t].is_current
      BY <2>2, <3>1, TaskColumns, NoneIsNoRow DEF mark_current_results_stale, Inv, TypeOK
    <3>3. result' = [t \in Tasks |-> result'[t]]
      BY <2>2 DEF mark_current_results_stale
    <3> QED
      BY <3>2, <3>3
  <2> QED
    BY <2>1, <2>2
<1>3. TypeOK'
  BY <1>1, <1>2 DEF Inv, TypeOK, RowsGrounded, RequestsEnd
<1>0. \A a \in Apps : Live(a) => Live(a)'
  BY NoneIsNoRow DEF RowsGrounded, Live
<1>4. Loaded'
  <2> SUFFICES ASSUME NEW c \in Clients, req'[c] # None PROVE FromOpenRow(req[c])'
    BY DEF Loaded
  <2>1. req'[c] = req[c] /\ FromOpenRow(req[c]) /\ req[c] \in Handler
    BY DEF Inv, Loaded, TypeOK, RequestsEnd
  <2>2. req[c].op # "job" => req[c].app \in Apps
    BY <2>1, HandlerColumns
  <2> QED
    BY <1>0, <2>1, <2>2 DEF FromOpenRow
<1>5. PastScreening' /\ EndedIsClosed'
  <2>1. ASSUME NEW a \in Apps, Live(a)'
        PROVE  /\ app'[a].pipeline \in {"interviewing", "pending_offer"} => Interviewed(decisions', a)
               /\ app'[a].pipeline \in {"rejected", "talent_pool"}
                     => app'[a].status # "in_progress"
    BY <1>1, <2>1 DEF RowsGrounded, Grounded, Inv, PastScreening, EndedIsClosed, Live
  <2> QED
    BY <2>1 DEF PastScreening, EndedIsClosed
<1>6. \A a \in Apps : ResultsOf(a)' = ResultsOf(a)
  BY <1>2 DEF ResultsOf
<1>7. Reports'
  <2> SUFFICES ASSUME NEW t \in Tasks
               PROVE  /\ task'[t].status # "absent" =>
                            task'[t].app \in Apps /\ task'[t].version \in 1..MaxVersions
                      /\ result'[t] # None <=> task'[t].status = "succeeded"
                      /\ saving'[t] \notin {None, Lost} =>
                            /\ task'[t].status = "running"
                            /\ saving'[t] \subseteq ResultsOf(task[t].app)'
    BY DEF Reports
  <2>1. task'[t] = task[t] /\ saving'[t] = saving[t]
    OBVIOUS
  <2> QED
    BY <1>2, <1>6, <2>1 DEF Inv, Reports
<1>8. ScoreHistory'
  BY <1>2, <1>6, SameHistory DEF Inv
<1> QED
  BY <1>1, <1>3, <1>4, <1>5, <1>7, <1>8 DEF Inv

\* One row is written, in accord with the decisions.
LEMMA OneRow ==
    ASSUME Inv, NEW a \in Apps, NEW row \in AppRow, app' = [app EXCEPT ![a] = row],
           Grounded(decisions', a, row)
    PROVE  RowsGrounded
  BY DEF RowsGrounded, Inv, TypeOK

LEMMA DoneEnds ==
    ASSUME Inv, NEW c \in Clients, Done(c)
    PROVE  RequestsEnd
  BY DoneKeeps DEF Inv, RequestsEnd

LEMMA CandidateKeeps ==
    ASSUME Inv, NEW a \in Apps, NEW j \in Jobs, NEW started \in BOOLEAN,
           create_job_candidate(a, j, started)
    PROVE  Inv'
<1> DEFINE i   == IF job[j].current = 0 THEN 1 ELSE job[j].current
           new == create_application(j, i, started)
<1>1. i \in 1..MaxVersions
  <2>1. job[j].current \in 0..MaxVersions
    BY DEF Inv, TypeOK, JobRow
  <2> QED
    BY <2>1, BoundsAssumption
<1>2. new \in AppRow /\ Grounded(decisions, a, new)
  BY <1>1, AppColumns DEF Grounded
<1>3. /\ app' = [app EXCEPT ![a] = new]
      /\ UNCHANGED <<job, decisions, task, result, opened, req, saving>>
  BY DEF create_job_candidate
<1> HIDE DEF new
<1>4. RowsGrounded
  BY <1>2, <1>3, OneRow
<1>5. RequestsEnd
  BY <1>3 DEF Inv, TypeOK, RequestsEnd
<1> QED
  BY <1>3, <1>4, <1>5, AppStep

\* What a request that loaded an open row writes: the flush of columns that differ.
LEMMA FlushGrounded ==
    ASSUME Inv, NEW c \in Clients, req[c] # None, req[c].op # "job",
           NEW new \in AppRow
    PROVE  LET a == req[c].app IN
           /\ req[c] \in Handler /\ FromOpenRow(req[c]) /\ a \in Apps /\ Live(a)
           /\ req[c].row \in AppRow /\ app[a] \in AppRow
           /\ Flush(app[a], req[c].row, new) \in AppRow
           /\ new.pipeline = req[c].row.pipeline =>
                 Grounded(decisions, a, Flush(app[a], req[c].row, new))
<1> DEFINE a == req[c].app
           row == Flush(app[a], req[c].row, new)
<1>1. req[c] \in Handler /\ FromOpenRow(req[c])
  BY DEF Inv, TypeOK, Loaded
<1>2. a \in Apps /\ Live(a) /\ req[c].row \in AppRow
  BY <1>1, HandlerColumns DEF FromOpenRow
<1>3. app[a] \in AppRow /\ Grounded(decisions, a, app[a])
  BY <1>2, Rows
<1>4. row \in AppRow
  BY <1>2, <1>3, FlushColumns
<1>5. /\ row.status = (IF new.status = req[c].row.status THEN app[a].status ELSE new.status)
      /\ row.pipeline = (IF new.pipeline = req[c].row.pipeline THEN app[a].pipeline
                         ELSE new.pipeline)
  BY <1>2, <1>3, FlushColumns
<1>6. ASSUME new.pipeline = req[c].row.pipeline PROVE Grounded(decisions, a, row)
  <2>1. row.pipeline = app[a].pipeline /\ (app[a].status # "in_progress" => row.status # "in_progress")
    BY <1>1, <1>5, <1>6 DEF FromOpenRow
  <2> HIDE DEF row
  <2> QED
    BY <1>3, <2>1 DEF Grounded
<1> QED
  BY <1>1, <1>2, <1>3, <1>4, <1>6

LEMMA CommitCloseKeeps ==
    ASSUME Inv, NEW c \in Clients, CommitClose(c)
    PROVE  Inv'
<1> DEFINE r == req[c]
           a == r.app
           new == Closed(r.row, r.action, r.target)
           row == Flush(app[a], r.row, new)
           after == create_application(r.target, r.version, FALSE)
<1>1. /\ r # None /\ r.op = "close" /\ r \in Handler /\ Done(c)
      /\ UNCHANGED <<job, decisions, task, result, saving>>
  BY DEF CommitClose, Running, Inv, TypeOK
<1>2. /\ r.row \in AppRow /\ r.action \in Closing /\ r.target \in Jobs \cup {None}
  BY <1>1, HandlerColumns
<1>3. new \in AppRow /\ new.pipeline = r.row.pipeline
  BY <1>2, AppColumns
<1>4. /\ row \in AppRow /\ a \in Apps /\ Live(a) /\ Grounded(decisions, a, row) /\ FromOpenRow(r)
  <2> HIDE DEF new
  <2> QED
    BY <1>1, <1>3, FlushGrounded
<1>5. r.action = "transfer" => after \in AppRow /\ \A b \in Apps : Grounded(decisions, b, after)
  BY <1>1, <1>4, AppColumns DEF FromOpenRow, Grounded
<1>6. \/ app' = [app EXCEPT ![a] = row]
      \/ /\ r.action = "transfer"
         /\ \E b \in Apps : ~Live(b) /\ app' = [app EXCEPT ![a] = row, ![b] = after]
  BY DEF CommitClose
<1> HIDE DEF row, after, a, r
<1>7. RowsGrounded
  <2>1. CASE app' = [app EXCEPT ![a] = row]
    BY <1>1, <1>4, <2>1, OneRow
  <2>2. ASSUME NEW b \in Apps, r.action = "transfer", ~Live(b),
               app' = [app EXCEPT ![a] = row, ![b] = after]
        PROVE  RowsGrounded
    <3> DEFINE mid == [app EXCEPT ![a] = row]
    <3>0. /\ mid \in [Apps -> AppRow \cup {None}] /\ app' = [mid EXCEPT ![b] = after]
          /\ mid[a] = row /\ \A d \in Apps : d # a => mid[d] = app[d]
      BY <1>4, <2>2 DEF Inv, TypeOK
    <3> HIDE DEF mid
    <3>1. app' \in [Apps -> AppRow \cup {None}]
      BY <1>5, <2>2, <3>0
    <3>2. ASSUME NEW d \in Apps
          PROVE  app'[d] = app[d] \/ (app'[d] \in AppRow /\ Grounded(decisions', d, app'[d]))
      <4>1. CASE d = b
        BY <1>1, <1>5, <2>2, <3>0, <4>1
      <4>2. CASE d # b /\ d = a
        BY <1>1, <1>4, <3>0, <4>2
      <4>3. CASE d # b /\ d # a
        BY <3>0, <4>3
      <4> QED
        BY <4>1, <4>2, <4>3
    <3> QED
      BY <3>1, <3>2 DEF RowsGrounded
  <2> QED
    BY <1>6, <2>1, <2>2
<1> QED
  BY <1>1, <1>7, DoneEnds, AppStep

LEMMA CommitMigrateKeeps ==
    ASSUME Inv, NEW c \in Clients, CommitMigrate(c)
    PROVE  Inv'
<1> DEFINE r == req[c]
           a == r.app
           new == Migrated(r.row, r.version)
           row == Flush(app[a], r.row, new)
<1>1. /\ r # None /\ r.op = "migrate" /\ r \in Handler /\ Done(c)
      /\ UNCHANGED <<job, decisions, task, saving>>
      /\ app' = [app EXCEPT ![a] = row] /\ mark_current_results_stale(a)
  BY DEF CommitMigrate, Running, Inv, TypeOK
<1>2. r.row \in AppRow /\ r.version \in 1..MaxVersions
  BY <1>1, HandlerColumns
<1>3. new \in AppRow /\ new.pipeline = r.row.pipeline
  BY <1>2, AppColumns
<1>4. /\ row \in AppRow /\ a \in Apps /\ Live(a) /\ Grounded(decisions, a, row)
  <2> HIDE DEF new
  <2> QED
    BY <1>1, <1>3, FlushGrounded
<1> HIDE DEF row
<1>5. RowsGrounded
  BY <1>1, <1>4, OneRow
<1> QED
  BY <1>1, <1>4, <1>5, DoneEnds, AppStep

LEMMA CommitScreeningKeeps ==
    ASSUME Inv, NEW c \in Clients, CommitScreening(c)
    PROVE  Inv'
<1> DEFINE r == req[c]
           a == r.app
           new == Screened(r.row, r.what)
           row == Flush(app[a], r.row, new)
           d == [app |-> a, kind |-> "screening", what |-> r.what, at |-> r.row.lock,
                 key |-> r.key]
<1>1. /\ r # None /\ r.op = "screen" /\ r \in Handler /\ Done(c)
      /\ UNCHANGED <<job, task, result, saving>>
      /\ app' = [app EXCEPT ![a] = row] /\ decisions' = Append(decisions, d)
  BY DEF CommitScreening, Record, Running, Inv, TypeOK
<1>2. r.row \in AppRow /\ r.what \in Screening /\ r.key \in Keys \cup {None}
  BY <1>1, HandlerColumns
<1>3. /\ new \in AppRow /\ new.pipeline = ScreeningTarget[r.what]
      /\ new.status = (IF r.what = "reject" THEN "rejected"
                       ELSE IF r.what = "talent_pool" THEN "terminated" ELSE r.row.status)
  BY <1>2, AppColumns
<1>4. /\ row \in AppRow /\ a \in Apps /\ Live(a) /\ app[a] \in AppRow /\ FromOpenRow(r)
  <2> HIDE DEF new
  <2> QED
    BY <1>1, <1>3, FlushGrounded
<1>5. /\ row.status = (IF new.status = r.row.status THEN app[a].status ELSE new.status)
      /\ row.pipeline = (IF new.pipeline = r.row.pipeline THEN app[a].pipeline ELSE new.pipeline)
  <2> HIDE DEF new
  <2> QED
    BY <1>2, <1>3, <1>4, FlushColumns
<1>6. d \in Decision /\ d.kind = "screening" /\ d.what = r.what /\ d.app = a
  BY <1>2, <1>4, AppColumns DEF Decision
<1>7. /\ \A b \in Apps : Interviewed(decisions, b) => Interviewed(decisions', b)
      /\ r.what = "enter_interview" => Interviewed(decisions', a)
  <2> HIDE DEF d
  <2> QED
    BY <1>1, <1>6, DecisionsGrow
<1>8. Grounded(decisions, a, app[a])
  BY <1>4, Rows
<1>9. Grounded(decisions', a, row)
  <2> HIDE DEF row, new, d, a
  <2>1. CASE r.what = "enter_interview"
    <3>1. new.pipeline = "interviewing" /\ Interviewed(decisions', a)
      BY <1>3, <1>7, <2>1 DEF ScreeningTarget
    <3>2. row.status = app[a].status
      BY <1>3, <1>5, <2>1
    <3> QED
      BY <1>4, <1>5, <1>8, <3>1, <3>2 DEF Grounded
  <2>2. CASE r.what = "hold"
    <3>1. new.pipeline = "pending_hr_screen" /\ row.status = app[a].status
      BY <1>3, <1>5, <2>2 DEF ScreeningTarget
    <3> QED
      BY <1>4, <1>5, <1>7, <1>8, <3>1 DEF Grounded
  <2>3. CASE r.what \in {"reject", "talent_pool"}
    <3>1. new.pipeline \in {"rejected", "talent_pool"} /\ new.status \in {"rejected", "terminated"}
      BY <1>3, <2>3 DEF ScreeningTarget
    <3>2. r.row.status = "in_progress" /\ r.row.pipeline \notin {"rejected", "talent_pool"}
      BY <1>1, <1>4 DEF FromOpenRow
    <3> QED
      BY <1>5, <3>1, <3>2 DEF Grounded
  <2> QED
    BY <1>2, <2>1, <2>2, <2>3 DEF Screening
<1> HIDE DEF row, d
<1>10. RowsGrounded
  BY <1>1, <1>4, <1>9, OneRow
<1> QED
  BY <1>1, <1>6, <1>10, DoneEnds, AppStep

LEMMA HiringKeeps ==
    ASSUME Inv, NEW a \in Apps, NEW what \in Hiring, NEW k \in Keys \cup {None},
           create_hiring_decision(a, what, k)
    PROVE  Inv'
<1> DEFINE row == Hired(app[a], what)
           d == [app |-> a, kind |-> "hiring", what |-> what, at |-> app[a].lock, key |-> k]
<1>1. /\ Live(a) /\ app[a].status = "in_progress" /\ app[a].pipeline = "interviewing"
      /\ UNCHANGED <<job, task, result, opened, req, saving>>
      /\ app' = [app EXCEPT ![a] = row] /\ decisions' = Append(decisions, d)
  BY DEF create_hiring_decision, CanHire, Record
<1>2. app[a] \in AppRow /\ Interviewed(decisions, a)
  BY <1>1, Rows DEF Grounded
<1>3. /\ row \in AppRow /\ row.pipeline = HiringTarget[what]
      /\ row.status = (IF what = "reject" THEN "rejected" ELSE app[a].status)
  BY <1>2, AppColumns
<1>4. d \in Decision /\ d.kind = "hiring" /\ d.app = a
  BY <1>2, AppColumns DEF Decision
<1> HIDE DEF row, d
<1>5. Interviewed(decisions', a)
  BY <1>1, <1>2, <1>4, DecisionsGrow
<1>6. Grounded(decisions', a, row)
  BY <1>3, <1>5 DEF Grounded, HiringTarget, Hiring
<1>7. RowsGrounded
  BY <1>1, <1>3, <1>6, OneRow
<1>8. RequestsEnd
  BY <1>1 DEF RequestsEnd, Inv, TypeOK
<1> QED
  BY <1>1, <1>2, <1>4, <1>7, <1>8, AppStep

LEMMA CommitJobKeeps ==
    ASSUME Inv, NEW c \in Clients, CommitJob(c)
    PROVE  Inv'
<1>1. /\ req[c].op = "job" /\ req[c] \in Handler /\ Done(c)
      /\ UNCHANGED <<app, decisions, task, result, saving>>
  BY DEF CommitJob, Running, Inv, TypeOK
<1>2. req[c].job \in Jobs /\ req[c].row \in JobRow /\ req[c].new \in JobRow
  BY <1>1, HandlerColumns
<1>3. job' \in [Jobs -> JobRow]
  <2>1. Flush(job[req[c].job], req[c].row, req[c].new) \in JobRow
    BY <1>2, JobFlush DEF Inv, TypeOK
  <2> QED
    BY <1>2, <2>1 DEF CommitJob, Inv, TypeOK
<1>4. RequestsEnd
  BY <1>1, DoneEnds
<1>5. TypeOK'
  BY <1>1, <1>3, <1>4 DEF Inv, TypeOK, RequestsEnd
<1>6. Loaded'
  BY <1>1, <1>4 DEF Inv, Loaded, FromOpenRow, Live, RequestsEnd
<1>7. PastScreening' /\ HireAfterInterview' /\ EndedIsClosed'
  BY <1>1 DEF Inv, PastScreening, HireAfterInterview, EndedIsClosed, Live
<1>8. \A a \in Apps : ResultsOf(a)' = ResultsOf(a)
  BY <1>1 DEF ResultsOf
<1>9. Reports' /\ ScoreHistory'
  <2>1. Reports'
    BY <1>1 DEF Inv, Reports, ResultsOf
  <2>2. ScoreHistory'
    BY <1>1, <1>8, SameHistory DEF Inv
  <2> QED
    BY <2>1, <2>2
<1> QED
  BY <1>5, <1>6, <1>7, <1>9 DEF Inv
-----------------------------------------------------------------------------
(* Score tasks. *)

\* A step that writes one task row and no report leaves the histories alone.
LEMMA OneTask ==
    ASSUME Inv, NEW u \in Tasks, UNCHANGED <<job, app, decisions, result>>, RequestsEnd,
           task' \in [Tasks -> TaskRow], saving' \in [Tasks -> {None, Lost} \cup SUBSET Tasks],
           \A t \in Tasks : t # u => task'[t] = task[t] /\ saving'[t] = saving[t],
           result[u] # None => task'[u].app = task[u].app,
           task'[u].status # "absent" =>
              task'[u].app \in Apps /\ task'[u].version \in 1..MaxVersions,
           result[u] # None <=> task'[u].status = "succeeded",
           saving'[u] \notin {None, Lost} => /\ task'[u].status = "running"
                                             /\ saving'[u] \subseteq ResultsOf(task'[u].app)
    PROVE  Inv'
<1>1. TypeOK'
  BY DEF Inv, TypeOK, RequestsEnd
<1>2. Loaded'
  BY DEF Inv, Loaded, FromOpenRow, Live, RequestsEnd
<1>3. PastScreening' /\ HireAfterInterview' /\ EndedIsClosed'
  BY DEF Inv, PastScreening, HireAfterInterview, EndedIsClosed, Live
<1>4. \A a \in Apps : ResultsOf(a)' = ResultsOf(a)
  BY DEF ResultsOf
<1>5. Reports'
  <2> SUFFICES ASSUME NEW t \in Tasks
               PROVE  /\ task'[t].status # "absent" =>
                            task'[t].app \in Apps /\ task'[t].version \in 1..MaxVersions
                      /\ result'[t] # None <=> task'[t].status = "succeeded"
                      /\ saving'[t] \notin {None, Lost} =>
                            /\ task'[t].status = "running"
                            /\ saving'[t] \subseteq ResultsOf(task[t].app)'
    BY DEF Reports
  <2>1. CASE t = u
    BY <1>4, <2>1
  <2>2. CASE t # u
    BY <1>4, <2>2 DEF Inv, Reports
  <2> QED
    BY <2>1, <2>2
<1>6. ScoreHistory'
  BY <1>4, SameHistory DEF Inv
<1> QED
  BY <1>1, <1>2, <1>3, <1>5, <1>6 DEF Inv

LEMMA CommitScoreTaskKeeps ==
    ASSUME Inv, NEW c \in Clients, CommitScoreTask(c)
    PROVE  Inv'
<1> DEFINE r == req[c]
           row == [app |-> r.app, version |-> r.row.version, key |-> r.key, status |-> "pending"]
<1>1. /\ r # None /\ r.op = "score" /\ r \in Handler /\ Done(c)
      /\ UNCHANGED <<job, app, decisions, result, saving>>
  BY DEF CommitScoreTask, Running, Inv, TypeOK
<1>2. PICK t \in Tasks : task[t] = AbsentTask /\ task' = [task EXCEPT ![t] = row]
  BY DEF CommitScoreTask
<1>3. r.app \in Apps /\ r.row.version \in 1..MaxVersions /\ r.key \in Keys \cup {None}
  <2>1. r.app \in Apps /\ r.row \in AppRow /\ r.key \in Keys \cup {None}
    BY <1>1, HandlerColumns
  <2> QED
    BY <2>1, AppColumns
<1>4. row \in TaskRow /\ row.status = "pending" /\ row.app = r.app /\ row.version = r.row.version
  BY <1>3, BoundsAssumption DEF TaskRow, TaskStatuses
<1> HIDE DEF row, r
<1>5. /\ task' \in [Tasks -> TaskRow] /\ task'[t] = row
      /\ \A u \in Tasks : u # t => task'[u] = task[u] /\ saving'[u] = saving[u]
  BY <1>1, <1>2, <1>4 DEF Inv, TypeOK
<1>6. task[t].status = "absent"
  BY <1>2, TaskColumns
<1>7. result[t] = None /\ saving'[t] \in {None, Lost}
  BY <1>1, <1>6 DEF Inv, Reports
<1>8. RequestsEnd
  BY <1>1, DoneEnds
<1>9. saving' \in [Tasks -> {None, Lost} \cup SUBSET Tasks]
  BY <1>1 DEF Inv, TypeOK
<1> QED
  BY <1>1, <1>3, <1>4, <1>5, <1>7, <1>8, <1>9, OneTask

LEMMA MoveTaskKeeps ==
    ASSUME Inv, NEW t \in Tasks, NEW from \in {"pending", "failed"},
           NEW to \in {"running", "cancelled", "pending"}, MoveTask(t, from, to)
    PROVE  Inv'
<1> DEFINE row == TaskStatus(task[t], to)
<1>1. /\ task[t].status = from /\ task' = [task EXCEPT ![t] = row]
      /\ UNCHANGED <<job, app, decisions, result, opened, req, saving>>
  BY DEF MoveTask
<1>2. task[t] \in TaskRow
  BY DEF Inv, TypeOK
<1>3. /\ row \in TaskRow /\ row.status = to
      /\ row.app = task[t].app /\ row.version = task[t].version
  BY <1>2, TaskColumns DEF TaskStatuses
<1> HIDE DEF row
<1>4. /\ task' \in [Tasks -> TaskRow] /\ task'[t] = row
      /\ \A u \in Tasks : u # t => task'[u] = task[u] /\ saving'[u] = saving[u]
  BY <1>1, <1>3 DEF Inv, TypeOK
<1>5. /\ task[t].app \in Apps /\ task[t].version \in 1..MaxVersions
      /\ result[t] = None /\ saving'[t] \in {None, Lost}
  BY <1>1 DEF Inv, Reports
<1>6. RequestsEnd
  BY <1>1 DEF RequestsEnd, Inv, TypeOK
<1>7. saving' \in [Tasks -> {None, Lost} \cup SUBSET Tasks]
  BY <1>1 DEF Inv, TypeOK
<1> QED
  BY <1>1, <1>3, <1>4, <1>5, <1>6, <1>7, OneTask

LEMMA FailTaskKeeps ==
    ASSUME Inv, NEW t \in Tasks, FailTask(t)
    PROVE  Inv'
<1> DEFINE row == TaskStatus(task[t], "failed")
<1>1. /\ task[t].status = "running" /\ task' = [task EXCEPT ![t] = row]
      /\ saving' = [saving EXCEPT ![t] = None]
      /\ UNCHANGED <<job, app, decisions, result, opened, req>>
  BY DEF FailTask
<1>2. task[t] \in TaskRow
  BY DEF Inv, TypeOK
<1>3. /\ row \in TaskRow /\ row.status = "failed"
      /\ row.app = task[t].app /\ row.version = task[t].version
  BY <1>2, TaskColumns DEF TaskStatuses
<1> HIDE DEF row
<1>4. /\ task' \in [Tasks -> TaskRow] /\ task'[t] = row /\ saving'[t] = None
      /\ saving' \in [Tasks -> {None, Lost} \cup SUBSET Tasks]
      /\ \A u \in Tasks : u # t => task'[u] = task[u] /\ saving'[u] = saving[u]
  BY <1>1, <1>3 DEF Inv, TypeOK
<1>5. task[t].app \in Apps /\ task[t].version \in 1..MaxVersions /\ result[t] = None
  BY <1>1 DEF Inv, Reports
<1>6. RequestsEnd
  BY <1>1 DEF RequestsEnd, Inv, TypeOK
<1> QED
  BY <1>1, <1>3, <1>4, <1>5, <1>6, OneTask

LEMMA MarkKeeps ==
    ASSUME Inv, NEW t \in Tasks, mark_previous_results_not_current(t) \/ RollBackScore(t)
    PROVE  Inv'
<1>1. UNCHANGED <<job, app, decisions, task, result, opened, req>>
  BY DEF mark_previous_results_not_current, RollBackScore
<1>2. current_results(task[t].app) \subseteq ResultsOf(task[t].app)
      /\ ResultsOf(task[t].app) \subseteq Tasks
  BY DEF current_results, ResultsOf
<1>3. PICK marks \in {Lost} \cup SUBSET ResultsOf(task[t].app) :
         saving' = [saving EXCEPT ![t] = marks]
  BY <1>2 DEF mark_previous_results_not_current, RollBackScore
<1>4. /\ saving'[t] = marks /\ saving' \in [Tasks -> {None, Lost} \cup SUBSET Tasks]
      /\ \A u \in Tasks : u # t => saving'[u] = saving[u]
  BY <1>2, <1>3 DEF Inv, TypeOK
<1>5. task[t].status = "running"
  BY DEF mark_previous_results_not_current, RollBackScore, Inv, Reports
<1>6. RequestsEnd /\ task' \in [Tasks -> TaskRow]
  BY <1>1 DEF RequestsEnd, Inv, TypeOK
<1>7. /\ task[t].app \in Apps /\ task[t].version \in 1..MaxVersions /\ result[t] = None
  BY <1>5 DEF Inv, Reports
<1>8. saving'[t] \notin {None, Lost} => saving'[t] \subseteq ResultsOf(task'[t].app)
  BY <1>1, <1>3, <1>4
<1> QED
  BY <1>1, <1>4, <1>5, <1>6, <1>7, <1>8, OneTask

\* The new report is the last one, and the only current one, because the index lets it
\* in only when its worker has marked every row that is current at the commit.
LEMMA CommitScoreKeeps ==
    ASSUME Inv, NEW t \in Tasks, CommitScore(t)
    PROVE  Inv'
<1>0. PICK a : a = task[t].app
  OBVIOUS
<1> DEFINE old == ResultsOf(a)
           n == Cardinality(old)
           new == NewResult(t)
           row == TaskStatus(task[t], "succeeded")
<1>1. /\ saving[t] \notin {None, Lost} /\ current_results(a) \subseteq saving[t]
      /\ result' = [u \in Tasks |-> IF u = t THEN new
                                    ELSE IF u \in saving[t] THEN PreviousResult(result[u])
                                    ELSE result[u]]
      /\ task' = [task EXCEPT ![t] = row]
      /\ saving' = [saving EXCEPT ![t] = None]
      /\ UNCHANGED <<job, app, decisions, opened, req>>
  BY <1>0 DEF CommitScore, OneCurrentRow
<1>2. /\ task[t].status = "running" /\ saving[t] \subseteq old /\ old \subseteq Tasks
      /\ a \in Apps /\ task[t].version \in 1..MaxVersions /\ result[t] = None
  <2>1. task[t].status = "running" /\ saving[t] \subseteq old
    BY <1>0, <1>1 DEF Inv, Reports
  <2>2. a \in Apps /\ task[t].version \in 1..MaxVersions /\ result[t] = None
    BY <1>0, <2>1 DEF Inv, Reports
  <2> QED
    BY <2>1, <2>2 DEF ResultsOf
<1>3. IsFiniteSet(old) /\ n \in Nat /\ t \notin old
  <2>1. IsFiniteSet(old)
    BY <1>2, FS_Subset, TasksAssumption
  <2> QED
    BY <1>2, <2>1, FS_CardinalityType DEF ResultsOf
<1>4. /\ new \in ResultRow /\ new.label = n + 1 /\ new.is_current
  BY <1>0, <1>2, <1>3 DEF NewResult, ResultRow, count_ai_results_for_application
<1>5. /\ row \in TaskRow /\ row.status = "succeeded"
      /\ row.app = a /\ row.version = task[t].version
  BY <1>0, TaskColumns DEF Inv, TypeOK, TaskStatuses
<1> HIDE DEF new, row
<1>6. ASSUME NEW u \in Tasks, u # t
      PROVE  /\ result'[u] \in ResultRow \cup {None} /\ (result'[u] # None <=> result[u] # None)
             /\ result[u] # None => result'[u].label = result[u].label
             /\ task'[u] = task[u] /\ saving'[u] = saving[u]
             /\ u \in saving[t] => ~result'[u].is_current
             /\ u \notin saving[t] => result'[u] = result[u]
  <2>1. task'[u] = task[u] /\ saving'[u] = saving[u]
    BY <1>1, <1>6 DEF Inv, TypeOK
  <2>2. result[u] \in ResultRow \cup {None}
    BY DEF Inv, TypeOK
  <2>3. CASE u \in saving[t]
    <3>1. result[u] \in ResultRow
      BY <1>2, <2>2, <2>3 DEF ResultsOf
    <3>2. result'[u] = PreviousResult(result[u])
      BY <1>1, <1>6, <2>3
    <3> QED
      BY <2>1, <2>3, <3>1, <3>2, TaskColumns, NoneIsNoRow
  <2>4. CASE u \notin saving[t]
    <3>1. result'[u] = result[u]
      BY <1>1, <1>6, <2>4
    <3> QED
      BY <2>1, <2>2, <2>4, <3>1
  <2> QED
    BY <2>3, <2>4
<1>7. result'[t] = new /\ result'[t] # None /\ task'[t] = row /\ saving'[t] = None
  BY <1>1, <1>4, NoneIsNoRow DEF Inv, TypeOK
<1>8. TypeOK'
  <2>1. result' \in [Tasks -> ResultRow \cup {None}]
    <3>1. \A u \in Tasks : result'[u] \in ResultRow \cup {None}
      BY <1>4, <1>6, <1>7
    <3>2. result' = [u \in Tasks |-> result'[u]]
      BY <1>1
    <3> QED
      BY <3>1, <3>2
  <2>2. task' \in [Tasks -> TaskRow] /\ saving' \in [Tasks -> {None, Lost} \cup SUBSET Tasks]
    BY <1>1, <1>5 DEF Inv, TypeOK
  <2> QED
    BY <1>1, <2>1, <2>2 DEF Inv, TypeOK
<1>9. Loaded' /\ PastScreening' /\ HireAfterInterview' /\ EndedIsClosed'
  <2>1. Loaded'
    BY <1>1 DEF Inv, Loaded, FromOpenRow, Live
  <2>2. PastScreening' /\ HireAfterInterview' /\ EndedIsClosed'
    BY <1>1 DEF Inv, PastScreening, HireAfterInterview, EndedIsClosed, Live
  <2> QED
    BY <2>1, <2>2
<1>10. /\ ResultsOf(a)' = old \cup {t}
       /\ \A b \in Apps : b # a => ResultsOf(b)' = ResultsOf(b)
  BY <1>0, <1>2, <1>5, <1>6, <1>7 DEF ResultsOf
<1>11. Reports'
  <2> SUFFICES ASSUME NEW u \in Tasks
               PROVE  /\ task'[u].status # "absent" =>
                            task'[u].app \in Apps /\ task'[u].version \in 1..MaxVersions
                      /\ result'[u] # None <=> task'[u].status = "succeeded"
                      /\ saving'[u] \notin {None, Lost} =>
                            /\ task'[u].status = "running"
                            /\ saving'[u] \subseteq ResultsOf(task[u].app)'
    BY DEF Reports
  <2>1. CASE u = t
    BY <1>2, <1>5, <1>7, <2>1
  <2>2. CASE u # t
    <3>1. task'[u] = task[u] /\ saving'[u] = saving[u] /\ (result'[u] # None <=> result[u] # None)
      BY <1>6, <2>2
    <3>2. ASSUME saving[u] \notin {None, Lost}
          PROVE  task[u].status = "running" /\ saving[u] \subseteq ResultsOf(task[u].app)'
      <4>1. task[u].status = "running" /\ saving[u] \subseteq ResultsOf(task[u].app)
        BY <3>2 DEF Inv, Reports
      <4>2. ASSUME NEW v \in saving[u] PROVE v \in ResultsOf(task[u].app)'
        BY <1>2, <1>6, <3>1, <4>1 DEF ResultsOf
      <4> QED
        BY <4>1, <4>2
    <3> QED
      BY <3>1, <3>2 DEF Inv, Reports
  <2> QED
    BY <2>1, <2>2
<1>12. ScoreHistory'
  <2> SUFFICES ASSUME NEW b \in Apps
               PROVE  LET m == Cardinality(ResultsOf(b)') IN
                      /\ get_score_history(b)' = 1..m
                      /\ get_score_report(b)' = IF m = 0 THEN {} ELSE {m}
    BY DEF ScoreHistory, count_ai_results_for_application
  <2>1. CASE b = a
    <3>1. Cardinality(ResultsOf(b)') = n + 1
      BY <1>3, <1>10, <2>1, FS_AddElement
    <3>2. get_score_history(b)' = 1..(n + 1)
      <4>1. get_score_history(b) = {result[u].label : u \in old} /\ get_score_history(b) = 1..n
        BY <2>1 DEF get_score_history, Inv, ScoreHistory, count_ai_results_for_application
      <4>2. \A u \in old : result'[u].label = result[u].label
        BY <1>2, <1>3, <1>6 DEF ResultsOf
      <4>3. get_score_history(b)' = {result'[u].label : u \in old \cup {t}}
        BY <1>10, <2>1 DEF get_score_history
      <4>4. {result'[u].label : u \in old \cup {t}} = {result[u].label : u \in old} \cup {n + 1}
        <5> HIDE DEF old, n
        <5> QED
          BY <1>4, <1>7, <4>2
      <4>5. 1..(n + 1) = 1..n \cup {n + 1}
        <5> HIDE DEF n
        <5> QED
          BY <1>3
      <4> HIDE DEF n, old
      <4> QED
        BY <4>1, <4>3, <4>4, <4>5
    <3>3. get_score_report(b)' = {n + 1}
      <4>1. current_results(b)' = {t}
        <5>1. \A u \in old : ~result'[u].is_current
          BY <1>1, <1>2, <1>3, <1>6 DEF current_results
        <5> QED
          BY <1>4, <1>7, <1>10, <2>1, <5>1 DEF current_results
      <4> QED
        BY <1>4, <1>7, <4>1 DEF get_score_report
    <3> HIDE DEF n
    <3> QED
      BY <1>3, <3>1, <3>2, <3>3
  <2>2. CASE b # a
    <3>1. ResultsOf(b)' = ResultsOf(b)
      BY <1>10, <2>2
    <3>2. \A u \in ResultsOf(b) : result'[u] = result[u]
      BY <1>2, <1>6, <2>2 DEF ResultsOf
    <3>3. /\ current_results(b)' = current_results(b)
          /\ \A u \in current_results(b) : result'[u] = result[u]
      BY <3>1, <3>2 DEF current_results
    <3>4. get_score_history(b)' = get_score_history(b) /\ get_score_report(b)' = get_score_report(b)
      BY <3>1, <3>2, <3>3 DEF get_score_history, get_score_report
    <3> QED
      BY <3>1, <3>4 DEF Inv, ScoreHistory, count_ai_results_for_application
  <2> QED
    BY <2>1, <2>2
<1> QED
  BY <1>8, <1>9, <1>11, <1>12 DEF Inv
-----------------------------------------------------------------------------
(* The invariant. *)

LEMMA InitInv == Init => Inv
<1> SUFFICES ASSUME Init PROVE Inv
  OBVIOUS
<1>1. \A j \in Jobs : job[j] \in JobRow
  <2>1. 0 \in 0..MaxVersions /\ 1 \in 0..MaxVersions
    BY BoundsAssumption
  <2>2. \A j \in Jobs : job[j] \in {[status |-> "draft", current |-> 0], [status |-> "open", current |-> 1]}
    BY DEF Init
  <2> QED
    BY <2>1, <2>2 DEF JobRow
<1>2. TypeOK
  BY <1>1, TaskColumns, BoundsAssumption DEF Init, TypeOK
<1>3. \A a \in Apps : ResultsOf(a) = {} /\ current_results(a) = {}
  BY DEF Init, ResultsOf, current_results
<1>4. ScoreHistory
  BY <1>3, FS_EmptySet DEF ScoreHistory, count_ai_results_for_application, get_score_history,
     get_score_report
<1>5. Reports
  BY TaskColumns DEF Init, Reports
<1>6. Loaded /\ PastScreening /\ HireAfterInterview /\ EndedIsClosed
  BY DEF Init, Loaded, PastScreening, HireAfterInterview, EndedIsClosed, Live
<1> QED
  BY <1>2, <1>4, <1>5, <1>6 DEF Inv

LEMMA NextInv == Inv /\ [Next]_vars => Inv'
<1> SUFFICES ASSUME Inv, [Next]_vars PROVE Inv'
  OBVIOUS
<1>1. ASSUME NEW c \in Clients, JobStep(c) PROVE Inv'
  <2>1. ASSUME NEW j \in Jobs,
               publish_job(c, j) \/ pause_job(c, j) \/ resume_job(c, j) \/ close_job(c, j)
        PROVE  Inv'
    BY <2>1, JobEditLoads
  <2> QED
    BY <1>1, <2>1, CommitJobKeeps DEF JobStep
<1>2. ASSUME NEW c \in Clients, ApplicationStep(c) PROVE Inv'
  <2>1. ASSUME NEW a \in Apps,
               \/ \E action \in Closing, j \in Jobs \cup {None} :
                     resolve_close_application(c, a, action, j)
               \/ migrate_application_version(c, a)
               \/ \E what \in Screening, k \in Keys \cup {None} :
                     create_screening_decision(c, a, what, k)
               \/ \E k \in Keys \cup {None} : create_resume_score_task(c, a, k)
        PROVE  Inv'
    BY <2>1, ApplicationLoads
  <2> QED
    BY <1>2, <2>1, CommitCloseKeeps, CommitMigrateKeeps, CommitScreeningKeeps,
       CommitScoreTaskKeeps, AbandonKeeps DEF ApplicationStep
<1>3. ASSUME NEW a \in Apps, NEW j \in Jobs, NEW started \in BOOLEAN,
             create_job_candidate(a, j, started)
      PROVE  Inv'
  BY <1>3, CandidateKeeps
<1>4. ASSUME NEW a \in Apps, NEW what \in Hiring, NEW k \in Keys \cup {None},
             create_hiring_decision(a, what, k)
      PROVE  Inv'
  BY <1>4, HiringKeeps
<1>5. ASSUME NEW t \in Tasks, TaskStep(t) PROVE Inv'
  <2>1. CASE ClaimTask(t) \/ cancel_ai_task(t) \/ retry_ai_task(t)
    BY <2>1, MoveTaskKeeps DEF ClaimTask, cancel_ai_task, retry_ai_task
  <2> QED
    BY <1>5, <2>1, FailTaskKeeps, MarkKeeps, CommitScoreKeeps DEF TaskStep
<1>6. CASE UNCHANGED vars
  <2>1. req' \in [Clients -> Handler \cup {None}] /\ opened' \in 0..MaxRequests
    BY <1>6 DEF vars, Inv, TypeOK
  <2>2. UNCHANGED <<job, app, decisions, task, result, saving>>
    BY <1>6 DEF vars
  <2>3. \A d \in Clients : req'[d] = req[d]
    BY <1>6 DEF vars
  <2> QED
    BY <2>1, <2>2, <2>3, RequestsOnly
<1> QED
  BY <1>1, <1>2, <1>3, <1>4, <1>5, <1>6 DEF Next

\* The invariant holds in every state that requests and workers can reach.
THEOREM Invariance == Spec => []Inv
  BY InitInv, NextInv, PTL DEF Spec

\* The tables and the requests keep their shape.
THEOREM TypeCorrect == Spec => []TypeOK
<1>1. Inv => TypeOK
  BY DEF Inv
<1> QED
  BY <1>1, Invariance, PTL

\* The reports of an application are numbered without a gap and the last one is shown,
\* for any number of workers that count and mark without a lock.
THEOREM HistoryNumbered == Spec => []ScoreHistory
<1>1. Inv => ScoreHistory
  BY DEF Inv
<1> QED
  BY <1>1, Invariance, PTL

\* No hiring decision without a screening that sent the candidate to the interviews.
THEOREM HiredAfterInterview == Spec => []HireAfterInterview
<1>1. Inv => HireAfterInterview
  BY DEF Inv
<1> QED
  BY <1>1, Invariance, PTL

\* A rejected or pooled candidate's application is closed, whatever commits late.
THEOREM EndedClosed == Spec => []EndedIsClosed
<1>1. Inv => EndedIsClosed
  BY DEF Inv
<1> QED
  BY <1>1, Invariance, PTL

-----------------------------------------------------------------------------
(* Closed applications. *)

\* A request that loaded an open row cannot write "in_progress" over another status:
\* it writes the status only when it changed it, and then to a closed one.
LEMMA FlushKeepsClosed ==
    ASSUME NEW db \in AppRow, NEW loaded \in AppRow, NEW new \in AppRow,
           loaded.status = "in_progress", db.status # "in_progress"
    PROVE  Flush(db, loaded, new).status # "in_progress"
  BY FlushColumns

\* No step of the system reopens an application.
THEOREM ClosedStaysClosed == Spec => ClosedForGood
<1>1. ASSUME Inv, [Next]_vars, NEW a \in Apps, Live(a), app[a].status # "in_progress"
      PROVE  app'[a] # None /\ app'[a].status # "in_progress"
  <2>0. app[a] \in AppRow
    BY <1>1, Rows
  <2>1. CASE app'[a] = app[a]
    BY <1>1, <2>1 DEF Live
  <2>2. ASSUME NEW c \in Clients, NEW new \in AppRow, req[c] # None, req[c].op # "job",
               req[c].app = a, app'[a] = Flush(app[a], req[c].row, new)
        PROVE  app'[a] # None /\ app'[a].status # "in_progress"
    <3>1. req[c].row \in AppRow /\ FromOpenRow(req[c]) /\ app'[a] \in AppRow
      BY <1>1, <2>2, FlushGrounded
    <3>2. req[c].row.status = "in_progress"
      BY <2>2, <3>1 DEF FromOpenRow
    <3>3. app'[a] # None
      BY <3>1, NoneIsNoRow
    <3> QED
      BY <1>1, <2>0, <2>2, <3>1, <3>2, <3>3, FlushKeepsClosed
  <2>3. ASSUME NEW c \in Clients, CommitClose(c)
        PROVE  app'[a] # None /\ app'[a].status # "in_progress"
    <3> DEFINE r == req[c]
               new == Closed(r.row, r.action, r.target)
               row == Flush(app[r.app], r.row, new)
    <3>1. r # None /\ r.op = "close" /\ r \in Handler
      BY <1>1, <2>3 DEF CommitClose, Running, Inv, TypeOK
    <3>2. new \in AppRow
      <4>1. r.row \in AppRow /\ r.action \in Closing /\ r.target \in Jobs \cup {None}
        BY <3>1, HandlerColumns
      <4> QED
        BY <4>1, AppColumns
    <3>3. app'[a] = app[a] \/ (r.app = a /\ app'[a] = row)
      <4>1. \/ app' = [app EXCEPT ![r.app] = row]
            \/ \E b \in Apps : /\ ~Live(b)
                               /\ app' = [app EXCEPT ![r.app] = row,
                                         ![b] = create_application(r.target, r.version, FALSE)]
        BY <2>3 DEF CommitClose
      <4> HIDE DEF row
      <4> QED
        BY <1>1, <4>1 DEF Inv, TypeOK
    <3> HIDE DEF new
    <3> QED
      BY <2>1, <2>2, <3>1, <3>2, <3>3
  <2>4. ASSUME NEW c \in Clients, CommitMigrate(c)
        PROVE  app'[a] # None /\ app'[a].status # "in_progress"
    <3> DEFINE r == req[c]
               new == Migrated(r.row, r.version)
               row == Flush(app[r.app], r.row, new)
    <3>1. r # None /\ r.op = "migrate" /\ r \in Handler /\ app' = [app EXCEPT ![r.app] = row]
      BY <1>1, <2>4 DEF CommitMigrate, Running, Inv, TypeOK
    <3>2. new \in AppRow
      <4>1. r.row \in AppRow /\ r.version \in 1..MaxVersions
        BY <3>1, HandlerColumns
      <4> QED
        BY <4>1, AppColumns
    <3>3. app'[a] = app[a] \/ (r.app = a /\ app'[a] = row)
      <4> HIDE DEF row
      <4> QED
        BY <1>1, <3>1 DEF Inv, TypeOK
    <3> HIDE DEF new
    <3> QED
      BY <2>1, <2>2, <3>1, <3>2, <3>3
  <2>5. ASSUME NEW c \in Clients, CommitScreening(c)
        PROVE  app'[a] # None /\ app'[a].status # "in_progress"
    <3> DEFINE r == req[c]
               new == Screened(r.row, r.what)
               row == Flush(app[r.app], r.row, new)
    <3>1. r # None /\ r.op = "screen" /\ r \in Handler /\ app' = [app EXCEPT ![r.app] = row]
      BY <1>1, <2>5 DEF CommitScreening, Running, Inv, TypeOK
    <3>2. new \in AppRow
      <4>1. r.row \in AppRow /\ r.what \in Screening
        BY <3>1, HandlerColumns
      <4> QED
        BY <4>1, AppColumns
    <3>3. app'[a] = app[a] \/ (r.app = a /\ app'[a] = row)
      <4> HIDE DEF row
      <4> QED
        BY <1>1, <3>1 DEF Inv, TypeOK
    <3> HIDE DEF new
    <3> QED
      BY <2>1, <2>2, <3>1, <3>2, <3>3
  <2>6. ASSUME NEW b \in Apps, NEW what \in Hiring, NEW k \in Keys \cup {None},
               create_hiring_decision(b, what, k)
        PROVE  app'[a] = app[a]
    BY <1>1, <2>6 DEF create_hiring_decision, CanHire
  <2>7. ASSUME NEW b \in Apps, NEW j \in Jobs, NEW started \in BOOLEAN,
               create_job_candidate(b, j, started)
        PROVE  app'[a] = app[a]
    BY <1>1, <2>7 DEF create_job_candidate
  <2>8. ASSUME NEW c \in Clients, JobStep(c) PROVE app'[a] = app[a]
    BY <2>8 DEF JobStep, publish_job, pause_job, resume_job, close_job, EditJob, CommitJob
  <2>9. ASSUME NEW c \in Clients, ApplicationStep(c)
        PROVE  \/ app'[a] = app[a]
               \/ CommitClose(c) \/ CommitMigrate(c) \/ CommitScreening(c)
    BY <2>9 DEF ApplicationStep, resolve_close_application, migrate_application_version,
       create_screening_decision, create_resume_score_task, EditApp, CommitScoreTask, Abandon
  <2>10. ASSUME NEW t \in Tasks, TaskStep(t) PROVE app'[a] = app[a]
    BY <2>10 DEF TaskStep, ClaimTask, cancel_ai_task, retry_ai_task, MoveTask, FailTask,
       mark_previous_results_not_current, CommitScore, RollBackScore
  <2>11. CASE UNCHANGED vars
    BY <2>1, <2>11 DEF vars
  <2> QED
    BY <1>1, <2>1, <2>3, <2>4, <2>5, <2>6, <2>7, <2>8, <2>9, <2>10, <2>11 DEF Next
<1>2. Inv /\ [Next]_vars => [\A a \in Apps : Live(a) /\ app[a].status # "in_progress"
                              => app'[a] # None /\ app'[a].status # "in_progress"]_vars
  BY <1>1
<1> QED
  BY <1>2, Invariance, PTL DEF Spec, ClosedForGood
=============================================================================
