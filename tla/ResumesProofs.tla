---------------------------- MODULE ResumesProofs ----------------------------
(***************************************************************************)
(* Resumes, and with it Jobs, for every set of jobs, clients and contents  *)
(* and every bound.  No handler locks a row, so the invariant says of each *)
(* open request what is still true of the rows it loaded: pointers and     *)
(* statuses may have moved on, but what was released stays released, and   *)
(* rows keep their identity.                                               *)
(***************************************************************************)
EXTENDS Resumes, FiniteSetTheorems, SequenceTheorems, TLAPS

USE JobsAssumption, BoundsAssumption, ResumesAssumption, NoneIsNoRow

\* The pointers of a job, as PointersRight has them, lead to versions it has.  As long as
\* it is a draft so is its first version, and no longer.
Pointing(row, rows) ==
    /\ row.current <= Len(rows) /\ row.draft <= Len(rows)
    /\ row.current # 0 => rows[row.current].status = "published"
    /\ row.draft # 0 => rows[row.draft].status = "draft"
    /\ row.status = "draft" <=> row.current = 0
    /\ Len(rows) # 0
    /\ row.status = "draft" => row.draft = 1
    /\ row.status # "draft" => rows[1].status # "draft"

Pointers == \A j \in Jobs : Live(j) => Pointing(job[j], version[j])

\* A version of a job that was published, unless the job is gone.
Released(j, i) ==
    /\ job[j] # None
    /\ Live(j) => i \in 1..Len(version[j]) /\ version[j][i].status # "draft"

Given(j, i) ==
    \/ Released(j, i)
    \/ job[j] # None /\ i = 1

\* An edit either publishes the draft it loaded, or leaves statuses and pointers alone.
Publishing(e) ==
    /\ e.row.draft \in 1..Len(e.versions) /\ e.row.draft # e.row.current
    /\ e.new.current = e.row.draft /\ e.new.draft = 0
    /\ e.new.status # "draft" /\ e.added = None
    /\ e.versions[e.row.draft].status = "draft"
    /\ e.edited[e.row.draft].status = "published"

Keeping(e) ==
    /\ e.new.current = e.row.current /\ e.new.draft = e.row.draft
    /\ e.new.status = "draft" <=> e.row.status = "draft"
    /\ \A i \in 1..Len(e.versions) : e.edited[i].status = e.versions[i].status
    /\ e.added # None => e.row.draft = 0 /\ e.added.status = "draft"

EditHolds(e) ==
    /\ Len(e.edited) = Len(e.versions)
    /\ \A i \in 1..Len(e.versions) :
          e.edited[i].status = "draft" => e.versions[i].status = "draft"
    /\ Publishing(e) \/ Keeping(e)
    /\ e.row.status = "draft" => e.row.draft = 1
    /\ job[e.job] # None
    /\ Live(e.job) => /\ Len(e.versions) <= Len(version[e.job])
                      /\ e.row.status # "draft" => job[e.job].status # "draft"

\* The columns of a resume version that nobody writes twice.
SameVersion(row, new) ==
    new.resume = row.resume /\ new.kind = row.kind /\ new.source = row.source

VersionHolds(v, row) ==
    /\ v \in Rows(rv) /\ SameVersion(row, rv[v])
    /\ row.task <= Len(task)

\* What a request may still rely on when it commits.
Holds(q) ==
    /\ q.op = "job" => EditHolds(q)
    /\ q.op = "upload" => /\ q.candidate <= candidates
                          /\ q.job # None => Released(q.job, q.version)
    /\ q.op \in {"draft", "reparse", "confirm"} => VersionHolds(q.version, q.row)
    /\ q.op = "confirm" => /\ q.link <= candidates
                           /\ \A a \in q.waiting : a \in Rows(app) /\ app[a].resume_version # 0
    /\ q.op = "apply" => /\ q.candidate <= candidates
                         /\ Released(q.job, q.version)
                         /\ q.resume_version \in Rows(rv) /\ WasConfirmed(q.resume_version)
    /\ q.op = "candidate" => Given(q.job, q.version)
    /\ q.op \in {"close", "migrate", "screen"} => q.app \in Rows(app)
    /\ q.op = "close" /\ q.target # None => Released(q.target, q.version)
    /\ q.op = "migrate" => Released(app[q.app].job, q.version)
    /\ q.op = "screen" => /\ q.to # "pending_parse"
                          /\ q.from # "pending_parse" => app[q.app].pipeline # "pending_parse"

Requests == \A c \in Clients : req[c] # None => Holds(req[c])

\* What an application is bound to: see BoundToReleased.  Only one without a resume may be
\* bound to the first version of a job that HR has not published.
Binding(row) ==
    /\ Live(row.job)
    /\ \/ Released(row.job, row.version)
       \/ row.version = 1 /\ row.resume_version = 0
    /\ row.pipeline = "pending_parse" => row.resume_version # 0
    /\ row.resume_version # 0 =>
          /\ row.resume_version \in Rows(rv)
          /\ \/ WasConfirmed(row.resume_version)
             \/ /\ rv[row.resume_version].kind = "file"
                /\ row.pipeline = "pending_parse" \/ row.early

Bound == \A a \in Rows(app) : Binding(app[a])

\* A version that HR confirmed has a confirmed copy, or is one.
Confirmations == \A v \in Rows(rv) : rv[v].status = "confirmed" => WasConfirmed(v)

\* The task of a version is one of its own.
OwnTasks ==
    \A v \in Rows(rv) : rv[v].task # 0 => /\ rv[v].task <= Len(task)
                                          /\ task[rv[v].task].version = v

\* What a worker that applies a task holds: a version whose task this still is, and
\* that is being parsed, was being parsed when it was loaded.
Saving ==
    \A t \in 1..MaxTasks : saving[t] # None =>
        /\ t <= Len(task)
        /\ VersionHolds(task[t].version, saving[t])
        /\ rv[task[t].version].task = t /\ rv[task[t].version].status = "parsing"
              => saving[t].status = "parsing"

\* The inductive invariant.
Inv ==
    /\ TypeOK
    /\ Requests
    /\ Pointers
    /\ Bound
    /\ Confirmations
    /\ OwnTasks /\ Saving /\ ParsingAwaitsTask
-----------------------------------------------------------------------------
(* Columns. *)

LEMMA JobFlush ==
    ASSUME NEW db \in JobRow, NEW loaded \in JobRow, NEW new \in JobRow
    PROVE  LET row == Flush(db, loaded, new) IN
           /\ row \in JobRow
           /\ row.status  = (IF new.status = loaded.status THEN db.status ELSE new.status)
           /\ row.current = (IF new.current = loaded.current THEN db.current ELSE new.current)
           /\ row.draft   = (IF new.draft = loaded.draft THEN db.draft ELSE new.draft)
  BY DEF Flush, JobRow

LEMMA VersionFlush ==
    ASSUME NEW db \in JobVersion, NEW loaded \in JobVersion, NEW new \in JobVersion
    PROVE  LET row == Flush(db, loaded, new) IN
           /\ row \in JobVersion
           /\ row.status = (IF new.status = loaded.status THEN db.status ELSE new.status)
  BY DEF Flush, JobVersion

LEMMA ResumeFlush ==
    ASSUME NEW db \in ResumeVersion, NEW loaded \in ResumeVersion, NEW new \in ResumeVersion
    PROVE  LET row == Flush(db, loaded, new) IN
           /\ row \in ResumeVersion
           /\ row.status = (IF new.status = loaded.status THEN db.status ELSE new.status)
           /\ row.task   = (IF new.task = loaded.task THEN db.task ELSE new.task)
           /\ SameVersion(loaded, new) => SameVersion(db, row)
<1> DEFINE row == Flush(db, loaded, new)
<1>1. row \in ResumeVersion
  BY DEF Flush, ResumeVersion
<1>2. \A f \in DOMAIN db : row[f] = IF new[f] = loaded[f] THEN db[f] ELSE new[f]
  BY DEF Flush
<1>3. {"resume", "kind", "source", "status", "task"} \subseteq DOMAIN db
  BY DEF ResumeVersion
<1> QED
  BY <1>1, <1>2, <1>3 DEF SameVersion

LEMMA FlushedVersions ==
    ASSUME NEW rows \in Seq(JobVersion), NEW loaded \in Seq(JobVersion),
           NEW edited \in Seq(JobVersion), Len(edited) = Len(loaded)
    PROVE  LET new == FlushVersions(rows, loaded, edited) IN
           /\ new \in Seq(JobVersion) /\ Len(new) = Len(rows)
           /\ \A i \in 1..Len(rows) :
                 new[i].status =
                    (IF i <= Len(loaded) /\ edited[i].status # loaded[i].status
                     THEN edited[i].status ELSE rows[i].status)
<1> DEFINE new == FlushVersions(rows, loaded, edited)
<1>1. /\ DOMAIN new = 1..Len(rows)
      /\ \A i \in 1..Len(rows) : new[i] = IF i <= Len(loaded) THEN Flush(rows[i], loaded[i], edited[i])
                                                            ELSE rows[i]
  BY DEF FlushVersions
<1>2. ASSUME NEW i \in 1..Len(rows)
      PROVE  /\ new[i] \in JobVersion
             /\ new[i].status = (IF i <= Len(loaded) /\ edited[i].status # loaded[i].status
                                 THEN edited[i].status ELSE rows[i].status)
  <2>1. rows[i] \in JobVersion
    BY ElementOfSeq
  <2>2. CASE i <= Len(loaded)
    <3>1. loaded[i] \in JobVersion /\ edited[i] \in JobVersion
      BY <2>2, ElementOfSeq
    <3> QED
      BY <1>1, <2>1, <2>2, <3>1, VersionFlush
  <2>3. CASE ~(i <= Len(loaded))
    BY <1>1, <2>1, <2>3
  <2> QED
    BY <2>2, <2>3
<1>3. new \in [1..Len(rows) -> JobVersion]
  BY <1>2 DEF FlushVersions
<1>4. new \in Seq(JobVersion) /\ Len(new) = Len(rows)
  <2>1. Len(rows) \in Nat
    BY LenProperties
  <2> HIDE DEF new
  <2>2. new \in Seq(JobVersion)
    BY <1>3, <2>1, SeqDef
  <2>3. DOMAIN new = 1..Len(rows)
    BY <1>3
  <2>4. Len(new) \in Nat /\ DOMAIN new = 1..Len(new)
    BY <2>2, LenProperties
  <2> QED
    BY <2>1, <2>2, <2>3, <2>4
<1> QED
  BY <1>2, <1>4

LEMMA HandlerColumns ==
    ASSUME NEW h \in Handler
    PROVE  /\ h.op \in {"job", "remove", "upload", "draft", "reparse", "confirm", "apply",
                       "candidate", "close", "migrate", "screen"}
           /\ h.op \in {"job", "remove"} => h.job \in Jobs
           /\ h.op = "job" => /\ h.row \in JobRow /\ h.new \in JobRow
                              /\ h.versions \in Seq(JobVersion) /\ h.edited \in Seq(JobVersion)
                              /\ h.added \in JobVersion \cup {None}
           /\ h.op = "upload" => /\ h.candidate \in 0..MaxCandidates /\ h.job \in Jobs \cup {None}
                                 /\ h.version \in 0..MaxVersions /\ h.extracted \in BOOLEAN
           /\ h.op \in {"draft", "reparse", "confirm"} =>
                 h.version \in 1..MaxResumeRows /\ h.row \in ResumeVersion
           /\ h.op = "confirm" => /\ h.link \in 0..MaxCandidates
                                  /\ h.waiting \in SUBSET (1..MaxApps) /\ h.label \in Nat \ {0}
           /\ h.op = "apply" => /\ h.candidate \in 1..MaxCandidates /\ h.job \in Jobs
                                /\ h.version \in 1..MaxVersions
                                /\ h.resume_version \in 1..MaxResumeRows
           /\ h.op = "candidate" => h.job \in Jobs /\ h.version \in 1..MaxVersions
           /\ h.op \in {"close", "migrate", "screen"} => h.app \in 1..MaxApps
           /\ h.op = "close" => h.target \in Jobs \cup {None} /\ h.version \in 0..MaxVersions
           /\ h.op = "migrate" => h.version \in 1..MaxVersions
           /\ h.op = "screen" => h.from \in Pipelines /\ h.to \in Pipelines
  BY DEF Handler, JobHandler

-----------------------------------------------------------------------------
(* What the tables keep, and with it what requests rely on. *)

\* A job that is there keeps its versions, and what is released stays so.
JobsGrow ==
    \A j \in Jobs : job[j] # None =>
        /\ job'[j] # None
        /\ Live(j)' =>
              /\ Live(j)
              /\ Len(version[j]) <= Len(version'[j])
              /\ \A i \in 1..Len(version[j]) :
                    version[j][i].status # "draft" => version'[j][i].status # "draft"
              /\ job[j].status # "draft" => job'[j].status # "draft"

\* An application keeps its job and its candidate, and does not wait for a parse again.
SameApplication(row, new) ==
    /\ new.job = row.job /\ new.candidate = row.candidate
    /\ row.resume_version # 0 => new.resume_version # 0
    /\ row.pipeline # "pending_parse" => new.pipeline # "pending_parse"

ResumesGrow ==
    /\ candidates <= candidates'
    /\ Len(rv) <= Len(rv') /\ Len(task) <= Len(task') /\ Len(app) <= Len(app')
    /\ \A v \in Rows(rv) : SameVersion(rv[v], rv'[v])
    /\ \A a \in Rows(app) : SameApplication(app[a], app'[a])

LEMMA SameJobsGrow ==
    ASSUME UNCHANGED <<job, version>>, TypeOK
    PROVE  JobsGrow
<1>1. \A j \in Jobs : Len(version[j]) \in Nat
  BY LenProperties DEF TypeOK, JobTypeOK
<1> QED
  BY <1>1 DEF JobsGrow, Live

LEMMA SameResumesGrow ==
    ASSUME UNCHANGED <<app, resumeVars>>, TypeOK
    PROVE  ResumesGrow
<1>1. Len(rv) \in Nat /\ Len(task) \in Nat /\ Len(app) \in Nat /\ candidates \in Nat
  BY LenProperties DEF TypeOK
<1> QED
  BY <1>1 DEF ResumesGrow, resumeVars, taskVars, SameVersion, SameApplication

LEMMA ConfirmedStays ==
    ASSUME TypeOK, ResumesGrow, Len(rv') \in Nat, NEW v \in Rows(rv), WasConfirmed(v)
    PROVE  v \in Rows(rv') /\ WasConfirmed(v)'
<1>1. Len(rv) \in Nat
  BY LenProperties DEF TypeOK
<1>2. Rows(rv) \subseteq Rows(rv')
  BY <1>1 DEF ResumesGrow, Rows
<1> QED
  BY <1>2 DEF WasConfirmed, ResumesGrow, SameVersion

LEMMA ReleasedStays ==
    ASSUME TypeOK, JobsGrow, NEW j \in Jobs, Len(version'[j]) \in Nat, NEW i, Released(j, i)
    PROVE  Released(j, i)'
<1>1. Len(version[j]) \in Nat
  BY LenProperties DEF TypeOK, JobTypeOK
<1>2. job'[j] # None
  BY DEF JobsGrow, Released
<1>3. ASSUME Live(j)' PROVE i \in 1..Len(version'[j]) /\ version'[j][i].status # "draft"
  <2>1. i \in 1..Len(version[j]) /\ version[j][i].status # "draft"
    BY <1>3 DEF JobsGrow, Released
  <2>2. Len(version[j]) <= Len(version'[j])
    BY <1>3 DEF JobsGrow, Released
  <2>3. version'[j][i].status # "draft"
    BY <1>3, <2>1 DEF JobsGrow, Released
  <2> QED
    BY <1>1, <2>1, <2>2, <2>3
<1> QED
  BY <1>2, <1>3 DEF Released

LEMMA VersionStays ==
    ASSUME TypeOK, ResumesGrow, Len(rv') \in Nat, Len(task') \in Nat,
           NEW v, NEW row \in ResumeVersion, VersionHolds(v, row)
    PROVE  VersionHolds(v, row)'
<1>1. Len(rv) \in Nat /\ Len(task) \in Nat /\ row.task \in Nat
  BY LenProperties DEF TypeOK, ResumeVersion
<1>2. Rows(rv) \subseteq Rows(rv')
  BY <1>1 DEF ResumesGrow, Rows
<1>3. row.task <= Len(task')
  BY <1>1 DEF ResumesGrow, VersionHolds
<1> QED
  BY <1>2, <1>3 DEF VersionHolds, ResumesGrow, SameVersion

LEMMA RequestStays ==
    ASSUME TypeOK, JobsGrow, ResumesGrow, TypeOK', NEW q \in Handler, Holds(q)
    PROVE  Holds(q)'
<1>1. /\ Len(rv') \in Nat /\ Len(task') \in Nat /\ Len(app') \in Nat /\ candidates' \in Nat
      /\ \A j \in Jobs : Len(version'[j]) \in Nat
  BY LenProperties DEF TypeOK, JobTypeOK
<1>2. /\ Len(rv) \in Nat /\ Len(task) \in Nat /\ Len(app) \in Nat /\ candidates \in Nat
      /\ \A j \in Jobs : Len(version[j]) \in Nat
  BY LenProperties DEF TypeOK, JobTypeOK
<1>8. Rows(app) \subseteq Rows(app')
  BY <1>1, <1>2 DEF ResumesGrow, Rows
<1>3. CASE q.op = "job"
  <2>1. EditHolds(q) /\ q.job \in Jobs /\ Len(q.versions) \in Nat
    BY <1>3, HandlerColumns, LenProperties DEF Holds
  <2>2. job'[q.job] # None
    BY <2>1 DEF EditHolds, JobsGrow
  <2>3. ASSUME Live(q.job)'
        PROVE  /\ Len(q.versions) <= Len(version'[q.job])
               /\ q.row.status # "draft" => job'[q.job].status # "draft"
    <3>1. Live(q.job) /\ Len(version[q.job]) <= Len(version'[q.job])
      <4>1. q.job \in Jobs /\ job[q.job] # None
        BY <2>1 DEF EditHolds
      <4> QED
        BY <2>3, <4>1 DEF JobsGrow
    <3>2. q.row.status # "draft" => job'[q.job].status # "draft"
      <4>1. q.row.status # "draft" => job[q.job].status # "draft"
        BY <2>1, <3>1 DEF EditHolds
      <4>2. job[q.job] # None
        BY <2>1 DEF EditHolds
      <4>3. job[q.job].status # "draft" => job'[q.job].status # "draft"
        BY <2>1, <2>3, <4>2 DEF JobsGrow
      <4> QED
        BY <4>1, <4>3
    <3>3. Len(q.versions) <= Len(version[q.job])
      BY <2>1, <3>1 DEF EditHolds
    <3>4. Len(version[q.job]) \in Nat /\ Len(version'[q.job]) \in Nat
      BY <1>1, <1>2, <2>1
    <3>5. Len(q.versions) <= Len(version'[q.job])
      <4>1. \A a, b, c \in Nat : a <= b /\ b <= c => a <= c
        OBVIOUS
      <4> QED
        BY <2>1, <3>1, <3>3, <3>4, <4>1
    <3> QED
      BY <3>2, <3>5
  <2>4. EditHolds(q)'
    BY <2>1, <2>2, <2>3 DEF EditHolds
  <2> QED
    BY <1>3, <2>4 DEF Holds
<1>4. CASE q.op = "remove"
  BY <1>4 DEF Holds
<1>5. CASE q.op = "upload"
  <2>1. q.candidate <= candidates'
    <3>1. q.candidate \in 0..MaxCandidates
      BY <1>5, HandlerColumns
    <3>2. q.candidate <= candidates /\ candidates <= candidates'
      BY <1>5 DEF Holds, ResumesGrow
    <3>3. \A x, y, z \in Nat : x <= y /\ y <= z => x <= z
      OBVIOUS
    <3>4. q.candidate \in Nat /\ candidates \in Nat /\ candidates' \in Nat
      BY <1>1, <1>2, <3>1
    <3> QED
      BY <3>2, <3>3, <3>4
  <2>2. ASSUME q.job # None PROVE Released(q.job, q.version)'
    <3>1. q.job \in Jobs /\ Released(q.job, q.version)
      BY <1>5, <2>2, HandlerColumns DEF Holds
    <3> QED
      BY <1>1, <3>1, ReleasedStays
  <2> QED
    BY <1>5, <2>1, <2>2 DEF Holds
<1>6. CASE q.op \in {"draft", "reparse", "confirm"}
  <2>1. q.row \in ResumeVersion /\ VersionHolds(q.version, q.row)
    BY <1>6, HandlerColumns DEF Holds
  <2>2. VersionHolds(q.version, q.row)'
    BY <1>1, <2>1, VersionStays
  <2>3. ASSUME q.op = "confirm"
        PROVE  /\ q.link <= candidates'
               /\ \A a \in q.waiting : a \in Rows(app') /\ app'[a].resume_version # 0
    <3>1. q.link \in Nat /\ q.link <= candidates /\ candidates <= candidates'
      BY <1>6, <2>3, HandlerColumns DEF Holds, ResumesGrow
    <3>2. \A a \in q.waiting : a \in Rows(app') /\ app'[a].resume_version # 0
      <4>1. \A a \in q.waiting : a \in Rows(app) /\ app[a].resume_version # 0
        BY <2>3 DEF Holds
      <4> QED
        BY <1>8, <4>1 DEF ResumesGrow, SameApplication
    <3>3. q.link <= candidates'
      <4>1. \A x, y, z \in Nat : x <= y /\ y <= z => x <= z
        OBVIOUS
      <4> QED
        BY <1>1, <1>2, <3>1, <4>1
    <3> QED
      BY <3>2, <3>3
  <2> QED
    BY <1>6, <2>2, <2>3 DEF Holds
<1>7. CASE q.op = "apply"
  <2>1. /\ q.candidate \in Nat /\ q.candidate <= candidates /\ candidates <= candidates'
        /\ q.job \in Jobs /\ Released(q.job, q.version)
        /\ q.resume_version \in Rows(rv) /\ WasConfirmed(q.resume_version)
    <3>1. q.candidate \in 1..MaxCandidates /\ q.job \in Jobs
      BY <1>7, HandlerColumns
    <3>2. /\ q.candidate <= candidates /\ Released(q.job, q.version)
          /\ q.resume_version \in Rows(rv) /\ WasConfirmed(q.resume_version)
      BY <1>7 DEF Holds
    <3> QED
      BY <3>1, <3>2 DEF ResumesGrow
  <2>2. q.candidate <= candidates'
    <3>1. candidates \in Nat /\ candidates' \in Nat
      BY <1>1, <1>2
    <3>2. q.candidate \in Nat /\ q.candidate <= candidates /\ candidates <= candidates'
      BY <2>1
    <3> QED
      BY <3>1, <3>2
  <2>3. Released(q.job, q.version)'
    BY <1>1, <2>1, ReleasedStays
  <2>4. q.resume_version \in Rows(rv') /\ WasConfirmed(q.resume_version)'
    BY <1>1, <2>1, ConfirmedStays
  <2> QED
    BY <1>7, <2>2, <2>3, <2>4 DEF Holds
<1>9. CASE q.op = "candidate"
  <2>1. q.job \in Jobs /\ Given(q.job, q.version)
    BY <1>9, HandlerColumns DEF Holds
  <2>2. Given(q.job, q.version)'
    <3>1. CASE Released(q.job, q.version)
      BY <1>1, <2>1, <3>1, ReleasedStays DEF Given
    <3>2. CASE job[q.job] # None /\ q.version = 1
      BY <2>1, <3>2 DEF Given, JobsGrow
    <3> QED
      BY <2>1, <3>1, <3>2 DEF Given
  <2> QED
    BY <1>9, <2>2 DEF Holds
<1>10. CASE q.op \in {"close", "migrate", "screen"}
  <2>1. q.app \in Rows(app) /\ q.app \in Rows(app') /\ SameApplication(app[q.app], app'[q.app])
    BY <1>8, <1>10 DEF Holds, ResumesGrow
  <2>2. ASSUME q.op = "close", q.target # None
        PROVE  Released(q.target, q.version)'
    <3>1. q.target \in Jobs /\ Released(q.target, q.version)
      BY <2>2, HandlerColumns DEF Holds
    <3> QED
      BY <1>1, <3>1, ReleasedStays
  <2>3. ASSUME q.op = "migrate"
        PROVE  Released(app[q.app].job, q.version)'
    <3>1. PICK j \in Jobs : j = app[q.app].job
      <4>1. app[q.app] \in Application
        BY <2>1, ElementOfSeq DEF TypeOK, Rows
      <4> QED
        BY <4>1 DEF Application
    <3>2. Released(j, q.version)
      BY <2>3, <3>1 DEF Holds
    <3>3. Released(j, q.version)'
      BY <1>1, <3>2, ReleasedStays
    <3>4. app'[q.app].job = j
      BY <2>1, <3>1 DEF SameApplication
    <3> QED
      BY <3>3, <3>4
  <2>4. ASSUME q.op = "screen", q.from # "pending_parse"
        PROVE  app'[q.app].pipeline # "pending_parse"
    BY <2>1, <2>4 DEF Holds, SameApplication
  <2>5. q.op = "screen" => q.to # "pending_parse"
    BY DEF Holds
  <2> QED
    BY <1>10, <2>1, <2>2, <2>3, <2>4, <2>5 DEF Holds
<1> QED
  BY <1>3, <1>4, <1>5, <1>6, <1>7, <1>9, <1>10, HandlerColumns

\* Open requests of a step that adds none.
LEMMA RequestsStay ==
    ASSUME Inv, TypeOK', JobsGrow, ResumesGrow,
           \A d \in Clients : req'[d] # None => req'[d] = req[d]
    PROVE  Requests'
<1>1. \A q \in Handler : Holds(q) => Holds(q)'
  BY RequestStays DEF Inv
<1>2. ASSUME NEW d \in Clients, req'[d] # None
      PROVE  Holds(req[d])'
  <2>1. req'[d] = req[d] /\ req[d] \in Handler /\ Holds(req[d])
    BY <1>2 DEF Inv, Requests, TypeOK
  <2>2. PICK q \in Handler : q = req'[d] /\ q = req[d]
    BY <2>1
  <2>3. Holds(q)
    BY <2>1, <2>2
  <2>4. Holds(q)'
    BY <1>1, <2>3
  <2> QED
    BY <2>2, <2>4
<1> QED
  BY <1>2 DEF Requests

-----------------------------------------------------------------------------
(* Requests that load rows. *)

\* While nothing but requests changes, the rest of the invariant stays.
LEMMA RequestsOnly ==
    ASSUME Inv, UNCHANGED <<job, version, app, resumeVars>>,
           req' \in [Clients -> Handler \cup {None}], opened' \in 0..MaxRequests,
           \A d \in Clients : req'[d] # None => req'[d] = req[d] \/ Holds(req'[d])
    PROVE  Inv'
<1> USE DEF resumeVars, taskVars
<1>1. TypeOK'
  BY DEF Inv, TypeOK, JobTypeOK, Live, Rows
<1>2. JobsGrow /\ ResumesGrow
  BY SameJobsGrow, SameResumesGrow DEF Inv
<1>3. Requests'
  <2>1. ASSUME NEW d \in Clients, req'[d] # None
        PROVE  Holds(req[d])'
    <3>1. req'[d] \in Handler /\ Holds(req'[d])
      BY <2>1 DEF Inv, Requests, TypeOK
    <3>2. PICK q \in Handler : q = req'[d]
      BY <3>1
    <3>3. Holds(q)'
      BY <1>1, <1>2, <3>1, <3>2, RequestStays DEF Inv
    <3> QED
      BY <3>2, <3>3
  <2> QED
    BY <2>1 DEF Requests
<1>4. Pointers'
  BY DEF Inv, Pointers, Live
<1>5. Bound' /\ Confirmations'
  BY DEF Inv, Bound, Binding, Released, Confirmations, Live, WasConfirmed, Rows
<1>6. OwnTasks' /\ Saving' /\ ParsingAwaitsTask'
  BY DEF Inv, OwnTasks, Saving, ParsingAwaitsTask, VersionHolds, SameVersion, Rows
<1> QED
  BY <1>1, <1>3, <1>4, <1>5, <1>6 DEF Inv

LEMMA LoadKeeps ==
    ASSUME Inv, NEW c \in Clients, NEW h \in Handler, Holds(h), Load(c, h),
           UNCHANGED <<job, version, app, resumeVars>>
    PROVE  Inv'
<1>1. /\ req' \in [Clients -> Handler \cup {None}]
      /\ \A d \in Clients : req'[d] = req[d] \/ req'[d] = h
  BY DEF Load, Inv, TypeOK
<1>2. opened' \in 0..MaxRequests
  BY DEF Load, Inv, TypeOK, JobTypeOK
<1> QED
  BY <1>1, <1>2, RequestsOnly

LEMMA DoneKeeps ==
    ASSUME TypeOK, NEW c \in Clients, Done(c)
    PROVE  /\ req' \in [Clients -> Handler \cup {None}] /\ opened' \in 0..MaxRequests
           /\ \A d \in Clients : req'[d] # None => req'[d] = req[d]
  BY DEF Done, TypeOK, JobTypeOK

LEMMA AbandonKeeps ==
    ASSUME Inv, NEW c \in Clients, Abandon(c), UNCHANGED resumeVars
    PROVE  Inv'
  BY DoneKeeps, RequestsOnly DEF Abandon, Inv

LEMMA RowFacts ==
    ASSUME Inv, NEW j \in Jobs, Live(j)
    PROVE  /\ job[j] \in JobRow /\ version[j] \in Seq(JobVersion)
           /\ Len(version[j]) \in 0..MaxVersions
           /\ job[j].current \in 0..Len(version[j]) /\ job[j].draft \in 0..Len(version[j])
           /\ job[j].current # 0 => version[j][job[j].current].status = "published"
           /\ job[j].draft # 0 => version[j][job[j].draft].status = "draft"
           /\ job[j].status = "draft" <=> job[j].current = 0
           /\ job[j].status = "draft" => job[j].draft = 1
           /\ \A i \in 1..Len(version[j]) : version[j][i] \in JobVersion
<1>1. job[j] \in JobRow /\ version[j] \in Seq(JobVersion)
  BY DEF Inv, TypeOK, JobTypeOK, Live
<1>2. Len(version[j]) \in 0..MaxVersions
  BY <1>1, LenProperties DEF Inv, TypeOK, JobTypeOK
<1>3. job[j].current \in Nat /\ job[j].draft \in Nat
  BY <1>1 DEF JobRow
<1>4. \A i \in 1..Len(version[j]) : version[j][i] \in JobVersion
  BY <1>1, ElementOfSeq
<1>5. Pointing(job[j], version[j])
  BY DEF Inv, Pointers
<1> QED
  BY <1>1, <1>2, <1>3, <1>4, <1>5 DEF Pointing

\* An edit of a job that either publishes or keeps what requests rely on.
LEMMA EditKeeps ==
    ASSUME Inv, NEW c \in Clients, NEW j \in Jobs, Live(j),
           NEW new \in JobRow, NEW edited \in Seq(JobVersion), NEW added \in JobVersion \cup {None},
           Edit(c, j, new, edited, added), UNCHANGED resumeVars,
           Len(edited) = Len(version[j]),
           \A i \in 1..Len(version[j]) :
              edited[i].status = "draft" => version[j][i].status = "draft",
           \/ /\ job[j].draft # 0
              /\ new.current = job[j].draft /\ new.draft = 0
              /\ new.status # "draft" /\ added = None
              /\ edited[job[j].draft].status = "published"
           \/ /\ new.current = job[j].current /\ new.draft = job[j].draft
              /\ new.status = "draft" <=> job[j].status = "draft"
              /\ \A i \in 1..Len(version[j]) : edited[i].status = version[j][i].status
              /\ added # None => job[j].draft = 0 /\ added.status = "draft"
    PROVE  Inv'
<1> DEFINE h == [op |-> "job", job |-> j, row |-> job[j], new |-> new,
                 versions |-> version[j], edited |-> edited, added |-> added]
<1>1. Load(c, h) /\ UNCHANGED <<job, version, app>>
  BY DEF Edit
<1>2. h \in Handler
  BY RowFacts DEF Handler, JobHandler
<1>3. /\ h.op = "job" /\ h.job = j /\ h.row = job[j] /\ h.new = new
      /\ h.versions = version[j] /\ h.edited = edited /\ h.added = added
  OBVIOUS
<1> HIDE DEF h
<1>4. Publishing(h) \/ Keeping(h)
  <2>1. /\ job[j].draft \in 0..Len(version[j]) /\ Len(version[j]) \in Nat
        /\ job[j].draft # 0 => version[j][job[j].draft].status = "draft"
        /\ job[j].current # 0 => version[j][job[j].current].status = "published"
    BY RowFacts
  <2>2. job[j].draft # 0 => job[j].draft \in 1..Len(version[j]) /\ job[j].draft # job[j].current
    BY <2>1
  <2>3. CASE /\ job[j].draft # 0
             /\ new.current = job[j].draft /\ new.draft = 0
             /\ new.status # "draft" /\ added = None
             /\ edited[job[j].draft].status = "published"
    BY <1>3, <2>1, <2>2, <2>3 DEF Publishing
  <2>4. CASE /\ new.current = job[j].current /\ new.draft = job[j].draft
             /\ new.status = "draft" <=> job[j].status = "draft"
             /\ \A i \in 1..Len(version[j]) : edited[i].status = version[j][i].status
             /\ added # None => job[j].draft = 0 /\ added.status = "draft"
    BY <1>3, <2>4 DEF Keeping
  <2> QED
    BY <2>3, <2>4
<1>5. job[j] # None
  BY DEF Live
<1>6. EditHolds(h)
  <2>1. /\ h.row.status = "draft" => h.row.draft = 1
        /\ Len(version[j]) \in Nat
    BY <1>3, RowFacts
  <2> QED
    BY <1>3, <1>4, <1>5, <2>1 DEF EditHolds
<1>7. Holds(h)
  BY <1>3, <1>6 DEF Holds
<1> QED
  BY <1>1, <1>2, <1>7, LoadKeeps

LEMMA DraftColumns ==
    ASSUME NEW content \in Contents \cup {Blank}, NEW base \in 0..MaxVersions
    PROVE  /\ create_draft_version(content, base) \in JobVersion
           /\ create_draft_version(content, base).status = "draft"
           /\ create_draft_version(content, base).content = content
           /\ create_draft_version(content, base).base = base
  BY DEF create_draft_version, JobVersion

LEMMA ReviseDraftKeeps ==
    ASSUME Inv, NEW c \in Clients, NEW j \in Jobs, Live(j), UNCHANGED resumeVars,
           NEW revised \in JobVersion, revised.status = Draft(j).status,
           ReviseDraft(c, j, revised)
    PROVE  Inv'
<1> DEFINE edited == [version[j] EXCEPT ![job[j].draft] = revised]
<1>1. Edit(c, j, job[j], edited, None) /\ job[j].draft \in 1..Len(version[j])
  BY RowFacts DEF ReviseDraft
<1>2. /\ edited \in Seq(JobVersion) /\ Len(edited) = Len(version[j])
      /\ \A i \in 1..Len(version[j]) :
            edited[i] = IF i = job[j].draft THEN revised ELSE version[j][i]
  BY <1>1, RowFacts, ExceptSeq
<1> HIDE DEF edited
<1>3. \A i \in 1..Len(version[j]) : edited[i].status = version[j][i].status
  BY <1>2 DEF Draft
<1>4. /\ job[j] \in JobRow
      /\ \A i \in 1..Len(version[j]) : edited[i].status = "draft" => version[j][i].status = "draft"
  BY <1>3, RowFacts
<1> QED
  BY <1>1, <1>2, <1>3, <1>4, EditKeeps

LEMMA AddDraftKeeps ==
    ASSUME Inv, NEW c \in Clients, NEW j \in Jobs, Live(j), UNCHANGED resumeVars,
           NEW added \in JobVersion, added.status = "draft", AddDraft(c, j, added)
    PROVE  Inv'
<1>1. Edit(c, j, job[j], version[j], added) /\ job[j].draft = 0
  BY DEF AddDraft
<1> QED
  BY <1>1, RowFacts, EditKeeps

LEMMA WriteDraftKeeps ==
    ASSUME Inv, NEW c \in Clients, NEW j \in Jobs, Live(j), UNCHANGED resumeVars,
           NEW content \in Contents \cup {Blank}, WriteDraft(c, j, content)
    PROVE  Inv'
<1>1. CASE ReviseDraft(c, j, [Draft(j) EXCEPT !.content = content])
  <2>1. Draft(j) \in JobVersion
    BY <1>1, RowFacts DEF ReviseDraft, Draft
  <2>2. /\ [Draft(j) EXCEPT !.content = content] \in JobVersion
        /\ [Draft(j) EXCEPT !.content = content].status = Draft(j).status
    BY <2>1 DEF JobVersion
  <2> QED
    BY <1>1, <2>2, ReviseDraftKeeps
<1>2. CASE AddDraft(c, j, create_draft_version(content, job[j].current))
  <2>1. job[j].current \in 0..MaxVersions
    BY RowFacts DEF JobRow
  <2> QED
    BY <1>2, <2>1, DraftColumns, AddDraftKeeps
<1> QED
  BY <1>1, <1>2 DEF WriteDraft

LEMMA CopyToDraftKeeps ==
    ASSUME Inv, NEW c \in Clients, NEW j \in Jobs, NEW i \in 1..MaxVersions,
           copy_version_to_draft(c, j, i), UNCHANGED resumeVars
    PROVE  Inv'
<1>1. Live(j) /\ i \in 1..Len(version[j])
  BY RowFacts DEF copy_version_to_draft
<1>2. version[j][i] \in JobVersion /\ version[j][i].content \in Contents \cup {Blank}
  BY <1>1, RowFacts DEF JobVersion
<1> DEFINE revised == [Draft(j) EXCEPT !.content = version[j][i].content, !.base = i]
<1>3. CASE ReviseDraft(c, j, revised)
  <2>1. Draft(j) \in JobVersion
    <3>1. version[j] \in Seq(JobVersion) /\ job[j].draft \in 1..Len(version[j])
      <4>1. job[j].draft # 0 /\ job[j].draft \in 0..Len(version[j])
        BY <1>1, <1>3, RowFacts DEF ReviseDraft
      <4>2. version[j] \in Seq(JobVersion)
        BY <1>1, RowFacts
      <4> QED
        BY <4>1, <4>2
    <3> QED
      BY <3>1, ElementOfSeq DEF Draft
  <2>2. i \in 0..MaxVersions
    OBVIOUS
  <2>3. revised \in JobVersion /\ revised.status = Draft(j).status
    BY <1>2, <2>1, <2>2 DEF JobVersion
  <2> QED
    BY <1>1, <1>3, <2>3, ReviseDraftKeeps
<1>4. CASE AddDraft(c, j, create_draft_version(version[j][i].content, i))
  BY <1>1, <1>2, <1>4, DraftColumns, AddDraftKeeps
<1> QED
  BY <1>3, <1>4 DEF copy_version_to_draft

LEMMA EnsureDraftKeeps ==
    ASSUME Inv, NEW c \in Clients, NEW j \in Jobs, _ensure_job_draft(c, j), UNCHANGED resumeVars
    PROVE  Inv'
<1> DEFINE base == job[j].current
<1>1. Live(j) /\ base \in 1..Len(version[j]) /\ base \in 0..MaxVersions
  BY RowFacts DEF _ensure_job_draft
<1>2. version[j][base] \in JobVersion /\ version[j][base].content \in Contents \cup {Blank}
  BY <1>1, RowFacts DEF JobVersion
<1>3. AddDraft(c, j, create_draft_version(version[j][base].content, base))
  BY DEF _ensure_job_draft
<1> HIDE DEF base
<1>4. /\ create_draft_version(version[j][base].content, base) \in JobVersion
      /\ create_draft_version(version[j][base].content, base).status = "draft"
  BY <1>1, <1>2, DraftColumns
<1> QED
  BY <1>1, <1>3, <1>4, AddDraftKeeps

LEMMA ChangeStatusKeeps ==
    ASSUME Inv, NEW c \in Clients, NEW j \in Jobs, UNCHANGED resumeVars,
           pause_job(c, j) \/ resume_job(c, j) \/ close_job(c, j)
    PROVE  Inv'
<1>1. PICK status \in {"open", "paused", "closed"} :
         /\ Live(j) /\ job[j].status # "draft"
         /\ Edit(c, j, [job[j] EXCEPT !.status = status], version[j], None)
  BY DEF pause_job, resume_job, close_job, ChangeStatus
<1> DEFINE new == [job[j] EXCEPT !.status = status]
<1>2. /\ new \in JobRow /\ new.status # "draft"
      /\ new.current = job[j].current /\ new.draft = job[j].draft
  <2>1. job[j] \in JobRow
    BY <1>1, RowFacts
  <2> QED
    BY <1>1, <2>1 DEF JobRow
<1> HIDE DEF new
<1>3. Edit(c, j, new, version[j], None)
  BY <1>1 DEF new
<1>4. /\ new.current = job[j].current /\ new.draft = job[j].draft
      /\ new.status = "draft" <=> job[j].status = "draft"
      /\ \A i \in 1..Len(version[j]) : version[j][i].status = version[j][i].status
  BY <1>1, <1>2
<1>5. version[j] \in Seq(JobVersion)
  BY <1>1, RowFacts
<1> QED
  BY <1>1, <1>2, <1>3, <1>4, <1>5, EditKeeps

LEMMA PublishedColumns ==
    ASSUME NEW v \in JobVersion
    PROVE  /\ Published(v) \in JobVersion /\ Published(v).status = "published"
           /\ Superseded(v) \in JobVersion /\ Superseded(v).status = "superseded"
           /\ [v EXCEPT !.major = 1] \in JobVersion
  BY DEF Published, Superseded, JobVersion

LEMMA BumpColumns ==
    ASSUME NEW v \in JobVersion, NEW current \in JobVersion, NEW major \in BOOLEAN
    PROVE  decide_version_bump(current, v, major) \in JobVersion
<1>1. current.major \in Nat /\ current.minor \in Nat
  BY DEF JobVersion
<1>2. \A m, n \in Nat : [v EXCEPT !.major = m, !.minor = n] \in JobVersion
  BY DEF JobVersion
<1>3. decide_version_bump(current, v, major) \in JobVersion
  <2>1. CASE major \/ current.content # v.content
    <3>1. current.major + 1 \in Nat /\ 0 \in Nat
      BY <1>1
    <3>2. decide_version_bump(current, v, major)
             = [v EXCEPT !.major = current.major + 1, !.minor = 0]
      BY <2>1 DEF decide_version_bump
    <3> QED
      BY <1>2, <3>1, <3>2
  <2>2. CASE ~(major \/ current.content # v.content)
    <3>1. current.minor + 1 \in Nat
      BY <1>1
    <3>2. decide_version_bump(current, v, major)
             = [v EXCEPT !.major = current.major, !.minor = current.minor + 1]
      BY <2>2 DEF decide_version_bump
    <3> QED
      BY <1>1, <1>2, <3>1, <3>2
  <2> QED
    BY <2>1, <2>2
<1> QED
  BY <1>3

LEMMA ReleaseColumns ==
    ASSUME NEW row \in JobRow, NEW status \in {"open", "paused", "closed", "draft"}
    PROVE  /\ Release(row, status) \in JobRow
           /\ Release(row, status).status = status
           /\ Release(row, status).current = row.draft
           /\ Release(row, status).draft = 0
<1>1. row.draft \in 0..MaxVersions /\ 0 \in 0..MaxVersions
  BY DEF JobRow
<1> QED
  BY <1>1 DEF Release, JobRow

LEMMA PublishKeeps ==
    ASSUME Inv, NEW c \in Clients, NEW j \in Jobs, NEW major \in BOOLEAN,
           publish_job(c, j, major), UNCHANGED resumeVars
    PROVE  Inv'
<1> DEFINE d     == job[j].draft
           k     == job[j].current
           draft == version[j][d]
           old   == version[j][k]
<1>1. Live(j) /\ d \in 1..Len(version[j]) /\ draft \in JobVersion /\ draft.status = "draft"
  BY RowFacts DEF publish_job
<1>2. CASE k = 0
  <2> DEFINE edited == [version[j] EXCEPT ![d] = Published([draft EXCEPT !.major = 1])]
  <2>1. Edit(c, j, Release(job[j], "open"), edited, None)
    BY <1>2 DEF publish_job
  <2> DEFINE first == [draft EXCEPT !.major = 1]
  <2>0. first \in JobVersion
    BY <1>1, PublishedColumns
  <2>2. Published(first) \in JobVersion /\ Published(first).status = "published"
    BY <2>0, PublishedColumns
  <2>3. /\ edited \in Seq(JobVersion) /\ Len(edited) = Len(version[j])
        /\ edited[d].status = "published"
        /\ \A i \in 1..Len(version[j]) : i # d => edited[i] = version[j][i]
    BY <1>1, <2>2, RowFacts, ExceptSeq
  <2> HIDE DEF edited
  <2>4. \A i \in 1..Len(version[j]) : edited[i].status = "draft" => version[j][i].status = "draft"
    BY <1>1, <2>3
  <2> DEFINE row == Release(job[j], "open")
  <2>5. d # 0 /\ job[j] \in JobRow
    BY <1>1, RowFacts
  <2>6. /\ row \in JobRow /\ row.status = "open"
        /\ row.current = d /\ row.draft = 0
    BY <2>5, ReleaseColumns
  <2>7. Edit(c, j, row, edited, None)
    BY <2>1
  <2> HIDE DEF row
  <2> QED
    BY <1>1, <2>3, <2>4, <2>5, <2>6, <2>7, EditKeeps
<1>3. CASE k # 0
  <2> DEFINE new    == Published(decide_version_bump(old, draft, major))
             edited == [version[j] EXCEPT ![d] = new, ![k] = Superseded(old)]
  <2>1. Edit(c, j, Release(job[j], job[j].status), edited, None)
    BY <1>3 DEF publish_job
  <2>2. k \in 1..Len(version[j]) /\ old \in JobVersion /\ k # d
    <3>1. /\ k \in 0..Len(version[j]) /\ Len(version[j]) \in Nat
          /\ k # 0 => version[j][k].status = "published"
          /\ d # 0 => version[j][d].status = "draft"
          /\ \A i \in 1..Len(version[j]) : version[j][i] \in JobVersion
      BY <1>1, RowFacts
    <3>2. k \in 1..Len(version[j])
      BY <1>3, <3>1
    <3> QED
      BY <1>1, <1>3, <3>1, <3>2
  <2>3. /\ new \in JobVersion /\ new.status = "published"
        /\ Superseded(old) \in JobVersion /\ Superseded(old).status = "superseded"
    <3> DEFINE bumped == decide_version_bump(old, draft, major)
    <3>1. bumped \in JobVersion
      BY <1>1, <2>2, BumpColumns
    <3>3. Superseded(old) \in JobVersion /\ Superseded(old).status = "superseded"
      BY <2>2, PublishedColumns
    <3> HIDE DEF bumped
    <3>2. Published(bumped) \in JobVersion /\ Published(bumped).status = "published"
      BY <3>1, PublishedColumns
    <3> QED
      BY <3>2, <3>3 DEF bumped
  <2> HIDE DEF new
  <2> DEFINE first == [version[j] EXCEPT ![d] = new]
  <2>4. /\ first \in Seq(JobVersion) /\ Len(first) = Len(version[j])
        /\ \A i \in 1..Len(version[j]) : first[i] = IF i = d THEN new ELSE version[j][i]
    BY <1>1, <2>3, RowFacts, ExceptSeq
  <2>5. edited = [first EXCEPT ![k] = Superseded(old)]
    OBVIOUS
  <2> HIDE DEF first, edited
  <2>6. /\ edited \in Seq(JobVersion) /\ Len(edited) = Len(version[j])
        /\ \A i \in 1..Len(version[j]) : edited[i] = IF i = k THEN Superseded(old) ELSE first[i]
    BY <2>2, <2>3, <2>4, <2>5, ExceptSeq
  <2>7. edited[d].status = "published"
    BY <1>1, <2>2, <2>3, <2>4, <2>6
  <2>8. \A i \in 1..Len(version[j]) : edited[i].status = "draft" => version[j][i].status = "draft"
    BY <2>3, <2>4, <2>6
  <2>9. job[j].status \in {"open", "paused", "closed", "draft"} /\ job[j].status # "draft"
    BY <1>1, <1>3, RowFacts DEF JobRow
  <2> DEFINE row == Release(job[j], job[j].status)
  <2>10. /\ row \in JobRow /\ row.status # "draft"
         /\ row.current = d /\ row.draft = 0
    <3>1. job[j] \in JobRow /\ job[j].draft = d
      BY <1>1, RowFacts
    <3> QED
      BY <2>9, <3>1, ReleaseColumns
  <2> HIDE DEF row
  <2>11. Edit(c, j, row, edited, None) /\ d # 0
    BY <1>1, <2>1 DEF row
  <2> QED
    BY <1>1, <2>6, <2>7, <2>8, <2>10, <2>11, EditKeeps
<1> QED
  BY <1>2, <1>3

LEMMA RemoveKeeps ==
    ASSUME Inv, NEW c \in Clients, NEW j \in Jobs, remove_job(c, j), UNCHANGED resumeVars
    PROVE  Inv'
<1> DEFINE h == [op |-> "remove", job |-> j]
<1>1. h \in Handler /\ Load(c, h) /\ UNCHANGED <<job, version, app>>
  BY DEF Handler, JobHandler, remove_job
<1>2. Holds(h)
  BY DEF Holds
<1> QED
  BY <1>1, <1>2, LoadKeeps

LEMMA JobRequestKeeps ==
    ASSUME Inv, NEW c \in Clients, NEW j \in Jobs, JobRequest(c, j), UNCHANGED resumeVars
    PROVE  Inv'
<1>1. CASE \E content \in Contents \cup {Blank} :
              save_job_draft(c, j, content) \/ apply_ai_task_result(c, j, content)
  BY <1>1, WriteDraftKeeps DEF save_job_draft, apply_ai_task_result
<1> QED
  BY <1>1, RemoveKeeps, CopyToDraftKeeps, EnsureDraftKeeps, PublishKeeps, ChangeStatusKeeps
  DEF JobRequest

-----------------------------------------------------------------------------
(* Commits that change jobs. *)

LEMMA AppFacts ==
    ASSUME Inv, NEW a \in Rows(app)
    PROVE  /\ app[a] \in Application /\ app[a].candidate <= candidates
           /\ app[a].job \in Jobs /\ Live(app[a].job)
           /\ Binding(app[a])
<1>1. app[a] \in Application
  BY ElementOfSeq DEF Inv, TypeOK, Rows
<1>2. app[a].job \in Jobs
  BY <1>1 DEF Application
<1> QED
  BY <1>1, <1>2 DEF Inv, TypeOK, Bound, Binding

LEMMA AppCandidates ==
    ASSUME Inv
    PROVE  \A a \in Rows(app) : app[a].candidate \in Nat /\ app[a].candidate <= candidates
<1>1. \A a \in Rows(app) : app[a].candidate <= candidates
  BY DEF Inv, TypeOK
<1>2. ASSUME NEW a \in Rows(app) PROVE app[a].candidate \in Nat
  <2>1. app[a] \in Application
    BY AppFacts
  <2> QED
    BY <2>1 DEF Application
<1> QED
  BY <1>1, <1>2

\* What an application is bound to stays good for it.
LEMMA BindingStays ==
    ASSUME TypeOK, JobsGrow, Len(rv) <= Len(rv'), Len(rv') \in Nat,
           \A v \in Rows(rv) : SameVersion(rv[v], rv'[v]),
           NEW row \in Application, Len(version'[row.job]) \in Nat,
           Binding(row), Live(row.job)'
    PROVE  Binding(row)'
<1>1. row.job \in Jobs
  BY DEF Application
<1>2. Rows(rv) \subseteq Rows(rv')
  <2>1. Len(rv) \in Nat
    BY LenProperties DEF TypeOK
  <2> QED
    BY <2>1 DEF Rows
<1>3. Released(row.job, row.version) => Released(row.job, row.version)'
  BY <1>1, ReleasedStays
<1>4. ASSUME row.resume_version \in Rows(rv), WasConfirmed(row.resume_version)
      PROVE  WasConfirmed(row.resume_version)'
  BY <1>2, <1>4 DEF WasConfirmed, SameVersion
<1>5. ASSUME row.resume_version \in Rows(rv)
      PROVE  /\ row.resume_version \in Rows(rv')
             /\ rv'[row.resume_version].kind = rv[row.resume_version].kind
  BY <1>2, <1>5 DEF SameVersion
<1> QED
  BY <1>3, <1>4, <1>5 DEF Binding

LEMMA JobTablesKeep ==
    ASSUME Inv, JobsGrow, UNCHANGED <<app, resumeVars>>, JobTypeOK', Pointers',
           \A a \in Rows(app) : Live(app[a].job)',
           req' \in [Clients -> Handler \cup {None}],
           \A d \in Clients : req'[d] # None => req'[d] = req[d]
    PROVE  Inv'
<1>1. TypeOK'
  BY DEF Inv, TypeOK, resumeVars, taskVars, Rows
<1>2. Requests'
  BY <1>1, RequestsStay, SameResumesGrow DEF Inv
<1>3. Bound'
  <2>1. rv' = rv /\ app' = app /\ Len(rv) \in Nat
    BY LenProperties DEF Inv, TypeOK, resumeVars
  <2>2. ASSUME NEW a \in Rows(app)
        PROVE  Binding(app[a])'
    <3>1. PICK row \in Application : row = app[a]
      BY AppFacts
    <3>2. row.job \in Jobs /\ Live(row.job)' /\ Binding(row)
      BY <2>2, <3>1, AppFacts
    <3>3. Len(version'[row.job]) \in Nat
      BY <3>2, LenProperties DEF JobTypeOK
    <3>4. Binding(row)'
      BY <2>1, <3>2, <3>3, BindingStays DEF Inv, SameVersion
    <3> QED
      BY <2>1, <3>1, <3>4
  <2> QED
    BY <2>1, <2>2 DEF Bound
<1>4. rv' = rv /\ task' = task /\ saving' = saving
  BY DEF resumeVars, taskVars
<1>5. Confirmations'
  BY <1>4 DEF Inv, Confirmations, WasConfirmed, Rows
<1>6. OwnTasks'
  BY <1>4 DEF Inv, OwnTasks, Rows
<1>7. Saving'
  BY <1>4 DEF Inv, Saving, VersionHolds, SameVersion, Rows
<1>8. ParsingAwaitsTask'
  BY <1>4 DEF Inv, ParsingAwaitsTask, Rows
<1> QED
  BY <1>1, <1>2, <1>3, <1>5, <1>6, <1>7, <1>8 DEF Inv

\* One job changes.
LEMMA JobMoves ==
    ASSUME Inv, NEW j \in Jobs, NEW row \in JobRow, NEW rows \in Seq(JobVersion),
           job' = [job EXCEPT ![j] = row], version' = [version EXCEPT ![j] = rows],
           Len(rows) <= MaxVersions, Pointing(row, rows),
           \/ job[j] = None
           \/ /\ Live(j) /\ Len(version[j]) <= Len(rows)
              /\ \A i \in 1..Len(version[j]) :
                    version[j][i].status # "draft" => rows[i].status # "draft"
              /\ job[j].status # "draft" => row.status # "draft",
           UNCHANGED <<app, resumeVars>>, opened' \in 0..MaxRequests,
           req' \in [Clients -> Handler \cup {None}],
           \A d \in Clients : req'[d] # None => req'[d] = req[d]
    PROVE  Inv'
<1>1. /\ \A k \in Jobs : k # j => job'[k] = job[k] /\ version'[k] = version[k]
      /\ job'[j] = row /\ version'[j] = rows
      /\ job' \in [Jobs -> JobRow \cup {None, Deleted}]
      /\ version' \in [Jobs -> Seq(JobVersion)]
  BY DEF Inv, TypeOK, JobTypeOK
<1>2. row \notin {None, Deleted}
  OBVIOUS
<1>3. Live(j)' /\ \A k \in Jobs : k # j => (Live(k)' <=> Live(k))
  BY <1>1, <1>2 DEF Live
<1>4. JobTypeOK'
  <2>1. ASSUME NEW k \in Jobs
        PROVE  Len(version'[k]) <= IF Live(k)' THEN MaxVersions ELSE 0
    <3>1. CASE k = j
      BY <1>1, <1>3, <3>1
    <3>2. CASE k # j
      <4>1. Len(version[k]) <= IF Live(k) THEN MaxVersions ELSE 0
        BY DEF Inv, TypeOK, JobTypeOK
      <4> QED
        BY <1>1, <1>3, <3>2, <4>1
    <3> QED
      BY <3>1, <3>2
  <2> QED
    BY <1>1, <2>1 DEF JobTypeOK, Live
<1>5. JobsGrow
  <2>1. \A k \in Jobs : Len(version[k]) \in Nat
    BY LenProperties DEF Inv, TypeOK, JobTypeOK
  <2> QED
    BY <1>1, <1>2, <1>3, <2>1 DEF JobsGrow
<1>6. Pointers'
  BY <1>1, <1>3 DEF Inv, Pointers, Pointing
<1>7. \A a \in Rows(app) : Live(app[a].job)'
  <2>1. \A a \in Rows(app) : app[a].job \in Jobs /\ Live(app[a].job)
    BY AppFacts
  <2> QED
    BY <1>3, <2>1
<1> QED
  BY <1>1, <1>4, <1>5, <1>6, <1>7, JobTablesKeep

LEMMA NewJobKeeps ==
    ASSUME Inv, NewJob, UNCHANGED resumeVars
    PROVE  Inv'
<1>1. PICK j \in Jobs, content \in Contents \cup {Blank} : create_job_with_draft(j, content)
  <2>1. CASE \E j \in Jobs, content \in Contents : create_job(j, content)
    BY <2>1 DEF create_job
  <2>2. CASE \E j, source \in Jobs : copy_job(j, source)
    <3>1. PICK j \in Jobs, source \in Jobs : copy_job(j, source)
      BY <2>2
    <3> DEFINE i == IF job[source].current # 0 THEN job[source].current ELSE job[source].draft
    <3>2. Live(source) /\ i # 0 /\ create_job_with_draft(j, version[source][i].content)
      BY <3>1 DEF copy_job
    <3>3. version[source][i] \in JobVersion
      <4>1. /\ job[source].current \in 0..Len(version[source])
            /\ job[source].draft \in 0..Len(version[source])
        BY <3>2, RowFacts
      <4>2. Len(version[source]) \in 0..MaxVersions
        BY <3>2, RowFacts
      <4>3. i \in 1..Len(version[source])
        BY <3>2, <4>1, <4>2
      <4> HIDE DEF i
      <4>4. version[source] \in Seq(JobVersion)
        BY <3>2, RowFacts
      <4> QED
        BY <4>3, <4>4, ElementOfSeq
    <3>4. version[source][i].content \in Contents \cup {Blank}
      BY <3>3 DEF JobVersion
    <3> QED
      BY <3>2, <3>4
  <2> QED
    BY <2>1, <2>2 DEF NewJob
<1> DEFINE row  == [status |-> "draft", current |-> 0, draft |-> 1]
           v    == create_draft_version(content, 0)
           rows == <<v>>
<1>2. /\ job[j] = None /\ UNCHANGED <<app, opened, req>>
      /\ job' = [job EXCEPT ![j] = row] /\ version' = [version EXCEPT ![j] = rows]
  BY <1>1 DEF create_job_with_draft
<1>3. 0 \in 0..MaxVersions /\ v \in JobVersion /\ v.status = "draft"
  BY DraftColumns
<1> HIDE DEF v
<1>4. rows \in Seq(JobVersion) /\ Len(rows) = 1 /\ rows[1] = v
  BY <1>3
<1> HIDE DEF rows
<1>5. row \in JobRow /\ row.status = "draft" /\ row.current = 0 /\ row.draft = 1
  BY DEF JobRow
<1> HIDE DEF row
<1>6. Pointing(row, rows)
  BY <1>3, <1>4, <1>5 DEF Pointing
<1>7. /\ opened' \in 0..MaxRequests /\ req' \in [Clients -> Handler \cup {None}]
      /\ Len(rows) <= MaxVersions
  BY <1>2, <1>4 DEF Inv, TypeOK, JobTypeOK
<1> QED
  BY <1>2, <1>4, <1>5, <1>6, <1>7, JobMoves

LEMMA CommitEditKeeps ==
    ASSUME Inv, NEW c \in Clients, CommitEdit(c), UNCHANGED resumeVars
    PROVE  Inv'
<1> DEFINE e    == req[c]
           j    == e.job
           n    == Len(version[j])
           rows == FlushVersions(version[j], e.versions, e.edited)
<1>1. e \in Handler /\ e.op = "job" /\ EditHolds(e)
  BY DEF CommitEdit, Running, Inv, TypeOK, Requests, Holds
<1>2. /\ j \in Jobs /\ e.row \in JobRow /\ e.new \in JobRow
      /\ e.versions \in Seq(JobVersion) /\ e.edited \in Seq(JobVersion)
      /\ e.added \in JobVersion \cup {None}
      /\ Len(e.edited) = Len(e.versions) /\ Len(e.versions) \in Nat
  BY <1>1, HandlerColumns, LenProperties DEF EditHolds
<1>3. Live(j) /\ UNCHANGED app /\ Done(c)
  BY DEF CommitEdit
<1>4. /\ Len(e.versions) <= n
      /\ e.row.status # "draft" => job[j].status # "draft"
      /\ \A i \in 1..Len(e.versions) : e.edited[i].status = "draft" => e.versions[i].status = "draft"
      /\ Publishing(e) \/ Keeping(e)
      /\ e.row.status = "draft" => e.row.draft = 1
  BY <1>1, <1>3 DEF EditHolds
<1>5. /\ job[j] \in JobRow /\ version[j] \in Seq(JobVersion) /\ n \in 0..MaxVersions
      /\ job[j].current \in 0..n /\ job[j].draft \in 0..n
      /\ Pointing(job[j], version[j])
  <2> HIDE DEF e, j
  <2> QED
    BY <1>2, <1>3, RowFacts DEF Inv, Pointers
<1>6. /\ rows \in Seq(JobVersion) /\ Len(rows) = n
      /\ \A i \in 1..n : rows[i].status =
            (IF i <= Len(e.versions) /\ e.edited[i].status # e.versions[i].status
             THEN e.edited[i].status ELSE version[j][i].status)
  <2> DEFINE base   == version[j]
             loaded == e.versions
             edited == e.edited
  <2>1. /\ base \in Seq(JobVersion) /\ loaded \in Seq(JobVersion) /\ edited \in Seq(JobVersion)
        /\ Len(edited) = Len(loaded)
    BY <1>2, <1>5
  <2> HIDE DEF base, loaded, edited
  <2>2. LET new == FlushVersions(base, loaded, edited) IN
        /\ new \in Seq(JobVersion) /\ Len(new) = Len(base)
        /\ \A i \in 1..Len(base) :
              new[i].status =
                 (IF i <= Len(loaded) /\ edited[i].status # loaded[i].status
                  THEN edited[i].status ELSE base[i].status)
    BY <2>1, FlushedVersions
  <2> QED
    BY <2>2 DEF base, loaded, edited
<1>7. /\ req' \in [Clients -> Handler \cup {None}] /\ opened' \in 0..MaxRequests
      /\ \A d \in Clients : req'[d] # None => req'[d] = req[d]
  BY <1>3, DoneKeeps DEF Inv
<1>8. \/ /\ e.added = None
         /\ version' = [version EXCEPT ![j] = rows]
         /\ job' = [job EXCEPT ![j] = Flush(job[j], e.row, e.new)]
      \/ /\ e.added # None /\ n + 1 <= MaxVersions
         /\ version' = [version EXCEPT ![j] = Append(rows, e.added)]
         /\ job' = [job EXCEPT ![j] = Flush(job[j], e.row, [e.new EXCEPT !.draft = n + 1])]
  BY DEF CommitEdit
<1> HIDE DEF rows, n, j, e
<1>9. \A i \in 1..n : version[j][i].status # "draft" => rows[i].status # "draft"
  <2>1. SUFFICES ASSUME NEW i \in 1..n, version[j][i].status # "draft"
                 PROVE  rows[i].status # "draft"
    OBVIOUS
  <2>2. CASE i <= Len(e.versions) /\ e.edited[i].status # e.versions[i].status
    <3>1. i \in 1..Len(e.versions) /\ rows[i].status = e.edited[i].status
      BY <1>2, <1>6, <2>2
    <3>2. e.edited[i].status = "draft" => e.versions[i].status = "draft"
      BY <1>4, <3>1
    <3> QED
      BY <2>2, <3>1, <3>2
  <2>3. CASE ~(i <= Len(e.versions) /\ e.edited[i].status # e.versions[i].status)
    BY <1>6, <2>1, <2>3
  <2> QED
    BY <2>2, <2>3
<1>10. e.new.status = "draft" => e.row.status = "draft"
  BY <1>4 DEF Publishing, Keeping
<1>13. /\ n # 0
       /\ job[j].status = "draft" => job[j].draft = 1 /\ e.row.status = "draft"
       /\ job[j].status # "draft" => rows[1].status # "draft"
  <2>1. /\ n # 0 /\ 1 \in 1..n
        /\ job[j].status = "draft" => job[j].draft = 1
        /\ job[j].status # "draft" => version[j][1].status # "draft"
    BY <1>5 DEF Pointing, n
  <2> QED
    BY <1>4, <1>9, <2>1
<1>11. CASE e.added = None
  <2> DEFINE row == Flush(job[j], e.row, e.new)
  <2>1. /\ row \in JobRow
        /\ row.status = (IF e.new.status = e.row.status THEN job[j].status ELSE e.new.status)
        /\ row.current = (IF e.new.current = e.row.current THEN job[j].current ELSE e.new.current)
        /\ row.draft = (IF e.new.draft = e.row.draft THEN job[j].draft ELSE e.new.draft)
    <3>1. job[j] \in JobRow /\ e.row \in JobRow /\ e.new \in JobRow
      BY <1>2, <1>5
    <3> QED
      BY <3>1, JobFlush
  <2> HIDE DEF row
  <2>2. job[j].status # "draft" => row.status # "draft"
    BY <1>10, <2>1
  <2>3. ASSUME Publishing(e) PROVE Pointing(row, rows)
    <3>0. PICK d \in 1..Len(e.versions) : d = e.row.draft
      BY <2>3 DEF Publishing
    <3>1. /\ d \in 1..Len(e.versions) /\ d # e.row.current /\ e.new.current = d
          /\ e.new.draft = 0 /\ e.new.status # "draft"
          /\ e.versions[d].status = "draft" /\ e.edited[d].status = "published"
      BY <2>3, <3>0 DEF Publishing
    <3>2. d \in 1..n
      BY <1>2, <1>4, <1>5, <3>1
    <3>3. row.current = d /\ row.draft = 0 /\ row.status # "draft"
      BY <1>4, <2>1, <3>0, <3>1
    <3>4. rows[d].status = "published"
      <4>1. d <= Len(e.versions) /\ e.edited[d].status # e.versions[d].status
        BY <1>2, <3>1
      <4>2. rows[d].status = e.edited[d].status
        BY <1>6, <3>2, <4>1
      <4> QED
        BY <3>1, <4>2
    <3>5. rows[1].status # "draft"
      BY <1>4, <1>13, <3>0, <3>4
    <3> QED
      BY <1>5, <1>6, <1>13, <3>2, <3>3, <3>4, <3>5 DEF Pointing
  <2>4. ASSUME Keeping(e) PROVE Pointing(row, rows)
    <3>1. /\ row.current = job[j].current /\ row.draft = job[j].draft
          /\ row.status = "draft" <=> job[j].status = "draft"
      BY <1>4, <2>1, <2>4 DEF Keeping
    <3>2. \A i \in 1..n : rows[i].status = version[j][i].status
      BY <1>2, <1>6, <2>4 DEF Keeping
    <3>3. /\ job[j].current # 0 => rows[job[j].current].status = "published"
          /\ job[j].draft # 0 => rows[job[j].draft].status = "draft"
      <4>1. /\ job[j].current # 0 => job[j].current \in 1..n
            /\ job[j].draft # 0 => job[j].draft \in 1..n
        BY <1>5
      <4> QED
        BY <1>5, <3>2, <4>1 DEF Pointing
    <3>4. job[j].status = "draft" <=> job[j].current = 0
      BY <1>5 DEF Pointing
    <3> QED
      BY <1>5, <1>6, <1>13, <3>1, <3>3, <3>4 DEF Pointing
  <2>5. Pointing(row, rows)
    BY <1>4, <2>3, <2>4
  <2>6. job' = [job EXCEPT ![j] = row] /\ version' = [version EXCEPT ![j] = rows]
    BY <1>8, <1>11 DEF row
  <2>7. Len(rows) <= MaxVersions /\ n <= Len(rows) /\ n = Len(version[j])
    BY <1>5, <1>6 DEF n
  <2> QED
    BY <1>2, <1>3, <1>6, <1>7, <1>9, <2>1, <2>2, <2>5, <2>6, <2>7, JobMoves
<1>12. CASE e.added # None
  <2> DEFINE new == [e.new EXCEPT !.draft = n + 1]
             row == Flush(job[j], e.row, new)
             all == Append(rows, e.added)
  <2>1. n + 1 \in 1..MaxVersions /\ n + 1 \in 0..MaxVersions /\ n \in Nat
    BY <1>5, <1>8, <1>12
  <2>2. /\ e.new.current = e.row.current /\ e.row.draft = 0 /\ e.added.status = "draft"
        /\ e.new.status = "draft" <=> e.row.status = "draft"
        /\ \A i \in 1..Len(e.versions) : e.edited[i].status = e.versions[i].status
    BY <1>4, <1>12 DEF Publishing, Keeping
  <2>3. /\ new \in JobRow /\ new.status = e.new.status /\ new.current = e.new.current
        /\ new.draft = n + 1
    BY <1>2, <2>1 DEF JobRow
  <2> HIDE DEF new
  <2>4. /\ row \in JobRow
        /\ row.status = (IF new.status = e.row.status THEN job[j].status ELSE new.status)
        /\ row.current = (IF new.current = e.row.current THEN job[j].current ELSE new.current)
        /\ row.draft = (IF new.draft = e.row.draft THEN job[j].draft ELSE new.draft)
    <3>1. job[j] \in JobRow /\ e.row \in JobRow /\ new \in JobRow
      BY <1>2, <1>5, <2>3
    <3> QED
      BY <3>1, JobFlush
  <2> HIDE DEF row
  <2>5. /\ row.current = job[j].current /\ row.draft = n + 1
        /\ row.status = "draft" <=> job[j].status = "draft"
    BY <1>4, <2>1, <2>2, <2>3, <2>4
  <2>6. /\ all \in Seq(JobVersion) /\ Len(all) = n + 1 /\ all[n + 1] = e.added
        /\ \A i \in 1..n : all[i] = rows[i]
    BY <1>2, <1>6, <1>12, AppendProperties
  <2> HIDE DEF all
  <2>7. \A i \in 1..n : all[i].status = version[j][i].status
    BY <1>2, <1>6, <2>2, <2>6
  <2>8. Pointing(row, all)
    <3>1. job[j].current # 0 => all[job[j].current].status = "published"
      <4>1. job[j].current # 0 => version[j][job[j].current].status = "published"
        BY <1>5 DEF Pointing
      <4>2. job[j].current # 0 => job[j].current \in 1..n
        <5> HIDE DEF n
        <5> QED
          BY <1>5
      <4> QED
        BY <2>7, <4>1, <4>2
    <3>2. job[j].status = "draft" <=> job[j].current = 0
      BY <1>5 DEF Pointing
    <3>3. row.status # "draft" /\ all[1].status # "draft" /\ n + 1 # 0
      <4>1. job[j].status # "draft" /\ row.status # "draft"
        BY <1>4, <1>13, <2>2, <2>5
      <4>2. 1 \in 1..n /\ n + 1 # 0
        BY <1>13, <2>1
      <4> QED
        BY <1>13, <2>6, <4>1, <4>2
    <3>4. row.status = "draft" <=> row.current = 0
      BY <1>5, <2>2, <2>5, <3>2, <3>3
    <3> QED
      BY <1>5, <2>1, <2>2, <2>5, <2>6, <3>1, <3>3, <3>4 DEF Pointing
  <2>9. job' = [job EXCEPT ![j] = row] /\ version' = [version EXCEPT ![j] = all]
    BY <1>8, <1>12 DEF row, new, all
  <2>10. /\ Len(all) <= MaxVersions /\ Len(version[j]) <= Len(all)
         /\ \A i \in 1..Len(version[j]) : version[j][i].status # "draft" => all[i].status # "draft"
         /\ job[j].status # "draft" => row.status # "draft"
    <3>1. Len(all) <= MaxVersions /\ Len(version[j]) <= Len(all)
      <4>1. n \in Nat /\ n + 1 \in 1..MaxVersions /\ Len(all) = n + 1
        BY <2>1, <2>6
      <4>2. Len(version[j]) = n
        BY DEF n
      <4> HIDE DEF n
      <4> QED
        BY <4>1, <4>2, BoundsAssumption
    <3>2. \A i \in 1..Len(version[j]) :
             version[j][i].status # "draft" => all[i].status # "draft"
      BY <2>7 DEF n
    <3> QED
      BY <2>5, <3>1, <3>2
  <2> QED
    BY <1>2, <1>3, <1>7, <2>4, <2>6, <2>8, <2>9, <2>10, JobMoves
<1> QED
  BY <1>11, <1>12

LEMMA CommitRemoveKeeps ==
    ASSUME Inv, NEW c \in Clients, CommitRemove(c), UNCHANGED resumeVars
    PROVE  Inv'
<1>0. PICK j \in Jobs : j = req[c].job
  BY HandlerColumns DEF CommitRemove, Running, Inv, TypeOK
<1>1. /\ j \in Jobs /\ Live(j) /\ Done(c) /\ UNCHANGED app
      /\ \A a \in Rows(app) : app[a].job # j
      /\ job' = [job EXCEPT ![j] = Deleted] /\ version' = [version EXCEPT ![j] = <<>>]
  BY <1>0 DEF CommitRemove, delete_versions, Rows
<1>2. /\ \A k \in Jobs : k # j => job'[k] = job[k] /\ version'[k] = version[k]
      /\ job'[j] = Deleted /\ version'[j] = <<>>
      /\ job' \in [Jobs -> JobRow \cup {None, Deleted}]
      /\ version' \in [Jobs -> Seq(JobVersion)]
  BY <1>1 DEF Inv, TypeOK, JobTypeOK
<1>3. ~Live(j)' /\ \A k \in Jobs : k # j => (Live(k)' <=> Live(k))
  BY <1>2 DEF Live
<1>4. /\ req' \in [Clients -> Handler \cup {None}] /\ opened' \in 0..MaxRequests
      /\ \A d \in Clients : req'[d] # None => req'[d] = req[d]
  BY <1>1, DoneKeeps DEF Inv
<1>5. JobTypeOK'
  <2>1. Len(version'[j]) = 0
    BY <1>2
  <2>2. ASSUME NEW k \in Jobs, k # j
        PROVE  Len(version'[k]) <= IF Live(k)' THEN MaxVersions ELSE 0
    BY <1>2, <1>3, <2>2 DEF Inv, TypeOK, JobTypeOK
  <2>3. Len(version'[j]) <= IF Live(j)' THEN MaxVersions ELSE 0
    BY <1>3, <2>1
  <2> QED
    BY <1>2, <1>4, <2>2, <2>3 DEF JobTypeOK, Live
<1>6. JobsGrow
  <2>1. \A k \in Jobs : Len(version[k]) \in Nat
    BY LenProperties DEF Inv, TypeOK, JobTypeOK
  <2> QED
    BY <1>2, <1>3, <2>1 DEF JobsGrow
<1>7. Pointers'
  <2>1. ASSUME NEW k \in Jobs, Live(k)'
        PROVE  k # j /\ Live(k) /\ job'[k] = job[k] /\ version'[k] = version[k]
    BY <1>2, <1>3, <2>1
  <2>2. ASSUME NEW k \in Jobs, Live(k)'
        PROVE  Pointing(job'[k], version'[k])
    <3>1. Pointing(job[k], version[k])
      BY <2>1, <2>2 DEF Inv, Pointers
    <3> QED
      BY <2>1, <2>2, <3>1
  <2> QED
    BY <2>2 DEF Pointers
<1>8. \A a \in Rows(app) : Live(app[a].job)'
  <2>1. \A a \in Rows(app) : app[a].job \in Jobs /\ Live(app[a].job)
    BY AppFacts
  <2> QED
    BY <1>1, <1>3, <2>1
<1> QED
  BY <1>1, <1>4, <1>5, <1>6, <1>7, <1>8, JobTablesKeep

-----------------------------------------------------------------------------
(* Requests on resumes. *)

LEMMA VersionFacts ==
    ASSUME Inv, NEW v \in Rows(rv)
    PROVE  /\ rv[v] \in ResumeVersion /\ v \in 1..MaxResumeRows
           /\ rv[v].resume \in Rows(resume)
           /\ rv[v].task # 0 => rv[v].task \in Rows(task) /\ task[rv[v].task].version = v
           /\ VersionHolds(v, rv[v])
<1>1. rv[v] \in ResumeVersion /\ rv[v].resume \in Rows(resume)
  BY ElementOfSeq DEF Inv, TypeOK, Rows
<1>2. Len(rv) \in Nat /\ Len(task) \in Nat /\ Len(rv) <= MaxResumeRows /\ MaxResumeRows \in Nat
  BY LenProperties DEF Inv, TypeOK
<1>3. v \in 1..MaxResumeRows
  BY <1>2 DEF Rows
<1>4. rv[v].task \in Nat
  BY <1>1 DEF ResumeVersion
<1>5. rv[v].task # 0 => rv[v].task \in Rows(task) /\ task[rv[v].task].version = v
  BY <1>2, <1>4 DEF Inv, OwnTasks, Rows
<1>6. rv[v].task <= Len(task)
  BY <1>2, <1>4, <1>5 DEF Rows
<1> QED
  BY <1>1, <1>3, <1>5, <1>6 DEF VersionHolds, SameVersion

LEMMA TableFacts ==
    ASSUME Inv
    PROVE  /\ Len(resume) \in 0..MaxResumes /\ Len(rv) \in 0..MaxResumeRows
           /\ Len(task) \in 0..MaxTasks /\ Len(app) \in 0..MaxApps
           /\ candidates \in 0..MaxCandidates
  BY LenProperties DEF Inv, TypeOK

LEMMA AcceptsReleased ==
    ASSUME Inv, NEW j \in Jobs, Accepts(j)
    PROVE  Live(j) /\ job[j].current \in 1..MaxVersions /\ Released(j, job[j].current)
<1>1. /\ Live(j) /\ job[j].current \in 1..Len(version[j]) /\ Len(version[j]) \in 0..MaxVersions
      /\ version[j][job[j].current].status = "published"
  BY RowFacts DEF Accepts
<1> QED
  BY <1>1 DEF Released, Live

LEMMA UploadLoads ==
    ASSUME Inv, NEW c \in Clients, NEW p \in 0..MaxCandidates, NEW j \in {None} \cup Jobs,
           NEW extracted \in BOOLEAN, upload_resumes(c, p, j, extracted)
    PROVE  Inv'
<1> DEFINE h == [op |-> "upload", candidate |-> p, job |-> j, extracted |-> extracted,
                 version |-> IF j = None THEN 0 ELSE job[j].current]
<1>1. Load(c, h) /\ UNCHANGED <<job, version, app, resumeVars>> /\ p <= candidates
  BY DEF upload_resumes
<1>2. j # None => /\ j \in Jobs /\ job[j].current \in 1..MaxVersions
                  /\ Released(j, job[j].current)
  BY AcceptsReleased DEF upload_resumes
<1>3. (IF j = None THEN 0 ELSE job[j].current) \in 0..MaxVersions
  BY <1>2
<1>4. h \in Handler
  BY <1>3 DEF Handler
<1>5. /\ h.op = "upload" /\ h.candidate = p /\ h.job = j
      /\ j # None => h.version = job[j].current
  OBVIOUS
<1> HIDE DEF h
<1>6. Holds(h)
  BY <1>1, <1>2, <1>5 DEF Holds
<1> QED
  BY <1>1, <1>4, <1>6, LoadKeeps

LEMMA LoadVersionKeeps ==
    ASSUME Inv, NEW c \in Clients, NEW v \in Rows(rv), NEW op \in {"draft", "reparse"},
           LoadVersion(c, op, v)
    PROVE  Inv'
<1> DEFINE h == [op |-> op, version |-> v, row |-> rv[v]]
<1>1. Load(c, h) /\ UNCHANGED <<job, version, app, resumeVars>>
  BY DEF LoadVersion
<1>2. h \in Handler
  BY VersionFacts DEF Handler
<1>3. Holds(h)
  BY VersionFacts DEF Holds
<1> QED
  BY <1>1, <1>2, <1>3, LoadKeeps

LEMMA ConfirmLoads ==
    ASSUME Inv, NEW c \in Clients, NEW v \in Rows(rv), NEW link \in 0..MaxCandidates,
           confirm_resume_version(c, v, link)
    PROVE  Inv'
<1> DEFINE r     == rv[v].resume
           p     == IF link = 0 THEN resume[r].candidate ELSE link
           label == count_confirmed_versions(r) + 1
           h     == [op |-> "confirm", version |-> v, row |-> rv[v], link |-> link,
                     waiting |-> Waiting(p), label |-> label]
<1>1. Load(c, h) /\ UNCHANGED <<job, version, app, resumeVars>>
  BY DEF confirm_resume_version
<1>2. link <= candidates
  BY TableFacts DEF confirm_resume_version
<1>3. /\ Waiting(p) \in SUBSET (1..MaxApps)
      /\ \A a \in Waiting(p) : a \in Rows(app) /\ app[a].resume_version # 0
  <2>1. Waiting(p) \in SUBSET (1..MaxApps)
    BY TableFacts DEF Waiting, Rows
  <2>2. \A a \in Waiting(p) : a \in Rows(app) /\ app[a].resume_version # 0
    BY DEF Waiting, Inv, Bound, Binding
  <2> QED
    BY <2>1, <2>2
<1>4. label \in Nat \ {0}
  <2>1. IsFiniteSet(Rows(rv))
    <3>1. 1 \in Int /\ Len(rv) \in Int
      BY TableFacts
    <3> QED
      BY <3>1, FS_Interval DEF Rows
  <2>2. IsFiniteSet({w \in Rows(rv) : rv[w].resume = r /\ rv[w].kind = "confirmed"})
    BY <2>1, FS_Subset
  <2>3. count_confirmed_versions(r) \in Nat
    BY <2>2, FS_CardinalityType DEF count_confirmed_versions
  <2> QED
    BY <2>3
<1> HIDE DEF p, label
<1>5. h \in Handler
  BY <1>3, <1>4, VersionFacts DEF Handler
<1>6. /\ h.op = "confirm" /\ h.version = v /\ h.row = rv[v] /\ h.link = link
      /\ h.waiting = Waiting(p)
  OBVIOUS
<1> HIDE DEF h
<1>7. Holds(h)
  BY <1>2, <1>3, <1>6, VersionFacts DEF Holds
<1> QED
  BY <1>1, <1>5, <1>7, LoadKeeps

LEMMA ApplicationLoads ==
    ASSUME Inv, NEW c \in Clients, NEW p \in 1..candidates, NEW j \in Jobs, NEW v \in Rows(rv),
           create_application_for_resume(c, p, j, v)
    PROVE  Inv'
<1> DEFINE h == [op |-> "apply", candidate |-> p, job |-> j, version |-> job[j].current,
                 resume_version |-> v]
<1>1. /\ Load(c, h) /\ UNCHANGED <<job, version, app, resumeVars>>
      /\ rv[v].status = "confirmed" /\ Accepts(j)
  BY DEF create_application_for_resume, Applicable
<1>2. /\ p \in 1..MaxCandidates /\ p <= candidates /\ v \in 1..MaxResumeRows
      /\ job[j].current \in 1..MaxVersions /\ Released(j, job[j].current)
  BY <1>1, AcceptsReleased, VersionFacts, TableFacts
<1>3. WasConfirmed(v)
  BY <1>1 DEF Inv, Confirmations
<1>4. h \in Handler
  BY <1>2 DEF Handler
<1>5. /\ h.op = "apply" /\ h.candidate = p /\ h.job = j /\ h.version = job[j].current
      /\ h.resume_version = v
  OBVIOUS
<1> HIDE DEF h
<1>6. Holds(h)
  BY <1>2, <1>3, <1>5 DEF Holds
<1> QED
  BY <1>1, <1>4, <1>6, LoadKeeps

LEMMA ResumeRequestKeeps ==
    ASSUME Inv, NEW c \in Clients, ResumeRequest(c)
    PROVE  Inv'
<1>1. ASSUME NEW v \in Rows(rv), save_draft(c, v) \/ retry_resume_parse_manual_text(c, v)
      PROVE  Inv'
  BY <1>1, LoadVersionKeeps DEF save_draft, retry_resume_parse_manual_text
<1> QED
  BY <1>1, UploadLoads, ConfirmLoads, ApplicationLoads DEF ResumeRequest

LEMMA CandidateLoads ==
    ASSUME Inv, NEW c \in Clients, NEW j \in Jobs, create_job_candidate(c, j)
    PROVE  Inv'
<1> DEFINE i == IF job[j].current # 0 THEN job[j].current ELSE job[j].draft
           h == [op |-> "candidate", job |-> j, version |-> i]
<1>1. Live(j) /\ i # 0 /\ Load(c, h) /\ UNCHANGED <<job, version, app, resumeVars>>
  BY DEF create_job_candidate
<1>2. i \in 1..MaxVersions /\ Given(j, i)
  <2>1. CASE job[j].current # 0
    <3>1. i = job[j].current
      BY <2>1
    <3>2. /\ job[j].current \in 0..Len(version[j])
          /\ job[j].current # 0 => version[j][job[j].current].status = "published"
      BY <1>1, RowFacts
    <3>3. Len(version[j]) \in 0..MaxVersions
      BY <1>1, RowFacts
    <3> HIDE DEF i
    <3>4. i \in 1..Len(version[j]) /\ version[j][i].status = "published"
      BY <2>1, <3>1, <3>2, <3>3
    <3>5. i \in 1..MaxVersions
      BY <3>3, <3>4
    <3> QED
      BY <1>1, <3>4, <3>5 DEF Given, Released, Live
  <2>2. CASE job[j].current = 0
    <3>1. job[j].draft = 1
      BY <1>1, <2>2, RowFacts
    <3>2. i = 1
      BY <2>2, <3>1
    <3> HIDE DEF i
    <3> QED
      BY <1>1, <3>2 DEF Given, Live
  <2> QED
    BY <2>1, <2>2
<1> HIDE DEF i
<1>3. h \in Handler
  BY <1>2 DEF Handler
<1>4. Holds(h)
  BY <1>2 DEF Holds
<1> QED
  BY <1>1, <1>3, <1>4, LoadKeeps

LEMMA CloseLoads ==
    ASSUME Inv, NEW c \in Clients, NEW a \in Rows(app), NEW target \in Jobs \cup {None},
           resolve_close_application(c, a, target)
    PROVE  Inv'
<1> DEFINE i == IF target = None THEN 0 ELSE job[target].current
           h == [op |-> "close", app |-> a, target |-> target, version |-> i]
<1>1. Load(c, h) /\ UNCHANGED <<job, version, app, resumeVars>>
  BY DEF resolve_close_application
<1>2. i \in 0..MaxVersions /\ (target # None => Released(target, i))
  <2>1. CASE target = None
    BY <2>1
  <2>2. CASE target # None
    <3>1. target \in Jobs /\ Live(target) /\ i = job[target].current /\ i # 0
      BY <2>2 DEF resolve_close_application
    <3>2. /\ job[target].current \in 0..Len(version[target])
          /\ job[target].current # 0 => version[target][job[target].current].status = "published"
      BY <3>1, RowFacts
    <3>3. Len(version[target]) \in 0..MaxVersions
      BY <3>1, RowFacts
    <3> HIDE DEF i
    <3>4. i \in 1..Len(version[target]) /\ version[target][i].status = "published"
      BY <3>1, <3>2, <3>3
    <3>5. i \in 0..MaxVersions
      BY <3>3, <3>4
    <3> QED
      BY <3>1, <3>4, <3>5 DEF Released, Live
  <2> QED
    BY <2>1, <2>2
<1>3. a \in 1..MaxApps
  BY TableFacts DEF Rows
<1> HIDE DEF i
<1>4. h \in Handler
  BY <1>2, <1>3 DEF Handler
<1>5. Holds(h)
  BY <1>2 DEF Holds
<1> QED
  BY <1>1, <1>4, <1>5, LoadKeeps

LEMMA MigrateLoads ==
    ASSUME Inv, NEW c \in Clients, NEW a \in Rows(app), NEW i \in 1..MaxVersions,
           migrate_application_version(c, a, i)
    PROVE  Inv'
<1> DEFINE h == [op |-> "migrate", app |-> a, version |-> i]
<1>1. PICK j \in Jobs : j = app[a].job
  BY AppFacts
<1>2. /\ Load(c, h) /\ UNCHANGED <<job, version, app, resumeVars>>
      /\ i \in 1..Len(version[j])
      /\ version[j][i].status = "published" \/ i = job[j].current
  BY <1>1 DEF migrate_application_version
<1>3. Live(j)
  BY <1>1, AppFacts
<1>4. Released(j, i)
  <2>1. job[j].current # 0 => version[j][job[j].current].status = "published"
    BY <1>3, RowFacts
  <2>2. i # 0
    <3>1. Len(version[j]) \in Nat
      BY <1>3, RowFacts
    <3> QED
      BY <1>2, <3>1
  <2>3. version[j][i].status # "draft"
    BY <1>2, <2>1, <2>2
  <2> QED
    BY <1>2, <1>3, <2>3 DEF Released, Live
<1>5. a \in 1..MaxApps
  BY TableFacts DEF Rows
<1>6. h \in Handler
  BY <1>5 DEF Handler
<1>7. Holds(h)
  BY <1>1, <1>4 DEF Holds
<1> QED
  BY <1>2, <1>6, <1>7, LoadKeeps

LEMMA ScreeningLoads ==
    ASSUME Inv, NEW c \in Clients, NEW a \in Rows(app), NEW to \in Pipelines,
           create_screening_decision(c, a, to)
    PROVE  Inv'
<1> DEFINE h == [op |-> "screen", app |-> a, from |-> app[a].pipeline, to |-> to]
<1>1. Load(c, h) /\ UNCHANGED <<job, version, app, resumeVars>> /\ to # "pending_parse"
  BY DEF create_screening_decision
<1>2. a \in 1..MaxApps /\ app[a].pipeline \in Pipelines
  BY TableFacts, AppFacts DEF Rows, Application
<1>3. h \in Handler
  BY <1>2 DEF Handler
<1>4. Holds(h)
  BY <1>1 DEF Holds
<1> QED
  BY <1>1, <1>3, <1>4, LoadKeeps

LEMMA CandidateRequestKeeps ==
    ASSUME Inv, NEW c \in Clients, CandidateRequest(c)
    PROVE  Inv'
  BY CandidateLoads, CloseLoads, MigrateLoads, ScreeningLoads DEF CandidateRequest

-----------------------------------------------------------------------------
(* Commits that change resumes, applications and tasks. *)

LEMMA ResumeStep ==
    ASSUME Inv, UNCHANGED <<job, version>>, ResumesGrow,
           opened' \in 0..MaxRequests, req' \in [Clients -> Handler \cup {None}],
           \A d \in Clients : req'[d] # None => req'[d] = req[d],
           candidates' \in 0..MaxCandidates,
           resume' \in Seq(Resume), Len(resume') <= MaxResumes,
           rv' \in Seq(ResumeVersion), Len(rv') <= MaxResumeRows,
           task' \in Seq(TaskRow), Len(task') <= MaxTasks,
           app' \in Seq(Application), Len(app') <= MaxApps,
           busy' \in [1..MaxTasks -> 0..MaxWorkers],
           saving' \in [1..MaxTasks -> ResumeVersion \cup {None}],
           \A r \in Rows(resume') : resume'[r].candidate <= candidates',
           \A v \in Rows(rv') : rv'[v].resume \in Rows(resume'),
           \A t \in Rows(task') : task'[t].version \in Rows(rv'),
           \A a \in Rows(app') : app'[a].candidate <= candidates',
           Bound', Confirmations', OwnTasks', Saving', ParsingAwaitsTask'
    PROVE  Inv'
<1>1. JobTypeOK'
  BY DEF Inv, TypeOK, JobTypeOK, Live
<1>2. TypeOK'
  BY <1>1 DEF TypeOK, Rows
<1>3. JobsGrow
  BY SameJobsGrow DEF Inv
<1>4. Requests'
  BY <1>2, <1>3, RequestsStay
<1>5. Pointers'
  BY DEF Inv, Pointers, Live
<1> QED
  BY <1>2, <1>4, <1>5 DEF Inv

\* An application stays bound, or is bound anew.
LEMMA BoundKeeps ==
    ASSUME Inv, UNCHANGED <<job, version>>, ResumesGrow, Len(rv') \in Nat,
           \A a \in Rows(app') :
              \/ a \in Rows(app) /\ app'[a] = app[a]
              \/ \E row \in Application : row = app'[a] /\ (Binding(row) \/ Binding(row)')
    PROVE  Bound'
<1>1. JobsGrow
  BY SameJobsGrow DEF Inv
<1>2. ASSUME NEW row \in Application, Binding(row)
      PROVE  Binding(row)'
  <2>1. row.job \in Jobs /\ Live(row.job)'
    BY <1>2 DEF Application, Binding, Live
  <2>2. Len(version'[row.job]) \in Nat
    BY <2>1, LenProperties DEF Inv, TypeOK, JobTypeOK
  <2> QED
    BY <1>1, <1>2, <2>1, <2>2, BindingStays DEF Inv, ResumesGrow
<1>3. ASSUME NEW a \in Rows(app')
      PROVE  Binding(app[a])'
  <2>1. PICK row \in Application : row = app'[a] /\ (Binding(row) \/ Binding(row)')
    BY AppFacts
  <2>2. Binding(row)'
    BY <1>2, <2>1
  <2> QED
    BY <2>1, <2>2
<1> QED
  BY <1>3 DEF Bound

LEMMA ConfirmationsKeep ==
    ASSUME Inv, ResumesGrow, Len(rv') \in Nat,
           \A v \in Rows(rv') : rv'[v].status = "confirmed" =>
              \/ v \in Rows(rv) /\ rv[v].status = "confirmed"
              \/ \E w \in Rows(rv') : rv'[w].kind = "confirmed" /\ (w = v \/ rv'[w].source = v)
    PROVE  Confirmations'
<1>1. ASSUME NEW v \in Rows(rv'), rv'[v].status = "confirmed"
      PROVE  WasConfirmed(v)'
  <2>1. CASE v \in Rows(rv) /\ rv[v].status = "confirmed"
    <3>1. WasConfirmed(v)
      BY <2>1 DEF Inv, Confirmations
    <3> QED
      BY <2>1, <3>1, ConfirmedStays DEF Inv
  <2>2. CASE \E w \in Rows(rv') : rv'[w].kind = "confirmed" /\ (w = v \/ rv'[w].source = v)
    BY <2>2 DEF WasConfirmed
  <2> QED
    BY <1>1, <2>1, <2>2
<1> QED
  BY <1>1 DEF Confirmations

\* A version keeps its task and does not begin to be parsed, or it has none, or it waits
\* for a new one.
LEMMA TasksKeep ==
    ASSUME Inv, ResumesGrow, Len(rv') \in Nat, Len(task') \in Nat,
           \A t \in 1..MaxTasks : saving'[t] = saving[t] \/ saving'[t] = None,
           \A t \in Rows(task) :
              /\ task'[t].version = task[t].version
              /\ task'[t].status \in {"succeeded", "failed"} => task'[t].status = task[t].status,
           \A v \in Rows(rv') :
              \/ /\ v \in Rows(rv) /\ rv'[v].task = rv[v].task
                 /\ rv'[v].status = "parsing" => rv[v].status = "parsing"
              \/ rv'[v].task = 0 /\ rv'[v].status # "parsing"
              \/ /\ rv'[v].task = Len(task) + 1 /\ Len(task) + 1 <= Len(task')
                 /\ task'[Len(task) + 1].version = v /\ task'[Len(task) + 1].status = "pending"
    PROVE  OwnTasks' /\ Saving' /\ ParsingAwaitsTask'
<1>1. /\ Len(rv) \in Nat /\ Len(rv) <= Len(rv')
      /\ Len(task) \in Nat /\ Len(task) <= Len(task')
  BY TableFacts DEF ResumesGrow
<1>2. Rows(rv) \subseteq Rows(rv') /\ Rows(task) \subseteq Rows(task')
  BY <1>1 DEF Rows
<1>3. OwnTasks'
  <2>1. ASSUME NEW v \in Rows(rv'), rv'[v].task # 0
        PROVE  rv'[v].task <= Len(task') /\ task'[rv'[v].task].version = v
    <3>1. CASE v \in Rows(rv) /\ rv'[v].task = rv[v].task
      <4>1. rv[v].task \in Rows(task) /\ task[rv[v].task].version = v
        BY <2>1, <3>1, VersionFacts
      <4>2. task'[rv[v].task].version = task[rv[v].task].version
        BY <4>1
      <4>3. rv[v].task <= Len(task')
        BY <1>1, <4>1 DEF Rows
      <4> QED
        BY <3>1, <4>1, <4>2, <4>3
    <3>2. CASE ~(v \in Rows(rv) /\ rv'[v].task = rv[v].task)
      BY <2>1, <3>2
    <3> QED
      BY <3>1, <3>2
  <2> QED
    BY <2>1 DEF OwnTasks
<1>4. ParsingAwaitsTask'
  <2>1. ASSUME NEW v \in Rows(rv'), rv'[v].status = "parsing"
        PROVE  /\ rv'[v].task # 0 /\ task'[rv'[v].task].version = v
               /\ task'[rv'[v].task].status \notin {"succeeded", "failed"}
    <3>1. CASE v \in Rows(rv) /\ rv'[v].task = rv[v].task /\ rv[v].status = "parsing"
      <4>1. /\ rv[v].task # 0 /\ task[rv[v].task].version = v
            /\ task[rv[v].task].status \notin {"succeeded", "failed"}
        BY <3>1 DEF Inv, ParsingAwaitsTask
      <4>2. rv[v].task \in Rows(task)
        BY <3>1, <4>1, VersionFacts
      <4>3. PICK t \in Rows(task) : t = rv[v].task
        BY <4>2
      <4>4. task'[t].version = task[t].version /\ task'[t].status \notin {"succeeded", "failed"}
        BY <4>1, <4>3
      <4> QED
        BY <3>1, <4>1, <4>3, <4>4
    <3>2. CASE ~(v \in Rows(rv) /\ rv'[v].task = rv[v].task /\ rv[v].status = "parsing")
      <4>1. /\ rv'[v].task = Len(task) + 1
            /\ task'[Len(task) + 1].version = v /\ task'[Len(task) + 1].status = "pending"
        BY <2>1, <3>2
      <4>2. Len(task) + 1 # 0
        BY <1>1
      <4> QED
        BY <4>1, <4>2
    <3> QED
      BY <3>1, <3>2
  <2> QED
    BY <2>1 DEF ParsingAwaitsTask
<1>5. Saving'
  <2>1. ASSUME NEW t \in 1..MaxTasks, saving'[t] # None
        PROVE  /\ t <= Len(task')
               /\ VersionHolds(task[t].version, saving[t])' /\ task'[t].version = task[t].version
               /\ rv'[task'[t].version].task = t /\ rv'[task'[t].version].status = "parsing"
                     => saving'[t].status = "parsing"
    <3>0. saving'[t] = saving[t] /\ saving[t] # None
      BY <2>1
    <3>1. /\ t \in Rows(task)
          /\ VersionHolds(task[t].version, saving[t])
          /\ rv[task[t].version].task = t /\ rv[task[t].version].status = "parsing"
                => saving[t].status = "parsing"
      BY <1>1, <3>0 DEF Inv, Saving, Rows
    <3>2. task'[t].version = task[t].version /\ t <= Len(task')
      <4>1. task'[t].version = task[t].version
        BY <3>1
      <4>2. t <= Len(task')
        BY <1>1, <3>1 DEF Rows
      <4> QED
        BY <4>1, <4>2
    <3> DEFINE v == task[t].version
    <3>3. saving[t] \in ResumeVersion /\ v \in Rows(rv)
      BY <3>0, <3>1 DEF Inv, TypeOK, VersionHolds
    <3>4. PICK w \in Rows(rv) : w = v
      BY <3>3
    <3>5. VersionHolds(w, saving[t])'
      <4>1. PICK row \in ResumeVersion : row = saving[t]
        BY <3>3
      <4>2. VersionHolds(w, row)'
        BY <3>1, <3>4, <4>1, VersionStays DEF Inv
      <4> QED
        BY <3>0, <4>1, <4>2
    <3>6. rv'[w].task = t /\ rv'[w].status = "parsing" => saving[t].status = "parsing"
      <4>1. w \in Rows(rv') /\ t # 0 /\ t # Len(task) + 1
        BY <1>1, <1>2, <3>1 DEF Rows
      <4> QED
        BY <3>1, <3>4, <4>1
    <3> QED
      BY <3>0, <3>2, <3>4, <3>5, <3>6
  <2> QED
    BY <2>1 DEF Saving
<1> QED
  BY <1>3, <1>4, <1>5

\* The table with one version flushed.
LEMMA FlushedRow ==
    ASSUME Inv, NEW v \in Rows(rv), NEW loaded \in ResumeVersion, NEW new \in ResumeVersion,
           SameVersion(loaded, new)
    PROVE  LET rows == [rv EXCEPT ![v] = Flush(rv[v], loaded, new)] IN
           /\ rows \in Seq(ResumeVersion) /\ Len(rows) = Len(rv)
           /\ \A w \in Rows(rv) : SameVersion(rv[w], rows[w]) /\ rows[w] \in ResumeVersion
           /\ \A w \in Rows(rv) : w # v => rows[w] = rv[w]
           /\ rows[v].status = (IF new.status = loaded.status THEN rv[v].status ELSE new.status)
           /\ rows[v].task   = (IF new.task = loaded.task THEN rv[v].task ELSE new.task)
<1> DEFINE row  == Flush(rv[v], loaded, new)
           rows == [rv EXCEPT ![v] = row]
<1>1. rv \in Seq(ResumeVersion) /\ rv[v] \in ResumeVersion
  BY VersionFacts DEF Inv, TypeOK
<1>2. /\ row \in ResumeVersion /\ SameVersion(rv[v], row)
      /\ row.status = (IF new.status = loaded.status THEN rv[v].status ELSE new.status)
      /\ row.task   = (IF new.task = loaded.task THEN rv[v].task ELSE new.task)
  <2>1. PICK db \in ResumeVersion : db = rv[v]
    BY <1>1
  <2>2. LET flushed == Flush(db, loaded, new) IN
        /\ flushed \in ResumeVersion
        /\ flushed.status = (IF new.status = loaded.status THEN db.status ELSE new.status)
        /\ flushed.task   = (IF new.task = loaded.task THEN db.task ELSE new.task)
        /\ SameVersion(loaded, new) => SameVersion(db, flushed)
    BY ResumeFlush
  <2> QED
    BY <2>1, <2>2
<1> HIDE DEF row
<1>3. /\ rows \in Seq(ResumeVersion) /\ Len(rows) = Len(rv)
      /\ \A w \in Rows(rv) : rows[w] = IF w = v THEN row ELSE rv[w]
  BY <1>1, <1>2, ExceptSeq DEF Rows
<1> HIDE DEF rows
<1>4. \A w \in Rows(rv) : SameVersion(rv[w], rows[w]) /\ rows[w] \in ResumeVersion
  BY <1>2, <1>3, VersionFacts DEF SameVersion
<1>5. /\ rows[v].status = (IF new.status = loaded.status THEN rv[v].status ELSE new.status)
      /\ rows[v].task   = (IF new.task = loaded.task THEN rv[v].task ELSE new.task)
      /\ \A w \in Rows(rv) : w # v => rows[w] = rv[w]
  BY <1>2, <1>3
<1> QED
  BY <1>3, <1>4, <1>5 DEF rows, row

LEMMA CommitDraftKeeps ==
    ASSUME Inv, NEW c \in Clients, CommitDraft(c)
    PROVE  Inv'
<1>1. PICK q \in Handler : q = req[c] /\ q.op = "draft" /\ Holds(q)
  BY DEF CommitDraft, Running, Inv, TypeOK, Requests
<1>2. PICK v \in Rows(rv) : v = q.version
  BY <1>1 DEF Holds, VersionHolds
<1>3. PICK row \in ResumeVersion : row = q.row
  BY <1>1, HandlerColumns
<1> DEFINE new  == [row EXCEPT !.draft = "hr"]
           rows == [rv EXCEPT ![v] = Flush(rv[v], row, new)]
<1>4. /\ rv' = rows /\ Done(c)
      /\ UNCHANGED <<job, version, app, candidates, resume, task, busy, saving>>
  BY <1>1, <1>2, <1>3 DEF CommitDraft, taskVars
<1>5. /\ new \in ResumeVersion /\ SameVersion(row, new)
      /\ new.status = row.status /\ new.task = row.task
  BY DEF ResumeVersion, SameVersion
<1> HIDE DEF new
<1>6. /\ rv' \in Seq(ResumeVersion) /\ Len(rv') = Len(rv)
      /\ \A w \in Rows(rv) : /\ SameVersion(rv[w], rv'[w]) /\ rv'[w] \in ResumeVersion
                             /\ rv'[w].status = rv[w].status /\ rv'[w].task = rv[w].task
  <2>1. /\ rows \in Seq(ResumeVersion) /\ Len(rows) = Len(rv)
        /\ \A w \in Rows(rv) : SameVersion(rv[w], rows[w]) /\ rows[w] \in ResumeVersion
        /\ \A w \in Rows(rv) : w # v => rows[w] = rv[w]
        /\ rows[v].status = rv[v].status /\ rows[v].task = rv[v].task
    BY <1>5, FlushedRow
  <2> HIDE DEF rows
  <2>2. rv' = rows
    BY <1>4
  <2> QED
    BY <2>1, <2>2
<1> HIDE DEF rows
<1>7. ResumesGrow
  BY <1>4, <1>6, TableFacts DEF ResumesGrow, SameApplication
<1>8. /\ req' \in [Clients -> Handler \cup {None}] /\ opened' \in 0..MaxRequests
      /\ \A d \in Clients : req'[d] # None => req'[d] = req[d]
  BY <1>4, DoneKeeps DEF Inv
<1>9. Rows(rv') = Rows(rv) /\ Rows(app') = Rows(app) /\ Rows(task') = Rows(task)
      /\ Rows(resume') = Rows(resume) /\ Len(rv') \in Nat /\ Len(task') \in Nat
  BY <1>4, <1>6, TableFacts DEF Rows
<1>10. Bound'
  BY <1>4, <1>7, <1>9, BoundKeeps
<1>11. Confirmations'
  BY <1>6, <1>7, <1>9, ConfirmationsKeep
<1>12. OwnTasks' /\ Saving' /\ ParsingAwaitsTask'
  BY <1>4, <1>6, <1>7, <1>9, TasksKeep
<1>13. \A w \in Rows(rv') : rv'[w].resume \in Rows(resume')
  BY <1>6, <1>9, VersionFacts DEF SameVersion
<1> QED
  BY <1>4, <1>6, <1>7, <1>8, <1>9, <1>10, <1>11, <1>12, <1>13, ResumeStep DEF Inv, TypeOK

LEMMA ConfirmedColumns ==
    ASSUME NEW v \in 1..MaxResumeRows, NEW row \in ResumeVersion, NEW label \in Nat \ {0}
    PROVE  /\ ConfirmedVersion(v, row, label) \in ResumeVersion
           /\ ConfirmedVersion(v, row, label).kind = "confirmed"
           /\ ConfirmedVersion(v, row, label).status = "confirmed"
           /\ ConfirmedVersion(v, row, label).task = 0
           /\ ConfirmedVersion(v, row, label).resume = row.resume
           /\ row.kind = "file" => ConfirmedVersion(v, row, label).source = v
           /\ Reviewed(row) \in ResumeVersion /\ SameVersion(row, Reviewed(row))
           /\ Reviewed(row).task = row.task
           /\ Reviewed(row).status = (IF row.kind = "file" THEN "confirmed" ELSE row.status)
<1> DEFINE source == IF row.kind = "file" \/ row.source = 0 THEN v ELSE row.source
<1>1. source \in 0..MaxResumeRows /\ 0 \in 0..MaxTasks
  BY DEF ResumeVersion
<1>2. ConfirmedVersion(v, row, label) =
         [row EXCEPT !.kind   = "confirmed", !.label = label, !.status = "confirmed",
                     !.task = 0, !.draft  = "hr", !.source = source]
  BY DEF ConfirmedVersion
<1>3. row.kind = "file" => source = v
  OBVIOUS
<1> HIDE DEF source
<1>4. /\ ConfirmedVersion(v, row, label) \in ResumeVersion
      /\ ConfirmedVersion(v, row, label).kind = "confirmed"
      /\ ConfirmedVersion(v, row, label).status = "confirmed"
      /\ ConfirmedVersion(v, row, label).task = 0
      /\ ConfirmedVersion(v, row, label).resume = row.resume
      /\ ConfirmedVersion(v, row, label).source = source
  BY <1>1, <1>2 DEF ResumeVersion
<1>5. /\ Reviewed(row) \in ResumeVersion /\ SameVersion(row, Reviewed(row))
      /\ Reviewed(row).task = row.task
      /\ Reviewed(row).status = (IF row.kind = "file" THEN "confirmed" ELSE row.status)
  BY DEF Reviewed, ResumeVersion, SameVersion
<1> QED
  BY <1>3, <1>4, <1>5

LEMMA CommitConfirmKeeps ==
    ASSUME Inv, NEW c \in Clients, CommitConfirm(c)
    PROVE  Inv'
<1>1. PICK q \in Handler : q = req[c] /\ q.op = "confirm" /\ Holds(q)
  BY DEF CommitConfirm, Running, Inv, TypeOK, Requests
<1>2. PICK v \in Rows(rv) : v = q.version
  BY <1>1 DEF Holds, VersionHolds
<1>3. PICK row \in ResumeVersion : row = q.row
  BY <1>1, HandlerColumns
<1>4. /\ q.link \in 0..MaxCandidates /\ q.link <= candidates /\ q.label \in Nat \ {0}
      /\ SameVersion(row, rv[v])
  BY <1>1, <1>2, <1>3, HandlerColumns DEF Holds, VersionHolds
<1> DEFINE n     == Len(rv) + 1
           r     == row.resume
           new   == Reviewed(row)
           rows  == [rv EXCEPT ![v] = Flush(rv[v], row, new)]
           added == ConfirmedVersion(v, row, q.label)
<1>5. /\ n <= MaxResumeRows /\ Done(c)
      /\ rv' = Append(rows, added)
      /\ resume' = [resume EXCEPT ![r] = Confirmed(resume[r], n, q.link)]
      /\ app' = [a \in Rows(app) |-> IF a \in q.waiting THEN Screenable(app[a], n) ELSE app[a]]
      /\ UNCHANGED <<job, version, candidates, task, busy, saving>>
  BY <1>1, <1>2, <1>3 DEF CommitConfirm, taskVars
<1>6. /\ v \in 1..MaxResumeRows /\ r \in Rows(resume) /\ row.kind = rv[v].kind
  BY <1>4, VersionFacts DEF SameVersion
<1>7. /\ added \in ResumeVersion /\ added.kind = "confirmed" /\ added.status = "confirmed"
      /\ added.task = 0 /\ added.resume = r /\ (row.kind = "file" => added.source = v)
      /\ new \in ResumeVersion /\ SameVersion(row, new) /\ new.task = row.task
      /\ new.status = (IF row.kind = "file" THEN "confirmed" ELSE row.status)
  <2>1. PICK label \in Nat \ {0} : label = q.label
    BY <1>4
  <2>2. /\ added \in ResumeVersion /\ added.kind = "confirmed" /\ added.status = "confirmed"
        /\ added.task = 0 /\ added.resume = r /\ (row.kind = "file" => added.source = v)
    <3>1. added = ConfirmedVersion(v, row, label) /\ v \in 1..MaxResumeRows
      BY <1>6, <2>1
    <3>2. /\ ConfirmedVersion(v, row, label) \in ResumeVersion
          /\ ConfirmedVersion(v, row, label).kind = "confirmed"
          /\ ConfirmedVersion(v, row, label).status = "confirmed"
          /\ ConfirmedVersion(v, row, label).task = 0
          /\ ConfirmedVersion(v, row, label).resume = row.resume
          /\ row.kind = "file" => ConfirmedVersion(v, row, label).source = v
      BY <3>1, ConfirmedColumns
    <3> HIDE DEF added
    <3> QED
      BY <3>1, <3>2
  <2>3. /\ new \in ResumeVersion /\ SameVersion(row, new) /\ new.task = row.task
        /\ new.status = (IF row.kind = "file" THEN "confirmed" ELSE row.status)
    BY <1>6, ConfirmedColumns
  <2> HIDE DEF new
  <2> QED
    BY <2>1, <2>2, <2>3
<1> HIDE DEF new, added
<1>8. /\ rows \in Seq(ResumeVersion) /\ Len(rows) = Len(rv)
      /\ \A w \in Rows(rv) : /\ SameVersion(rv[w], rows[w])
                             /\ w # v => rows[w] = rv[w]
      /\ rows[v].status = (IF new.status = row.status THEN rv[v].status ELSE new.status)
      /\ rows[v].task = rv[v].task
  BY <1>7, FlushedRow
<1> HIDE DEF rows
<1>9. /\ rv' \in Seq(ResumeVersion) /\ Len(rv') = n /\ rv'[n] = added
      /\ \A w \in Rows(rv) : rv'[w] = rows[w]
  <2>1. /\ Append(rows, added) \in Seq(ResumeVersion)
        /\ Len(Append(rows, added)) = Len(rv) + 1 /\ Append(rows, added)[Len(rv) + 1] = added
        /\ \A w \in 1..Len(rv) : Append(rows, added)[w] = rows[w]
    <3>1. rows \in Seq(ResumeVersion) /\ added \in ResumeVersion /\ Len(rows) = Len(rv)
      BY <1>7, <1>8
    <3>2. /\ Append(rows, added) \in Seq(ResumeVersion)
          /\ Len(Append(rows, added)) = Len(rows) + 1 /\ Append(rows, added)[Len(rows) + 1] = added
          /\ \A w \in 1..Len(rows) : Append(rows, added)[w] = rows[w]
      BY <3>1, AppendProperties
    <3> QED
      BY <3>1, <3>2
  <2> QED
    BY <1>5, <2>1 DEF Rows
<1>10. n \in 1..MaxResumeRows /\ n \in 0..MaxResumeRows
  BY <1>5, TableFacts
<1>11. Rows(rv') = Rows(rv) \cup {n} /\ n \notin Rows(rv) /\ Len(rv') \in Nat /\ Len(task') \in Nat
  BY <1>5, <1>9, TableFacts DEF Rows
<1>12. resume' \in Seq(Resume) /\ Len(resume') = Len(resume)
       /\ \A s \in Rows(resume) : resume'[s].candidate <= candidates'
  <2>1. resume \in Seq(Resume) /\ \A s \in Rows(resume) : resume[s] \in Resume /\ resume[s].candidate <= candidates
    BY ElementOfSeq DEF Inv, TypeOK, Rows
  <2> DEFINE row1 == Confirmed(resume[r], n, q.link)
  <2>2. row1 \in Resume /\ row1.candidate <= candidates
    <3> DEFINE p == IF q.link = 0 THEN resume[r].candidate ELSE q.link
    <3>0. /\ resume[r] \in Resume /\ resume[r].candidate \in 1..MaxCandidates
          /\ resume[r].candidate <= candidates
      BY <1>6, <2>1 DEF Resume
    <3>1. resume[r] \in Resume /\ p \in 1..MaxCandidates /\ p <= candidates
      BY <1>4, <3>0
    <3>2. row1 = [resume[r] EXCEPT !.confirmed = n, !.candidate = p]
      BY DEF Confirmed
    <3> HIDE DEF p, row1
    <3> QED
      BY <1>10, <3>1, <3>2 DEF Resume
  <2> HIDE DEF row1
  <2>3. /\ resume' \in Seq(Resume) /\ Len(resume') = Len(resume)
        /\ \A s \in Rows(resume) : resume'[s] = IF s = r THEN row1 ELSE resume[s]
    <3>1. resume' = [resume EXCEPT ![r] = row1]
      BY <1>5 DEF row1
    <3>2. r \in 1..Len(resume) /\ resume \in Seq(Resume) /\ row1 \in Resume
      BY <1>6, <2>1, <2>2 DEF Rows
    <3> QED
      BY <3>1, <3>2, ExceptSeq DEF Rows
  <2> QED
    BY <1>5, <2>1, <2>2, <2>3
<1>13. /\ app' \in Seq(Application) /\ Len(app') = Len(app)
       /\ \A a \in Rows(app) :
             \/ app'[a] = app[a]
             \/ /\ app'[a].job = app[a].job /\ app'[a].version = app[a].version
                /\ app'[a].resume_version = n /\ app'[a].pipeline = "pending_hr_screen"
                /\ app[a].resume_version # 0
       /\ \A a \in Rows(app) : app'[a].candidate = app[a].candidate /\ app'[a] \in Application
  <2>1. ASSUME NEW a \in Rows(app)
        PROVE  /\ Screenable(app[a], n) \in Application
               /\ Screenable(app[a], n).job = app[a].job
               /\ Screenable(app[a], n).version = app[a].version
               /\ Screenable(app[a], n).candidate = app[a].candidate
               /\ Screenable(app[a], n).resume_version = n
               /\ Screenable(app[a], n).pipeline = "pending_hr_screen"
    <3>1. app[a] \in Application
      BY AppFacts
    <3>2. Screenable(app[a], n) = [app[a] EXCEPT !.resume_version = n, !.pipeline = "pending_hr_screen"]
      BY DEF Screenable
    <3> HIDE DEF n
    <3> QED
      BY <1>10, <3>1, <3>2 DEF Application, Pipelines
  <2>2. \A a \in Rows(app) : app[a] \in Application
    BY AppFacts
  <2>3. Len(app) \in Nat
    BY TableFacts
  <2>4. app' \in Seq(Application) /\ Len(app') = Len(app)
    <3>1. app' = [a \in 1..Len(app) |-> IF a \in q.waiting THEN Screenable(app[a], n) ELSE app[a]]
      BY <1>5 DEF Rows
    <3>2. \A a \in 1..Len(app) : Screenable(app[a], n) \in Application /\ app[a] \in Application
      BY <2>1, <2>2 DEF Rows
    <3>3. app' \in [1..Len(app) -> Application]
      BY <3>1, <3>2
    <3> QED
      BY <2>3, <3>3
  <2>5. \A a \in q.waiting : app[a].resume_version # 0
    BY <1>1 DEF Holds
  <2> QED
    BY <1>5, <2>1, <2>2, <2>4, <2>5
<1>14. ResumesGrow
  <2>1. \A w \in Rows(rv) : SameVersion(rv[w], rv'[w])
    BY <1>8, <1>9
  <2>2. candidates' = candidates /\ Len(task') = Len(task)
    BY <1>5
  <2>3. \A a \in Rows(app) : SameApplication(app[a], app'[a])
    BY <1>10, <1>13 DEF SameApplication
  <2> QED
    BY <1>9, <1>13, <2>1, <2>2, <2>3, TableFacts DEF ResumesGrow
<1>15. /\ req' \in [Clients -> Handler \cup {None}] /\ opened' \in 0..MaxRequests
       /\ \A d \in Clients : req'[d] # None => req'[d] = req[d]
  BY <1>5, DoneKeeps DEF Inv
<1>16. Rows(app') = Rows(app) /\ Rows(task') = Rows(task) /\ Rows(resume') = Rows(resume)
  BY <1>5, <1>12, <1>13 DEF Rows
<1>17. rv'[n].kind = "confirmed" /\ rv'[n].status = "confirmed" /\ rv'[n].task = 0
  BY <1>7, <1>9
<1>18. Bound'
  <2>1. ASSUME NEW a \in Rows(app'), app'[a] # app[a], NEW bound \in Application, bound = app'[a]
        PROVE  Binding(bound)'
    <3>1. /\ bound.job = app[a].job /\ bound.version = app[a].version
          /\ bound.resume_version = n /\ bound.pipeline = "pending_hr_screen"
          /\ app[a].resume_version # 0 /\ a \in Rows(app)
      BY <1>13, <1>16, <2>1
    <3>2. Live(bound.job) /\ Released(bound.job, bound.version)
      BY <3>1, AppFacts DEF Binding
    <3>3. Live(bound.job)' /\ Released(bound.job, bound.version)'
      BY <1>5, <3>2 DEF Live, Released
    <3>4. PICK k \in 1..MaxResumeRows : k = n
      BY <1>10
    <3>5. k \in Rows(rv') /\ WasConfirmed(k)'
      BY <1>11, <1>17, <3>4 DEF WasConfirmed
    <3>6. bound.resume_version = k /\ bound.pipeline # "pending_parse"
      BY <3>1, <3>4
    <3> HIDE DEF n
    <3> QED
      BY <3>3, <3>5, <3>6 DEF Binding
  <2>2. ASSUME NEW a \in Rows(app')
        PROVE  \/ a \in Rows(app) /\ app'[a] = app[a]
               \/ \E bound \in Application : bound = app'[a] /\ (Binding(bound) \/ Binding(bound)')
    <3>1. a \in Rows(app) /\ app'[a] \in Application
      BY <1>13, <1>16
    <3> QED
      BY <2>1, <3>1
  <2> QED
    BY <1>5, <1>11, <1>14, <2>2, BoundKeeps
<1>19. Confirmations'
  <2>1. ASSUME NEW w \in Rows(rv'), rv'[w].status = "confirmed"
        PROVE  \/ w \in Rows(rv) /\ rv[w].status = "confirmed"
               \/ \E u \in Rows(rv') : rv'[u].kind = "confirmed" /\ (u = w \/ rv'[u].source = w)
    <3>1. CASE w = n
      BY <1>11, <1>17, <3>1
    <3>2. CASE w = v /\ row.kind = "file"
      <4>1. rv'[n].source = w
        BY <1>7, <1>9, <3>2
      <4> QED
        BY <1>11, <1>17, <4>1
    <3>3. CASE w = v /\ row.kind # "file"
      <4>1. rv'[v].status = rv[v].status
        BY <1>7, <1>8, <1>9, <3>3
      <4> QED
        BY <2>1, <3>3, <4>1
    <3>4. CASE w \in Rows(rv) /\ w # v
      BY <1>8, <1>9, <2>1, <3>4
    <3> QED
      BY <1>11, <3>1, <3>2, <3>3, <3>4
  <2> QED
    BY <1>11, <1>14, <2>1, ConfirmationsKeep
<1>20. OwnTasks' /\ Saving' /\ ParsingAwaitsTask'
  <2>1. ASSUME NEW w \in Rows(rv')
        PROVE  \/ /\ w \in Rows(rv) /\ rv'[w].task = rv[w].task
                  /\ rv'[w].status = "parsing" => rv[w].status = "parsing"
               \/ rv'[w].task = 0 /\ rv'[w].status # "parsing"
    <3>1. rv'[v].task = rv[v].task /\ (rv'[v].status = "parsing" => rv[v].status = "parsing")
      BY <1>7, <1>8, <1>9
    <3> QED
      BY <1>8, <1>9, <1>11, <1>17, <3>1
  <2> QED
    BY <1>5, <1>11, <1>14, <1>16, <2>1, TasksKeep
<1>21. \A w \in Rows(rv') : rv'[w].resume \in Rows(resume')
  <2>1. \A w \in Rows(rv) : rv'[w].resume \in Rows(resume)
    BY <1>8, <1>9, VersionFacts DEF SameVersion
  <2>2. rv'[n].resume \in Rows(resume)
    BY <1>6, <1>7, <1>9
  <2> QED
    BY <1>11, <1>16, <2>1, <2>2
<1>22. /\ \A t \in Rows(task') : task'[t].version \in Rows(rv')
       /\ \A a \in Rows(app') : app'[a].candidate <= candidates'
       /\ \A s \in Rows(resume') : resume'[s].candidate <= candidates'
  BY <1>5, <1>11, <1>12, <1>13, <1>16, AppFacts DEF Inv, TypeOK
<1>23. /\ Len(rv') <= MaxResumeRows /\ Len(resume') <= MaxResumes /\ Len(app') <= MaxApps
       /\ Len(task') <= MaxTasks
  <2>1. Len(task') = Len(task) /\ Len(rv') <= MaxResumeRows
    BY <1>5, <1>9
  <2> QED
    BY <1>12, <1>13, <2>1, TableFacts
<1>24. /\ candidates' \in 0..MaxCandidates /\ task' \in Seq(TaskRow)
       /\ busy' \in [1..MaxTasks -> 0..MaxWorkers]
       /\ saving' \in [1..MaxTasks -> ResumeVersion \cup {None}]
  BY <1>5 DEF Inv, TypeOK
<1> QED
  BY <1>5, <1>9, <1>12, <1>13, <1>14, <1>15, <1>18, <1>19, <1>20, <1>21, <1>22, <1>23, <1>24,
     ResumeStep

\* A new task, of a version that is there or is added with it.
LEMMA TaskAdded ==
    ASSUME Inv, Len(task) < MaxTasks, NEW v \in 1..MaxResumeRows,
           task' = Append(task, NewTask(v))
    PROVE  /\ task' \in Seq(TaskRow) /\ Len(task') = Len(task) + 1 /\ Len(task') <= MaxTasks
           /\ task'[Len(task) + 1].version = v /\ task'[Len(task) + 1].status = "pending"
           /\ \A t \in Rows(task) : task'[t] = task[t]
           /\ Rows(task') = Rows(task) \cup {Len(task) + 1}
<1>1. NewTask(v) \in TaskRow /\ NewTask(v).version = v /\ NewTask(v).status = "pending"
  BY DEF NewTask, TaskRow
<1>2. task \in Seq(TaskRow)
  BY DEF Inv, TypeOK
<1>3. /\ task' \in Seq(TaskRow) /\ Len(task') = Len(task) + 1
      /\ task'[Len(task) + 1] = NewTask(v) /\ \A t \in 1..Len(task) : task'[t] = task[t]
  BY <1>1, <1>2, AppendProperties
<1>4. Rows(task') = Rows(task) \cup {Len(task) + 1} /\ Len(task') <= MaxTasks
  BY <1>3, TableFacts DEF Rows
<1> QED
  BY <1>1, <1>3, <1>4 DEF Rows

LEMMA AppAdded ==
    ASSUME Inv, NEW rows \in Seq(Application), Len(rows) = Len(app), Len(app) < MaxApps,
           NEW row \in Application, app' = Append(rows, row)
    PROVE  /\ app' \in Seq(Application) /\ Len(app') = Len(app) + 1 /\ Len(app') <= MaxApps
           /\ app'[Len(app) + 1] = row
           /\ \A a \in Rows(app) : app'[a] = rows[a]
           /\ Rows(app') = Rows(app) \cup {Len(app) + 1}
<1>1. /\ app' \in Seq(Application) /\ Len(app') = Len(app) + 1
      /\ app'[Len(app) + 1] = row /\ \A a \in 1..Len(app) : app'[a] = rows[a]
  BY AppendProperties
<1>2. Rows(app') = Rows(app) \cup {Len(app) + 1} /\ Len(app') <= MaxApps
  BY <1>1, TableFacts DEF Rows
<1> QED
  BY <1>1, <1>2 DEF Rows

LEMMA AppReplaced ==
    ASSUME Inv, NEW a \in Rows(app), NEW row \in Application
    PROVE  LET rows == [app EXCEPT ![a] = row] IN
           /\ rows \in Seq(Application) /\ Len(rows) = Len(app)
           /\ \A b \in Rows(app) : rows[b] = IF b = a THEN row ELSE app[b]
  BY ExceptSeq DEF Inv, TypeOK, Rows

LEMMA CreatedColumns ==
    ASSUME NEW p \in 1..MaxCandidates, NEW j \in Jobs, NEW i \in 1..MaxVersions,
           NEW v \in 0..MaxResumeRows, NEW pipeline \in Pipelines
    PROVE  LET row == create_application(p, j, i, v, pipeline) IN
           /\ row \in Application /\ row.candidate = p /\ row.job = j /\ row.version = i
           /\ row.resume_version = v /\ row.pipeline = pipeline
  BY DEF create_application, Application

LEMMA ReparsedColumns ==
    ASSUME NEW row \in ResumeVersion, NEW t \in 1..MaxTasks
    PROVE  /\ Reparsed(row, t) \in ResumeVersion /\ SameVersion(row, Reparsed(row, t))
           /\ Reparsed(row, t).task = t /\ Reparsed(row, t).status = "parsing"
<1>1. t \in 0..MaxTasks
  OBVIOUS
<1> QED
  BY <1>1 DEF Reparsed, ResumeVersion, SameVersion

LEMMA CommitReparseKeeps ==
    ASSUME Inv, NEW c \in Clients, CommitReparse(c)
    PROVE  Inv'
<1>1. PICK q \in Handler : q = req[c] /\ q.op = "reparse" /\ Holds(q)
  BY DEF CommitReparse, Running, Inv, TypeOK, Requests
<1>2. PICK v \in Rows(rv) : v = q.version
  BY <1>1 DEF Holds, VersionHolds
<1>3. PICK row \in ResumeVersion : row = q.row
  BY <1>1, HandlerColumns
<1>4. row.task <= Len(task) /\ v \in 1..MaxResumeRows
  BY <1>1, <1>2, <1>3, VersionFacts DEF Holds, VersionHolds
<1> DEFINE t    == Len(task) + 1
           new  == Reparsed(row, t)
           rows == [rv EXCEPT ![v] = Flush(rv[v], row, new)]
<1>5. /\ Len(task) < MaxTasks /\ task' = Append(task, NewTask(v)) /\ rv' = rows /\ Done(c)
      /\ UNCHANGED <<job, version, app, candidates, resume, busy, saving>>
  BY <1>1, <1>2, <1>3 DEF CommitReparse
<1>6. t \in 1..MaxTasks
  BY <1>5, TableFacts
<1>7. /\ new \in ResumeVersion /\ SameVersion(row, new) /\ new.task = t /\ new.task # row.task
  <2>1. row.task \in Nat /\ Len(task) \in Nat
    BY TableFacts DEF ResumeVersion
  <2> HIDE DEF t
  <2>2. /\ new \in ResumeVersion /\ SameVersion(row, new) /\ new.task = t
    BY <1>6, ReparsedColumns
  <2>3. t # row.task
    BY <1>4, <2>1 DEF t
  <2> QED
    BY <2>2, <2>3
<1> HIDE DEF new
<1>8. /\ rv' \in Seq(ResumeVersion) /\ Len(rv') = Len(rv)
      /\ \A w \in Rows(rv) : /\ SameVersion(rv[w], rv'[w])
                             /\ w # v => rv'[w] = rv[w]
      /\ rv'[v].task = t
      /\ rv'[v].status = rv[v].status \/ rv'[v].status = new.status
  <2>1. /\ rows \in Seq(ResumeVersion) /\ Len(rows) = Len(rv)
        /\ \A w \in Rows(rv) : SameVersion(rv[w], rows[w]) /\ (w # v => rows[w] = rv[w])
        /\ rows[v].task = t
        /\ rows[v].status = rv[v].status \/ rows[v].status = new.status
    BY <1>7, FlushedRow
  <2> HIDE DEF rows
  <2>2. rv' = rows
    BY <1>5
  <2> QED
    BY <2>1, <2>2
<1> HIDE DEF rows
<1>9. /\ task' \in Seq(TaskRow) /\ Len(task') = t /\ Len(task') <= MaxTasks
      /\ task'[t].version = v /\ task'[t].status = "pending"
      /\ \A u \in Rows(task) : task'[u] = task[u]
      /\ Rows(task') = Rows(task) \cup {t}
  BY <1>4, <1>5, TaskAdded
<1>10. new.status = "parsing"
  BY <1>6, ReparsedColumns DEF new
<1>11. ResumesGrow
  <2>1. candidates' = candidates /\ app' = app
    BY <1>5
  <2> QED
    BY <1>8, <1>9, <2>1, TableFacts DEF ResumesGrow, SameApplication
<1>12. /\ req' \in [Clients -> Handler \cup {None}] /\ opened' \in 0..MaxRequests
       /\ \A d \in Clients : req'[d] # None => req'[d] = req[d]
  BY <1>5, DoneKeeps DEF Inv
<1>13. /\ Rows(rv') = Rows(rv) /\ Rows(app') = Rows(app) /\ Rows(resume') = Rows(resume)
       /\ Len(rv') \in Nat /\ Len(task') \in Nat
  BY <1>5, <1>8, <1>9, TableFacts DEF Rows
<1>14. Bound'
  BY <1>5, <1>11, <1>13, BoundKeeps
<1>15. Confirmations'
  <2>1. \A w \in Rows(rv') : rv'[w].status = "confirmed" => w \in Rows(rv) /\ rv[w].status = "confirmed"
    BY <1>8, <1>10, <1>13
  <2> QED
    BY <1>11, <1>13, <2>1, ConfirmationsKeep
<1>16. OwnTasks' /\ Saving' /\ ParsingAwaitsTask'
  <2>1. ASSUME NEW w \in Rows(rv')
        PROVE  \/ /\ w \in Rows(rv) /\ rv'[w].task = rv[w].task
                  /\ rv'[w].status = "parsing" => rv[w].status = "parsing"
               \/ /\ rv'[w].task = Len(task) + 1 /\ Len(task) + 1 <= Len(task')
                  /\ task'[Len(task) + 1].version = w /\ task'[Len(task) + 1].status = "pending"
    <3>1. CASE w = v
      <4>1. Len(task) + 1 <= Len(task')
        BY <1>9, TableFacts
      <4> QED
        BY <1>8, <1>9, <3>1, <4>1
    <3>2. CASE w # v
      BY <1>8, <1>13, <3>2
    <3> QED
      BY <3>1, <3>2
  <2>2. /\ \A u \in Rows(task) :
              /\ task'[u].version = task[u].version
              /\ task'[u].status \in {"succeeded", "failed"} => task'[u].status = task[u].status
        /\ saving' = saving
    BY <1>5, <1>9
  <2> QED
    BY <1>11, <1>13, <2>1, <2>2, TasksKeep
<1>17. \A w \in Rows(rv') : rv'[w].resume \in Rows(resume')
  BY <1>8, <1>13, VersionFacts DEF SameVersion
<1>18. \A u \in Rows(task') : task'[u].version \in Rows(rv')
  <2>1. \A u \in Rows(task) : task[u].version \in Rows(rv)
    BY DEF Inv, TypeOK
  <2> QED
    BY <1>9, <1>13, <2>1
<1>19. /\ candidates' \in 0..MaxCandidates /\ resume' \in Seq(Resume) /\ app' \in Seq(Application)
       /\ busy' \in [1..MaxTasks -> 0..MaxWorkers]
       /\ saving' \in [1..MaxTasks -> ResumeVersion \cup {None}]
       /\ Len(resume') <= MaxResumes /\ Len(app') <= MaxApps /\ Len(rv') <= MaxResumeRows
       /\ \A s \in Rows(resume') : resume'[s].candidate <= candidates'
       /\ \A a \in Rows(app') : app'[a].candidate <= candidates'
  BY <1>5, <1>8, <1>13 DEF Inv, TypeOK
<1> QED
  BY <1>5, <1>8, <1>9, <1>11, <1>12, <1>14, <1>15, <1>16, <1>17, <1>18, <1>19, ResumeStep

\* Commits that change applications and nothing they are bound to.
LEMMA AppStep ==
    ASSUME Inv, NEW c \in Clients, Done(c), UNCHANGED <<job, version, resume, rv, taskVars>>,
           candidates' \in 0..MaxCandidates, candidates <= candidates',
           app' \in Seq(Application), Len(app') <= MaxApps, Len(app) <= Len(app'),
           \A a \in Rows(app) : SameApplication(app[a], app'[a]),
           \A a \in Rows(app') :
              \/ a \in Rows(app) /\ app'[a] = app[a]
              \/ /\ app'[a].candidate <= candidates'
                 /\ \E row \in Application : row = app'[a] /\ Binding(row)
    PROVE  Inv'
<1>1. /\ resume' = resume /\ rv' = rv /\ task' = task /\ busy' = busy /\ saving' = saving
      /\ job' = job /\ version' = version
  BY DEF taskVars
<1>2. ResumesGrow /\ Len(rv') \in Nat
  BY <1>1, TableFacts DEF ResumesGrow, SameVersion
<1>3. /\ req' \in [Clients -> Handler \cup {None}] /\ opened' \in 0..MaxRequests
      /\ \A d \in Clients : req'[d] # None => req'[d] = req[d]
  BY DoneKeeps DEF Inv
<1>4. Bound'
  BY <1>1, <1>2, BoundKeeps
<1>5. Confirmations' /\ OwnTasks' /\ Saving' /\ ParsingAwaitsTask'
  <2>1. Confirmations'
    BY <1>1 DEF Inv, Confirmations, WasConfirmed, Rows
  <2>2. OwnTasks'
    BY <1>1 DEF Inv, OwnTasks, Rows
  <2>3. Saving'
    BY <1>1 DEF Inv, Saving, VersionHolds, SameVersion, Rows
  <2>4. ParsingAwaitsTask'
    BY <1>1 DEF Inv, ParsingAwaitsTask, Rows
  <2> QED
    BY <2>1, <2>2, <2>3, <2>4
<1>6. candidates \in Nat /\ candidates' \in Nat /\ \A x, y, z \in Nat : x <= y /\ y <= z => x <= z
  BY TableFacts
<1>7. \A s \in Rows(resume') : resume'[s].candidate <= candidates'
  <2>1. ASSUME NEW s \in Rows(resume)
        PROVE  resume[s].candidate \in Nat /\ resume[s].candidate <= candidates
    <3>1. resume[s] \in Resume
      BY ElementOfSeq DEF Inv, TypeOK, Rows
    <3>2. resume[s].candidate \in Nat
      BY <3>1 DEF Resume
    <3>3. resume[s].candidate <= candidates
      BY DEF Inv, TypeOK
    <3> QED
      BY <3>2, <3>3
  <2> QED
    BY <1>1, <1>6, <2>1
<1>8. \A a \in Rows(app') : app'[a].candidate <= candidates'
  <2>1. \A a \in Rows(app) : app[a].candidate \in Nat /\ app[a].candidate <= candidates
    BY AppCandidates
  <2> QED
    BY <1>6, <2>1
<1>9. /\ resume' \in Seq(Resume) /\ rv' \in Seq(ResumeVersion) /\ task' \in Seq(TaskRow)
      /\ busy' \in [1..MaxTasks -> 0..MaxWorkers]
      /\ saving' \in [1..MaxTasks -> ResumeVersion \cup {None}]
      /\ Len(resume') <= MaxResumes /\ Len(task') <= MaxTasks /\ Len(rv') <= MaxResumeRows
      /\ \A w \in Rows(rv') : rv'[w].resume \in Rows(resume')
      /\ \A t \in Rows(task') : task'[t].version \in Rows(rv')
  BY <1>1 DEF Inv, TypeOK, Rows
<1> QED
  BY <1>1, <1>2, <1>3, <1>4, <1>5, <1>7, <1>8, <1>9, ResumeStep

\* Some rows replaced, and a new one added.
LEMMA AppAppended ==
    ASSUME Inv, NEW c \in Clients, Done(c), UNCHANGED <<job, version, resume, rv, taskVars>>,
           candidates' \in 0..MaxCandidates, candidates <= candidates',
           NEW rows \in Seq(Application), Len(rows) = Len(app), Len(app) < MaxApps,
           \A a \in Rows(app) : /\ SameApplication(app[a], rows[a]) /\ rows[a] \in Application
                                /\ Binding(rows[a]),
           NEW row \in Application, Binding(row), row.candidate <= candidates',
           app' = Append(rows, row)
    PROVE  Inv'
<1>1. /\ app' \in Seq(Application) /\ Len(app') = Len(app) + 1 /\ Len(app') <= MaxApps
      /\ app'[Len(app) + 1] = row
      /\ \A a \in Rows(app) : app'[a] = rows[a]
      /\ Rows(app') = Rows(app) \cup {Len(app) + 1}
  BY AppAdded
<1>2. Len(app) <= Len(app')
  BY <1>1, TableFacts
<1>3. \A a \in Rows(app) : SameApplication(app[a], app'[a])
  BY <1>1
<1>4. ASSUME NEW a \in Rows(app')
      PROVE  /\ app'[a].candidate <= candidates'
             /\ \E r \in Application : r = app'[a] /\ Binding(r)
  <2>1. CASE a \in Rows(app)
    <3>1. app'[a] = rows[a] /\ rows[a] \in Application /\ Binding(rows[a])
      BY <1>1, <2>1
    <3>2. /\ app'[a].candidate = app[a].candidate /\ app[a].candidate <= candidates
          /\ app[a].candidate \in Nat
      <4>1. \A b \in Rows(app) : app[b].candidate \in Nat /\ app[b].candidate <= candidates
        BY AppCandidates
      <4>2. app'[a].candidate = app[a].candidate
        BY <1>3, <2>1 DEF SameApplication
      <4> QED
        BY <2>1, <4>1, <4>2
    <3>3. candidates \in Nat /\ candidates' \in Nat /\ candidates <= candidates'
      BY TableFacts
    <3>4. app'[a].candidate <= candidates'
      BY <3>2, <3>3
    <3> QED
      BY <3>1, <3>4
  <2>2. CASE a = Len(app) + 1
    BY <1>1, <2>2
  <2> QED
    BY <1>1, <2>1, <2>2
<1> QED
  BY <1>1, <1>2, <1>3, <1>4, AppStep

LEMMA SameRows ==
    ASSUME Inv
    PROVE  /\ app \in Seq(Application)
           /\ \A a \in Rows(app) : /\ SameApplication(app[a], app[a]) /\ app[a] \in Application
                                   /\ Binding(app[a])
  BY AppFacts DEF Inv, TypeOK, SameApplication

\* One row replaced.
LEMMA RowReplaced ==
    ASSUME Inv, NEW a \in Rows(app), NEW row \in Application, SameApplication(app[a], row),
           Binding(row), NEW rows, rows = [app EXCEPT ![a] = row]
    PROVE  /\ rows \in Seq(Application) /\ Len(rows) = Len(app)
           /\ \A b \in Rows(app) : /\ SameApplication(app[b], rows[b]) /\ rows[b] \in Application
                                   /\ Binding(rows[b])
<1>1. /\ rows \in Seq(Application) /\ Len(rows) = Len(app)
      /\ \A b \in Rows(app) : rows[b] = IF b = a THEN row ELSE app[b]
  BY AppReplaced
<1>2. ASSUME NEW b \in Rows(app)
      PROVE  SameApplication(app[b], rows[b]) /\ rows[b] \in Application /\ Binding(rows[b])
  <2>1. CASE b = a
    BY <1>1, <2>1
  <2>2. CASE b # a
    BY <1>1, <2>2, SameRows
  <2> QED
    BY <2>1, <2>2
<1> QED
  BY <1>1, <1>2

LEMMA ReplacedKeeps ==
    ASSUME Inv, NEW c \in Clients, Done(c), UNCHANGED <<job, version, resumeVars>>,
           NEW a \in Rows(app), NEW row \in Application, SameApplication(app[a], row),
           Binding(row), app' = [app EXCEPT ![a] = row]
    PROVE  Inv'
<1>1. /\ app' \in Seq(Application) /\ Len(app') = Len(app)
      /\ \A b \in Rows(app) : /\ SameApplication(app[b], app'[b]) /\ app'[b] \in Application
                              /\ Binding(app'[b])
  <2>1. PICK rows : rows = app'
    OBVIOUS
  <2> QED
    BY <2>1, RowReplaced
<1>2. UNCHANGED <<job, version, resume, rv, taskVars>> /\ candidates' = candidates
  BY DEF resumeVars
<1>3. candidates' \in 0..MaxCandidates /\ candidates <= candidates' /\ Len(app) <= Len(app')
      /\ Len(app') <= MaxApps /\ Rows(app') = Rows(app)
  BY <1>1, <1>2, TableFacts DEF Rows
<1>4. ASSUME NEW b \in Rows(app')
      PROVE  /\ app'[b].candidate <= candidates'
             /\ \E r \in Application : r = app'[b] /\ Binding(r)
  BY <1>1, <1>2, <1>3, AppFacts DEF SameApplication
<1> QED
  BY <1>1, <1>2, <1>3, <1>4, AppStep

LEMMA CommitApplicationKeeps ==
    ASSUME Inv, NEW c \in Clients, CommitApplication(c)
    PROVE  Inv'
<1>1. PICK q \in Handler : q = req[c] /\ q.op = "apply" /\ Holds(q)
  BY DEF CommitApplication, Running, Inv, TypeOK, Requests
<1>2. /\ q.candidate \in 1..MaxCandidates /\ q.candidate <= candidates
      /\ q.job \in Jobs /\ q.version \in 1..MaxVersions /\ q.resume_version \in 1..MaxResumeRows
      /\ Released(q.job, q.version)
      /\ q.resume_version \in Rows(rv) /\ WasConfirmed(q.resume_version)
  BY <1>1, HandlerColumns DEF Holds
<1> DEFINE row == create_application(q.candidate, q.job, q.version, q.resume_version,
                                     "pending_hr_screen")
<1>3. /\ Len(app) < MaxApps /\ Live(q.job) /\ app' = Append(app, row) /\ Done(c)
      /\ UNCHANGED <<job, version, resume, rv, taskVars>> /\ candidates' = candidates
  BY <1>1 DEF CommitApplication, resumeVars
<1>4. /\ row \in Application /\ row.job = q.job /\ row.version = q.version
      /\ row.candidate = q.candidate
      /\ row.resume_version = q.resume_version /\ row.pipeline = "pending_hr_screen"
  <2>1. q.resume_version \in 0..MaxResumeRows /\ "pending_hr_screen" \in Pipelines
    BY <1>2 DEF Pipelines
  <2> QED
    BY <1>2, <2>1, CreatedColumns
<1> HIDE DEF row
<1>5. Binding(row)
  BY <1>2, <1>3, <1>4 DEF Binding
<1>6. candidates' \in 0..MaxCandidates /\ candidates <= candidates'
  BY <1>3, TableFacts
<1> QED
  BY <1>2, <1>3, <1>4, <1>5, <1>6, SameRows, AppAppended

LEMMA CommitCandidateKeeps ==
    ASSUME Inv, NEW c \in Clients, CommitCandidate(c)
    PROVE  Inv'
<1>1. PICK q \in Handler : q = req[c] /\ q.op = "candidate" /\ Holds(q)
  BY DEF CommitCandidate, Running, Inv, TypeOK, Requests
<1>2. q.job \in Jobs /\ q.version \in 1..MaxVersions /\ Given(q.job, q.version)
  BY <1>1, HandlerColumns DEF Holds
<1> DEFINE p   == candidates + 1
           row == create_application(p, q.job, q.version, 0, "pending_hr_screen")
<1>3. /\ Len(app) < MaxApps /\ candidates < MaxCandidates /\ Live(q.job)
      /\ app' = Append(app, row) /\ Done(c) /\ candidates' = p
      /\ UNCHANGED <<job, version, resume, rv, taskVars>>
  BY <1>1 DEF CommitCandidate
<1>4. p \in 1..MaxCandidates /\ p \in 0..MaxCandidates /\ candidates <= p /\ p <= p
  BY <1>3, TableFacts
<1> HIDE DEF p
<1>5. /\ row \in Application /\ row.job = q.job /\ row.version = q.version /\ row.candidate = p
      /\ row.resume_version = 0 /\ row.pipeline = "pending_hr_screen"
  <2>1. 0 \in 0..MaxResumeRows /\ "pending_hr_screen" \in Pipelines
    BY DEF Pipelines
  <2> QED
    BY <1>2, <1>4, <2>1, CreatedColumns
<1> HIDE DEF row
<1>6. Binding(row)
  BY <1>2, <1>3, <1>5 DEF Binding, Given
<1> QED
  BY <1>3, <1>4, <1>5, <1>6, SameRows, AppAppended

LEMMA CommitCloseKeeps ==
    ASSUME Inv, NEW c \in Clients, CommitClose(c)
    PROVE  Inv'
<1>1. PICK q \in Handler : q = req[c] /\ q.op = "close" /\ Holds(q)
  BY DEF CommitClose, Running, Inv, TypeOK, Requests
<1>2. PICK a \in Rows(app) : a = q.app
  BY <1>1 DEF Holds
<1> DEFINE row  == Closed(app[a])
           rows == [app EXCEPT ![a] = row]
<1>3. /\ Done(c) /\ UNCHANGED <<job, version, resumeVars>>
      /\ UNCHANGED <<job, version, resume, rv, taskVars>> /\ candidates' = candidates
  BY DEF CommitClose, resumeVars
<1>4. row \in Application /\ SameApplication(app[a], row) /\ Binding(row)
  <2>1. app[a] \in Application /\ Binding(app[a])
    BY AppFacts
  <2>2. /\ row \in Application /\ row.job = app[a].job /\ row.candidate = app[a].candidate
        /\ row.version = app[a].version /\ row.resume_version = app[a].resume_version
        /\ row.pipeline = app[a].pipeline /\ row.early = app[a].early
    BY <2>1 DEF Closed, Application
  <2> HIDE DEF row
  <2> QED
    BY <2>1, <2>2 DEF SameApplication, Binding
<1> HIDE DEF row
<1>5. /\ rows \in Seq(Application) /\ Len(rows) = Len(app)
      /\ \A b \in Rows(app) : /\ SameApplication(app[b], rows[b]) /\ rows[b] \in Application
                              /\ Binding(rows[b])
  BY <1>4, RowReplaced
<1>6. CASE q.target = None
  <2>1. app' = rows
    BY <1>1, <1>2, <1>6 DEF CommitClose, row
  <2> QED
    BY <1>3, <1>4, <2>1, ReplacedKeeps
<1>7. CASE q.target # None
  <2> DEFINE p     == app[a].candidate
             added == create_application(p, q.target, q.version, 0, "pending_hr_screen")
  <2>1. /\ Live(q.target) /\ Len(app) < MaxApps /\ app' = Append(rows, added)
    BY <1>1, <1>2, <1>7 DEF CommitClose, row
  <2>2. q.target \in Jobs /\ Released(q.target, q.version)
    BY <1>1, <1>7, HandlerColumns DEF Holds
  <2>3. p \in 1..MaxCandidates /\ p <= candidates
    BY AppFacts DEF Application
  <2>4. q.version \in 1..MaxVersions
    <3>1. q.version \in 1..Len(version[q.target]) /\ Len(version[q.target]) \in 0..MaxVersions
      BY <2>1, <2>2, RowFacts DEF Released
    <3> QED
      BY <3>1
  <2> HIDE DEF p, rows
  <2>5. /\ added \in Application /\ added.job = q.target /\ added.version = q.version
        /\ added.candidate = p
        /\ added.resume_version = 0 /\ added.pipeline = "pending_hr_screen"
    <3>1. 0 \in 0..MaxResumeRows /\ "pending_hr_screen" \in Pipelines
      BY DEF Pipelines
    <3> QED
      BY <2>2, <2>3, <2>4, <3>1, CreatedColumns
  <2> HIDE DEF added
  <2>6. Binding(added)
    BY <2>1, <2>2, <2>5 DEF Binding
  <2>7. /\ candidates' \in 0..MaxCandidates /\ candidates <= candidates'
        /\ added.candidate <= candidates'
    BY <1>3, <2>3, <2>5, TableFacts
  <2> QED
    BY <1>3, <1>5, <2>1, <2>5, <2>6, <2>7, AppAppended
<1> QED
  BY <1>6, <1>7

LEMMA CommitMigrateKeeps ==
    ASSUME Inv, NEW c \in Clients, CommitMigrate(c)
    PROVE  Inv'
<1>1. PICK q \in Handler : q = req[c] /\ q.op = "migrate" /\ Holds(q)
  BY DEF CommitMigrate, Running, Inv, TypeOK, Requests
<1>2. PICK a \in Rows(app) : a = q.app
  BY <1>1 DEF Holds
<1>3. q.version \in 1..MaxVersions /\ Released(app[a].job, q.version)
  BY <1>1, <1>2, HandlerColumns DEF Holds
<1> DEFINE row == [app[a] EXCEPT !.version = q.version]
<1>4. /\ Done(c) /\ UNCHANGED <<job, version, resumeVars>> /\ app' = [app EXCEPT ![a] = row]
  BY <1>1, <1>2 DEF CommitMigrate
<1>5. app[a] \in Application /\ Binding(app[a])
  BY AppFacts
<1>6. /\ row \in Application /\ row.job = app[a].job /\ row.candidate = app[a].candidate
      /\ row.version = q.version /\ row.resume_version = app[a].resume_version
      /\ row.pipeline = app[a].pipeline /\ row.early = app[a].early
  BY <1>3, <1>5 DEF Application
<1> HIDE DEF row
<1>7. SameApplication(app[a], row) /\ Binding(row)
  BY <1>3, <1>5, <1>6 DEF SameApplication, Binding
<1> QED
  BY <1>4, <1>6, <1>7, ReplacedKeeps

\* A decision taken from pending_parse is remembered; one taken later finds no application
\* that waits.
LEMMA CommitScreeningKeeps ==
    ASSUME Inv, NEW c \in Clients, CommitScreening(c)
    PROVE  Inv'
<1>1. PICK q \in Handler : q = req[c] /\ q.op = "screen" /\ Holds(q)
  BY DEF CommitScreening, Running, Inv, TypeOK, Requests
<1>2. PICK a \in Rows(app) : a = q.app
  BY <1>1 DEF Holds
<1>3. /\ q.from \in Pipelines /\ q.to \in Pipelines /\ q.to # "pending_parse"
      /\ q.from # "pending_parse" => app[a].pipeline # "pending_parse"
  BY <1>1, <1>2, HandlerColumns DEF Holds
<1> DEFINE row == Screened(app[a], q.from, q.to)
<1>4. /\ Done(c) /\ UNCHANGED <<job, version, resumeVars>> /\ app' = [app EXCEPT ![a] = row]
  BY <1>1, <1>2 DEF CommitScreening
<1>5. app[a] \in Application /\ Binding(app[a])
  BY AppFacts
<1>6. /\ row \in Application /\ row.job = app[a].job /\ row.candidate = app[a].candidate
      /\ row.version = app[a].version /\ row.resume_version = app[a].resume_version
      /\ row.pipeline # "pending_parse"
      /\ row.early <=> app[a].early \/ q.from = "pending_parse"
  <2> DEFINE pipeline == IF q.to = q.from THEN app[a].pipeline ELSE q.to
             open     == app[a].open /\ q.to # "rejected"
             early    == app[a].early \/ q.from = "pending_parse"
  <2>1. /\ pipeline \in Pipelines /\ pipeline # "pending_parse"
        /\ open \in BOOLEAN /\ early \in BOOLEAN
    BY <1>3, <1>5 DEF Application
  <2>2. row = [app[a] EXCEPT !.pipeline = pipeline, !.open = open, !.early = early]
    BY DEF Screened
  <2>3. row.early = early
    BY <1>5, <2>2 DEF Application
  <2> HIDE DEF row, pipeline, open
  <2>4. row.early <=> app[a].early \/ q.from = "pending_parse"
    BY <2>3
  <2> HIDE DEF early
  <2>5. /\ row \in Application /\ row.job = app[a].job /\ row.candidate = app[a].candidate
        /\ row.version = app[a].version /\ row.resume_version = app[a].resume_version
        /\ row.pipeline = pipeline
    BY <1>5, <2>1, <2>2 DEF Application
  <2> QED
    BY <2>1, <2>4, <2>5
<1> HIDE DEF row
<1>7. SameApplication(app[a], row)
  BY <1>6 DEF SameApplication
<1>8. Binding(row)
  <2>1. app[a].pipeline = "pending_parse" \/ app[a].early => row.early
    BY <1>3, <1>6
  <2> QED
    BY <1>5, <1>6, <2>1 DEF Binding
<1> QED
  BY <1>4, <1>6, <1>7, <1>8, ReplacedKeeps

LEMMA FileColumns ==
    ASSUME NEW r \in 1..MaxResumes, NEW t \in 0..MaxTasks
    PROVE  /\ FileVersion(r, t) \in ResumeVersion
           /\ FileVersion(r, t).resume = r /\ FileVersion(r, t).kind = "file"
           /\ FileVersion(r, t).task = t
           /\ FileVersion(r, t).status = (IF t = 0 THEN "parse_failed" ELSE "parsing")
<1>1. /\ 1 \in Nat \ {0} /\ 0 \in 0..MaxResumeRows
      /\ (IF t = 0 THEN "parse_failed" ELSE "parsing") \in {"parse_failed", "parsing"}
  OBVIOUS
<1> QED
  BY <1>1 DEF FileVersion, ResumeVersion

\* The task of an upload whose text could be extracted.
LEMMA TaskMaybeAdded ==
    ASSUME Inv, NEW t \in {0, Len(task) + 1}, t <= MaxTasks, NEW v \in 1..MaxResumeRows,
           task' = IF t = 0 THEN task ELSE Append(task, NewTask(v))
    PROVE  /\ task' \in Seq(TaskRow) /\ Len(task') <= MaxTasks
           /\ Len(task) <= Len(task') /\ Len(task') \in Nat
           /\ \A u \in Rows(task) : task'[u] = task[u]
           /\ \A u \in Rows(task') : u \in Rows(task) \/ task'[u].version = v
           /\ t # 0 => /\ t = Len(task) + 1 /\ t <= Len(task')
                       /\ task'[t].version = v /\ task'[t].status = "pending"
<1>1. CASE t = 0
  <2>1. task' = task
    BY <1>1
  <2>2. task \in Seq(TaskRow)
    BY DEF Inv, TypeOK
  <2> QED
    BY <1>1, <2>1, <2>2, TableFacts
<1>2. CASE t # 0
  <2>1. t = Len(task) + 1 /\ Len(task) < MaxTasks /\ task' = Append(task, NewTask(v))
    BY <1>2, TableFacts
  <2>2. /\ task' \in Seq(TaskRow) /\ Len(task') = Len(task) + 1 /\ Len(task') <= MaxTasks
        /\ task'[Len(task) + 1].version = v /\ task'[Len(task) + 1].status = "pending"
        /\ \A u \in Rows(task) : task'[u] = task[u]
        /\ Rows(task') = Rows(task) \cup {Len(task) + 1}
    BY <2>1, TaskAdded
  <2>3. Len(task) <= Len(task') /\ Len(task') \in Nat /\ t <= Len(task')
    BY <2>1, <2>2, TableFacts
  <2> QED
    BY <2>1, <2>2, <2>3
<1> QED
  BY <1>1, <1>2

LEMMA UploadKeeps ==
    ASSUME Inv, NEW c \in Clients, _upload_one(c)
    PROVE  Inv'
<1>1. PICK q \in Handler : q = req[c] /\ q.op = "upload" /\ Holds(q)
  BY DEF _upload_one, Running, Inv, TypeOK, Requests
<1>2. /\ q.candidate \in 0..MaxCandidates /\ q.candidate <= candidates
      /\ q.job # None => q.job \in Jobs /\ Released(q.job, q.version)
      /\ q.version \in 0..MaxVersions
  BY <1>1, HandlerColumns DEF Holds
<1> DEFINE p    == IF q.candidate = 0 THEN candidates + 1 ELSE q.candidate
           r    == Len(resume) + 1
           v    == Len(rv) + 1
           t    == IF q.extracted THEN Len(task) + 1 ELSE 0
           row  == [candidate |-> p, confirmed |-> 0]
           file == FileVersion(r, t)
           bind == create_application(p, q.job, q.version, v, "pending_parse")
<1>3. /\ p <= MaxCandidates /\ r <= MaxResumes /\ v <= MaxResumeRows /\ t <= MaxTasks
      /\ candidates' = (IF p > candidates THEN p ELSE candidates)
      /\ resume' = Append(resume, row)
      /\ rv' = Append(rv, file)
      /\ task' = (IF t = 0 THEN task ELSE Append(task, NewTask(v)))
      /\ \/ app' = app
         \/ /\ q.job # None /\ Live(q.job) /\ Len(app) < MaxApps
            /\ app' = Append(app, bind)
      /\ Done(c)
      /\ UNCHANGED <<job, version, busy, saving>>
  BY <1>1 DEF _upload_one
<1>4. /\ p \in 1..MaxCandidates /\ r \in 1..MaxResumes /\ v \in 1..MaxResumeRows
      /\ t \in {0, Len(task) + 1} /\ t \in 0..MaxTasks
      /\ candidates' \in 0..MaxCandidates /\ candidates <= candidates' /\ p <= candidates'
  <2>1. /\ candidates \in 0..MaxCandidates /\ Len(resume) \in Nat /\ Len(rv) \in Nat
        /\ Len(task) \in Nat /\ MaxCandidates \in Nat /\ MaxTasks \in Nat
        /\ MaxResumes \in Nat /\ MaxResumeRows \in Nat
    BY TableFacts
  <2>2. p \in 1..MaxCandidates /\ p \in Nat
    <3>1. p \in Nat \ {0}
      BY <1>2, <2>1
    <3>2. p <= MaxCandidates
      BY <1>3
    <3> HIDE DEF p
    <3> QED
      BY <2>1, <3>1, <3>2
  <2>3. r \in 1..MaxResumes /\ v \in 1..MaxResumeRows
    BY <1>3, <2>1
  <2>4. t \in {0, Len(task) + 1} /\ t \in 0..MaxTasks
    BY <1>3, <2>1
  <2> HIDE DEF p, r, v, t
  <2> QED
    BY <1>3, <2>1, <2>2, <2>3, <2>4
<1>5. /\ file \in ResumeVersion /\ file.resume = r /\ file.kind = "file" /\ file.task = t
      /\ file.status = (IF t = 0 THEN "parse_failed" ELSE "parsing")
  <2> HIDE DEF r, t
  <2> QED
    BY <1>4, FileColumns
<1>6. row \in Resume /\ row.candidate = p
  BY <1>4 DEF Resume
<1>7. /\ resume' \in Seq(Resume) /\ Len(resume') = r
      /\ Rows(resume') = Rows(resume) \cup {r}
      /\ \A s \in Rows(resume') : resume'[s].candidate <= candidates'
  <2>1. resume \in Seq(Resume) /\ \A s \in Rows(resume) : resume[s] \in Resume /\ resume[s].candidate <= candidates
    BY ElementOfSeq DEF Inv, TypeOK, Rows
  <2> HIDE DEF row
  <2>2. /\ resume' \in Seq(Resume) /\ Len(resume') = Len(resume) + 1
        /\ resume'[Len(resume) + 1] = row /\ \A s \in 1..Len(resume) : resume'[s] = resume[s]
    BY <1>3, <1>6, <2>1, AppendProperties
  <2>3. Rows(resume') = Rows(resume) \cup {r}
    BY <2>2, TableFacts DEF Rows
  <2>4. ASSUME NEW s \in Rows(resume')
        PROVE  resume'[s].candidate <= candidates'
    <3>1. CASE s = r
      BY <1>4, <1>6, <2>2, <3>1
    <3>2. CASE s \in Rows(resume)
      <4>1. resume'[s] = resume[s] /\ resume[s].candidate <= candidates
            /\ resume[s].candidate \in Nat
        <5>1. resume[s] \in Resume /\ resume[s].candidate <= candidates
          BY <2>1, <3>2
        <5>2. resume'[s] = resume[s]
          BY <2>2, <3>2 DEF Rows
        <5>3. resume[s].candidate \in Nat
          BY <5>1 DEF Resume
        <5> QED
          BY <5>1, <5>2, <5>3
      <4>2. candidates \in Nat /\ candidates' \in Nat /\ candidates <= candidates'
        BY <1>4, TableFacts
      <4> QED
        BY <4>1, <4>2
    <3> QED
      BY <2>3, <3>1, <3>2
  <2> QED
    BY <2>2, <2>3, <2>4
<1> HIDE DEF row, file
<1>8. /\ rv' \in Seq(ResumeVersion) /\ Len(rv') = v /\ rv'[v] = file
      /\ \A w \in Rows(rv) : rv'[w] = rv[w]
      /\ Rows(rv') = Rows(rv) \cup {v} /\ Len(rv') \in Nat /\ Len(rv) <= Len(rv')
  <2>1. rv \in Seq(ResumeVersion)
    BY DEF Inv, TypeOK
  <2>2. /\ rv' \in Seq(ResumeVersion) /\ Len(rv') = Len(rv) + 1
        /\ rv'[Len(rv) + 1] = file /\ \A w \in 1..Len(rv) : rv'[w] = rv[w]
    BY <1>3, <1>5, <2>1, AppendProperties
  <2>3. Rows(rv') = Rows(rv) \cup {v} /\ Len(rv') \in Nat /\ Len(rv) <= Len(rv')
    BY <2>2, TableFacts DEF Rows
  <2> QED
    BY <2>2, <2>3 DEF Rows
<1>9. /\ task' \in Seq(TaskRow) /\ Len(task') <= MaxTasks
      /\ Len(task) <= Len(task') /\ Len(task') \in Nat
      /\ \A u \in Rows(task) : task'[u] = task[u]
      /\ \A u \in Rows(task') : u \in Rows(task) \/ task'[u].version = v
      /\ t # 0 => /\ t = Len(task) + 1 /\ t <= Len(task')
                  /\ task'[t].version = v /\ task'[t].status = "pending"
  <2> HIDE DEF t, v
  <2> QED
    BY <1>3, <1>4, TaskMaybeAdded
<1>10. /\ app' \in Seq(Application) /\ Len(app') <= MaxApps /\ Len(app) <= Len(app')
       /\ \A a \in Rows(app') :
             \/ a \in Rows(app) /\ app'[a] = app[a]
             \/ /\ q.job # None /\ Live(q.job)
                /\ app'[a].job = q.job /\ app'[a].version = q.version
                /\ app'[a].candidate = p /\ app'[a] \in Application
                /\ app'[a].resume_version = v /\ app'[a].pipeline = "pending_parse"
       /\ \A a \in Rows(app) : SameApplication(app[a], app'[a])
  <2>1. CASE app' = app
    <3>1. app \in Seq(Application) /\ Rows(app') = Rows(app)
      BY <2>1 DEF Inv, TypeOK
    <3> QED
      BY <2>1, <3>1, TableFacts DEF SameApplication
  <2>2. CASE app' # app
    <3>1. q.job # None /\ Live(q.job) /\ Len(app) < MaxApps /\ app' = Append(app, bind)
      BY <1>3, <2>2
    <3>2. q.version \in 1..MaxVersions
      <4>1. /\ q.version \in 1..Len(version[q.job]) /\ Len(version[q.job]) \in 0..MaxVersions
        BY <1>2, <3>1, RowFacts DEF Released
      <4> QED
        BY <4>1
    <3>3. /\ bind \in Application /\ bind.job = q.job /\ bind.version = q.version
          /\ bind.candidate = p /\ bind.resume_version = v /\ bind.pipeline = "pending_parse"
      <4>1. q.job \in Jobs /\ v \in 0..MaxResumeRows /\ "pending_parse" \in Pipelines
        BY <1>2, <1>4, <3>1, TableFacts DEF Pipelines
      <4> HIDE DEF p, v
      <4> QED
        BY <1>4, <3>2, <4>1, CreatedColumns
    <3> HIDE DEF bind
    <3>4. /\ app' \in Seq(Application) /\ Len(app') = Len(app) + 1 /\ Len(app') <= MaxApps
          /\ app'[Len(app) + 1] = bind
          /\ \A a \in Rows(app) : app'[a] = app[a]
          /\ Rows(app') = Rows(app) \cup {Len(app) + 1}
      <4>1. app \in Seq(Application)
        BY DEF Inv, TypeOK
      <4> QED
        BY <3>1, <3>3, <4>1, AppAdded
    <3>5. Len(app) <= Len(app')
      BY <3>4, TableFacts
    <3>6. \A a \in Rows(app) : SameApplication(app[a], app'[a])
      BY <3>4 DEF SameApplication
    <3> QED
      BY <3>1, <3>3, <3>4, <3>5, <3>6
  <2> QED
    BY <2>1, <2>2
<1> HIDE DEF bind
<1>11. ResumesGrow
  BY <1>4, <1>8, <1>9, <1>10 DEF ResumesGrow, SameVersion
<1>12. /\ req' \in [Clients -> Handler \cup {None}] /\ opened' \in 0..MaxRequests
       /\ \A d \in Clients : req'[d] # None => req'[d] = req[d]
  BY <1>3, DoneKeeps DEF Inv
<1>13. Bound'
  <2>1. PICK k \in 1..MaxResumeRows : k = v
    BY <1>4
  <2>2. k \in Rows(rv') /\ rv'[k].kind = "file" /\ k # 0
    BY <1>5, <1>8, <2>1
  <2> HIDE DEF p, v, t, r
  <2>3. ASSUME NEW a \in Rows(app')
        PROVE  \/ a \in Rows(app) /\ app'[a] = app[a]
               \/ \E bound \in Application : bound = app'[a] /\ (Binding(bound) \/ Binding(bound)')
    <3>1. CASE a \in Rows(app) /\ app'[a] = app[a]
      BY <3>1
    <3>2. CASE ~(a \in Rows(app) /\ app'[a] = app[a])
      <4>1. PICK bound \in Application : bound = app'[a]
        BY <1>10, <3>2
      <4>2. /\ q.job # None /\ Live(q.job)
            /\ bound.job = q.job /\ bound.version = q.version
            /\ bound.resume_version = k /\ bound.pipeline = "pending_parse"
        BY <1>10, <2>1, <3>2, <4>1
      <4>3. Live(bound.job) /\ Released(bound.job, bound.version)
        BY <1>2, <4>2
      <4>4. Live(bound.job)' /\ Released(bound.job, bound.version)'
        BY <1>3, <4>3 DEF Live, Released
      <4>5. Binding(bound)'
        BY <2>2, <4>2, <4>4 DEF Binding
      <4> QED
        BY <4>1, <4>5
    <3> QED
      BY <3>1, <3>2
  <2>4. UNCHANGED <<job, version>> /\ Len(rv') \in Nat
    BY <1>3, <1>8
  <2> QED
    BY <1>11, <2>3, <2>4, BoundKeeps
<1>14. Confirmations'
  <2>1. file.status # "confirmed"
    BY <1>5
  <2>2. \A w \in Rows(rv') : rv'[w].status = "confirmed" => w \in Rows(rv) /\ rv[w].status = "confirmed"
    BY <1>8, <2>1
  <2> QED
    BY <1>8, <1>11, <2>2, ConfirmationsKeep
<1>15. OwnTasks' /\ Saving' /\ ParsingAwaitsTask'
  <2>1. ASSUME NEW w \in Rows(rv')
        PROVE  \/ /\ w \in Rows(rv) /\ rv'[w].task = rv[w].task
                  /\ rv'[w].status = "parsing" => rv[w].status = "parsing"
               \/ rv'[w].task = 0 /\ rv'[w].status # "parsing"
               \/ /\ rv'[w].task = Len(task) + 1 /\ Len(task) + 1 <= Len(task')
                  /\ task'[Len(task) + 1].version = w /\ task'[Len(task) + 1].status = "pending"
    <3> HIDE DEF p, v, t, r
    <3>1. CASE w \in Rows(rv)
      BY <1>8, <3>1
    <3>2. CASE w = v /\ t = 0
      BY <1>5, <1>8, <3>2
    <3>3. CASE w = v /\ t # 0
      BY <1>5, <1>8, <1>9, <3>3
    <3> QED
      BY <1>8, <3>1, <3>2, <3>3
  <2>2. \A u \in Rows(task) :
              /\ task'[u].version = task[u].version
              /\ task'[u].status \in {"succeeded", "failed"} => task'[u].status = task[u].status
    BY <1>9
  <2>3. saving' = saving
    BY <1>3
  <2> HIDE DEF p, v, t, r
  <2> QED
    BY <1>8, <1>9, <1>11, <2>1, <2>2, <2>3, TasksKeep
<1>16. \A w \in Rows(rv') : rv'[w].resume \in Rows(resume')
  BY <1>5, <1>7, <1>8, VersionFacts
<1>17. \A u \in Rows(task') : task'[u].version \in Rows(rv')
  <2>1. \A u \in Rows(task) : task[u].version \in Rows(rv)
    BY DEF Inv, TypeOK
  <2> QED
    BY <1>8, <1>9, <2>1
<1>18. \A a \in Rows(app') : app'[a].candidate <= candidates'
  <2>1. ASSUME NEW a \in Rows(app')
        PROVE  app'[a].candidate <= candidates'
    <3>1. CASE a \in Rows(app) /\ app'[a] = app[a]
      <4>1. app[a].candidate <= candidates /\ app[a].candidate \in Nat
        BY <3>1, AppFacts DEF Application
      <4>2. candidates \in Nat /\ candidates' \in Nat /\ candidates <= candidates'
        BY <1>4, TableFacts
      <4> QED
        BY <3>1, <4>1, <4>2
    <3>2. CASE app'[a].candidate = p
      BY <1>4, <3>2
    <3> QED
      BY <1>10, <3>1, <3>2
  <2> QED
    BY <2>1
<1>19. /\ saving' \in [1..MaxTasks -> ResumeVersion \cup {None}]
       /\ busy' \in [1..MaxTasks -> 0..MaxWorkers]
       /\ Len(resume') <= MaxResumes /\ Len(rv') <= MaxResumeRows
  BY <1>3, <1>7, <1>8 DEF Inv, TypeOK
<1> HIDE DEF p, v, t, r
<1> QED
  BY <1>3, <1>4, <1>7, <1>8, <1>9, <1>10, <1>11, <1>12, <1>13, <1>14, <1>15, <1>16, <1>17, <1>18,
     <1>19, ResumeStep

-----------------------------------------------------------------------------
(* Tasks. *)

LEMMA TaskColumns ==
    ASSUME Inv, NEW t \in Rows(task),
           NEW status \in {"pending", "running", "succeeded", "failed", "unreported", "cancelled"},
           task' = TaskMoved(t, status)
    PROVE  /\ task[t].version \in Rows(rv)
           /\ task' \in Seq(TaskRow) /\ Len(task') = Len(task) /\ Len(task') <= MaxTasks
           /\ Len(task') \in Nat /\ Rows(task') = Rows(task)
           /\ \A u \in Rows(task) : task'[u].version = task[u].version
           /\ \A u \in Rows(task) : u # t => task'[u] = task[u]
           /\ task'[t].status = status
<1> DEFINE row == [version |-> task[t].version, status |-> status]
<1>1. task \in Seq(TaskRow) /\ task[t].version \in Rows(rv)
  BY DEF Inv, TypeOK
<1>2. task[t].version \in 1..MaxResumeRows
  BY <1>1, VersionFacts
<1>3. row \in TaskRow /\ row.version = task[t].version /\ row.status = status
  BY <1>2 DEF TaskRow
<1>4. task' = [task EXCEPT ![t] = row]
  BY DEF TaskMoved
<1> HIDE DEF row
<1>5. /\ task' \in Seq(TaskRow) /\ Len(task') = Len(task)
      /\ \A u \in Rows(task) : task'[u] = IF u = t THEN row ELSE task[u]
  <2>1. t \in 1..Len(task)
    BY DEF Rows
  <2>2. /\ [task EXCEPT ![t] = row] \in Seq(TaskRow)
        /\ Len([task EXCEPT ![t] = row]) = Len(task)
        /\ \A u \in 1..Len(task) :
              [task EXCEPT ![t] = row][u] = IF u = t THEN row ELSE task[u]
    BY <1>1, <1>3, <2>1, ExceptSeq
  <2> QED
    BY <1>4, <2>2 DEF Rows
<1>6. Rows(task') = Rows(task) /\ t \in Rows(task)
  BY <1>5 DEF Rows
<1>7. Len(task') \in Nat /\ Len(task') <= MaxTasks
  BY <1>5, TableFacts
<1>8. \A u \in Rows(task) : /\ task'[u].version = task[u].version
                            /\ u # t => task'[u] = task[u]
  BY <1>3, <1>5
<1> QED
  BY <1>1, <1>3, <1>5, <1>6, <1>7, <1>8

\* A task changes its status, but is not reported, and nothing is written.
LEMMA TaskMoves ==
    ASSUME Inv, NEW t \in Rows(task),
           NEW to \in {"pending", "running", "unreported", "cancelled"}, task' = TaskMoved(t, to),
           UNCHANGED <<jobVars, candidates, resume, rv>>,
           busy' \in [1..MaxTasks -> 0..MaxWorkers],
           saving' \in [1..MaxTasks -> ResumeVersion \cup {None}],
           \A u \in 1..MaxTasks : saving'[u] = saving[u] \/ saving'[u] = None
    PROVE  Inv'
<1>1. /\ job' = job /\ version' = version /\ app' = app /\ opened' = opened /\ req' = req
      /\ candidates' = candidates /\ resume' = resume /\ rv' = rv
  BY DEF jobVars
<1>2. /\ task' \in Seq(TaskRow) /\ Len(task') = Len(task) /\ Len(task') <= MaxTasks
      /\ Len(task') \in Nat /\ Rows(task') = Rows(task)
      /\ \A u \in Rows(task) : task'[u].version = task[u].version
      /\ \A u \in Rows(task) : u # t => task'[u] = task[u]
      /\ task'[t].status = to
  BY <1>1, TaskColumns
<1>3. ResumesGrow /\ Len(rv') \in Nat
  BY <1>1, <1>2, TableFacts DEF ResumesGrow, SameVersion, SameApplication
<1>4. Rows(rv') = Rows(rv) /\ Rows(app') = Rows(app) /\ Rows(resume') = Rows(resume)
  BY <1>1
<1>5. Bound'
  BY <1>1, <1>3, <1>4, BoundKeeps
<1>6. Confirmations'
  BY <1>1, <1>3, ConfirmationsKeep
<1>7. OwnTasks' /\ Saving' /\ ParsingAwaitsTask'
  <2>1. ASSUME NEW u \in Rows(task)
        PROVE  /\ task'[u].version = task[u].version
               /\ task'[u].status \in {"succeeded", "failed"} => task'[u].status = task[u].status
    BY <1>2
  <2> QED
    BY <1>1, <1>2, <1>3, <2>1, TasksKeep
<1>8. \A u \in Rows(task') : task'[u].version \in Rows(rv')
  BY <1>2, <1>4 DEF Inv, TypeOK
<1>9. /\ opened' \in 0..MaxRequests /\ req' \in [Clients -> Handler \cup {None}]
      /\ \A d \in Clients : req'[d] # None => req'[d] = req[d]
      /\ candidates' \in 0..MaxCandidates
      /\ resume' \in Seq(Resume) /\ Len(resume') <= MaxResumes
      /\ rv' \in Seq(ResumeVersion) /\ Len(rv') <= MaxResumeRows
      /\ app' \in Seq(Application) /\ Len(app') <= MaxApps
      /\ \A r \in Rows(resume') : resume'[r].candidate <= candidates'
      /\ \A v \in Rows(rv') : rv'[v].resume \in Rows(resume')
      /\ \A a \in Rows(app') : app'[a].candidate <= candidates'
  BY <1>1, <1>4 DEF Inv, TypeOK, JobTypeOK
<1> QED
  BY <1>1, <1>2, <1>3, <1>5, <1>6, <1>7, <1>8, <1>9, ResumeStep

\* The status of a task moves while nobody has its lock.
LEMMA MoveTaskKeeps ==
    ASSUME Inv, NEW t \in Rows(task), NEW from,
           NEW to \in {"pending", "running", "unreported", "cancelled"}, MoveTask(t, from, to),
           busy' \in [1..MaxTasks -> 0..MaxWorkers]
    PROVE  Inv'
<1>1. /\ task' = TaskMoved(t, to) /\ saving' = saving
      /\ UNCHANGED <<jobVars, candidates, resume, rv>>
  BY DEF MoveTask
<1>2. saving' \in [1..MaxTasks -> ResumeVersion \cup {None}]
  BY <1>1 DEF Inv, TypeOK
<1> QED
  BY <1>1, <1>2, TaskMoves

\* What a worker that ends leaves of its claim and of its lock.
LEMMA EndedColumns ==
    ASSUME Inv, NEW t \in Rows(task), NEW status, EndWorker(t, status)
    PROVE  /\ t \in 1..MaxTasks /\ t <= Len(task)
           /\ busy' \in [1..MaxTasks -> 0..MaxWorkers]
           /\ saving' \in [1..MaxTasks -> ResumeVersion \cup {None}]
           /\ saving'[t] = None /\ \A u \in 1..MaxTasks : u # t => saving'[u] = saving[u]
<1>1. t \in 1..MaxTasks /\ t <= Len(task) /\ MaxWorkers \in Nat
  BY TableFacts, ResumesAssumption DEF Rows
<1>2. /\ busy \in [1..MaxTasks -> 0..MaxWorkers]
      /\ saving \in [1..MaxTasks -> ResumeVersion \cup {None}]
  BY DEF Inv, TypeOK
<1>3. /\ busy[t] > 0 /\ busy' = [busy EXCEPT ![t] = busy[t] - 1]
      /\ saving' = [saving EXCEPT ![t] = None]
  BY DEF EndWorker
<1>4. busy[t] - 1 \in 0..MaxWorkers
  <2>1. busy[t] \in 0..MaxWorkers
    BY <1>1, <1>2
  <2> QED
    BY <1>1, <1>3, <2>1
<1>5. busy' \in [1..MaxTasks -> 0..MaxWorkers]
  BY <1>2, <1>3, <1>4
<1>6. /\ saving' \in [1..MaxTasks -> ResumeVersion \cup {None}]
      /\ saving'[t] = None /\ \A u \in 1..MaxTasks : u # t => saving'[u] = saving[u]
  BY <1>1, <1>2, <1>3
<1> QED
  BY <1>1, <1>5, <1>6

LEMMA EndWorkerKeeps ==
    ASSUME Inv, NEW t \in Rows(task), NEW status \in {"pending", "unreported"},
           EndWorker(t, status), UNCHANGED rv
    PROVE  Inv'
<1>1. /\ busy' \in [1..MaxTasks -> 0..MaxWorkers]
      /\ saving' \in [1..MaxTasks -> ResumeVersion \cup {None}]
      /\ \A u \in 1..MaxTasks : saving'[u] = saving[u] \/ saving'[u] = None
  BY EndedColumns
<1>2. task' = TaskMoved(t, status) /\ UNCHANGED <<jobVars, candidates, resume, rv>>
  BY DEF EndWorker
<1> QED
  BY <1>1, <1>2, TaskMoves

LEMMA ClaimTaskKeeps ==
    ASSUME Inv, NEW t \in Rows(task), ClaimTask(t)
    PROVE  Inv'
<1>1. /\ MoveTask(t, "pending", "running")
      /\ busy[t] < MaxWorkers /\ busy' = [busy EXCEPT ![t] = busy[t] + 1]
  BY DEF ClaimTask
<1>2. busy' \in [1..MaxTasks -> 0..MaxWorkers]
  <2>1. busy \in [1..MaxTasks -> 0..MaxWorkers] /\ t \in 1..MaxTasks /\ MaxWorkers \in Nat
    BY TableFacts, ResumesAssumption DEF Inv, TypeOK, Rows
  <2>2. busy[t] + 1 \in 0..MaxWorkers
    <3>1. busy[t] \in 0..MaxWorkers
      BY <2>1
    <3> QED
      BY <1>1, <2>1, <3>1
  <2> QED
    BY <1>1, <2>1, <2>2
<1> QED
  BY <1>1, <1>2, MoveTaskKeeps

\* The version is loaded while the worker holds the task: if it is being parsed now, the copy says so.
LEMMA ApplyTaskKeeps ==
    ASSUME Inv, NEW t \in Rows(task), ApplyTask(t)
    PROVE  Inv'
<1>1. /\ saving' = [saving EXCEPT ![t] = rv[task[t].version]]
      /\ job' = job /\ version' = version /\ app' = app /\ opened' = opened /\ req' = req
      /\ candidates' = candidates /\ resume' = resume /\ rv' = rv /\ task' = task
      /\ busy' = busy
  BY DEF ApplyTask, jobVars
<1>2. PICK v \in Rows(rv) : v = task[t].version
  BY DEF Inv, TypeOK
<1>3. t \in 1..MaxTasks /\ t <= Len(task)
  BY TableFacts DEF Rows
<1>4. /\ saving' \in [1..MaxTasks -> ResumeVersion \cup {None}]
      /\ saving'[t] = rv[v] /\ \A u \in 1..MaxTasks : u # t => saving'[u] = saving[u]
  <2>1. saving \in [1..MaxTasks -> ResumeVersion \cup {None}] /\ rv[v] \in ResumeVersion
    BY VersionFacts DEF Inv, TypeOK
  <2> QED
    BY <1>1, <1>2, <1>3, <2>1
<1>5. ResumesGrow /\ Len(rv') \in Nat /\ Len(task') \in Nat
  BY <1>1, TableFacts DEF ResumesGrow, SameVersion, SameApplication
<1>6. /\ Rows(rv') = Rows(rv) /\ Rows(app') = Rows(app) /\ Rows(resume') = Rows(resume)
      /\ Rows(task') = Rows(task)
  BY <1>1
<1>7. Bound'
  BY <1>1, <1>5, <1>6, BoundKeeps
<1>8. Confirmations'
  BY <1>1, <1>5, ConfirmationsKeep
<1>9. OwnTasks' /\ ParsingAwaitsTask'
  BY <1>1, <1>6 DEF Inv, OwnTasks, ParsingAwaitsTask
<1>10. Saving'
  <2>1. ASSUME NEW u \in 1..MaxTasks, saving'[u] # None
        PROVE  /\ u <= Len(task)
               /\ VersionHolds(task[u].version, saving'[u])
               /\ rv[task[u].version].task = u /\ rv[task[u].version].status = "parsing"
                     => saving'[u].status = "parsing"
    <3>1. CASE u = t
      BY <1>1, <1>2, <1>3, <1>4, <3>1, VersionFacts
    <3>2. CASE u # t
      BY <1>4, <2>1, <3>2 DEF Inv, Saving
    <3> QED
      BY <3>1, <3>2
  <2> QED
    BY <1>1, <1>6, <2>1 DEF Saving, VersionHolds
<1>11. /\ opened' \in 0..MaxRequests /\ req' \in [Clients -> Handler \cup {None}]
       /\ \A d \in Clients : req'[d] # None => req'[d] = req[d]
       /\ candidates' \in 0..MaxCandidates
       /\ resume' \in Seq(Resume) /\ Len(resume') <= MaxResumes
       /\ rv' \in Seq(ResumeVersion) /\ Len(rv') <= MaxResumeRows
       /\ task' \in Seq(TaskRow) /\ Len(task') <= MaxTasks
       /\ app' \in Seq(Application) /\ Len(app') <= MaxApps
       /\ busy' \in [1..MaxTasks -> 0..MaxWorkers]
       /\ \A r \in Rows(resume') : resume'[r].candidate <= candidates'
       /\ \A w \in Rows(rv') : rv'[w].resume \in Rows(resume')
       /\ \A u \in Rows(task') : task'[u].version \in Rows(rv')
       /\ \A a \in Rows(app') : app'[a].candidate <= candidates'
  BY <1>1, <1>6 DEF Inv, TypeOK, JobTypeOK
<1> QED
  BY <1>1, <1>4, <1>5, <1>7, <1>8, <1>9, <1>10, <1>11, ResumeStep

\* A version that waits for this very task was being parsed when the worker loaded it, so
\* the worker rewrites its status; a version that waits for another task keeps waiting.
LEMMA ApplyKeeps ==
    ASSUME Inv, NEW t \in Rows(task), NEW status \in {"succeeded", "failed"},
           NEW new \in ResumeVersion, saving[t] # None => SameVersion(saving[t], new),
           saving[t] # None => new.task = saving[t].task /\ new.status # "parsing",
           saving[t] # None => new.status = saving[t].status \/ new.status # "confirmed",
           Apply(t, status, new)
    PROVE  Inv'
<1>1. /\ saving[t] # None
      /\ task' = TaskMoved(t, status)
      /\ rv' = [rv EXCEPT ![task[t].version] = Flush(rv[task[t].version], saving[t], new)]
      /\ EndWorker(t, status)
      /\ job' = job /\ version' = version /\ app' = app /\ opened' = opened /\ req' = req
      /\ candidates' = candidates /\ resume' = resume
  BY DEF Apply, EndWorker, jobVars
<1>2. t \in 1..MaxTasks /\ t <= Len(task)
  BY TableFacts DEF Rows
<1>3. PICK v \in Rows(rv) : v = task[t].version
  BY DEF Inv, TypeOK
<1>4. PICK loaded \in ResumeVersion : loaded = saving[t]
  BY <1>1, <1>2 DEF Inv, TypeOK
<1>5. /\ SameVersion(loaded, new) /\ new.task = loaded.task /\ new.status # "parsing"
      /\ new.status = loaded.status \/ new.status # "confirmed"
  BY <1>1, <1>4
<1>6. rv[v].task = t /\ rv[v].status = "parsing" => loaded.status = "parsing"
  BY <1>1, <1>2, <1>3, <1>4 DEF Inv, Saving
<1>7. /\ task' \in Seq(TaskRow) /\ Len(task') = Len(task) /\ Len(task') <= MaxTasks
      /\ Len(task') \in Nat /\ Rows(task') = Rows(task)
      /\ \A u \in Rows(task) : task'[u].version = task[u].version
      /\ \A u \in Rows(task) : u # t => task'[u] = task[u]
      /\ task'[t].status = status
  BY <1>1, TaskColumns
<1> DEFINE rows == [rv EXCEPT ![v] = Flush(rv[v], loaded, new)]
<1>8. /\ rv' \in Seq(ResumeVersion) /\ Len(rv') = Len(rv)
      /\ \A w \in Rows(rv) : SameVersion(rv[w], rv'[w]) /\ (w # v => rv'[w] = rv[w])
      /\ rv'[v].status = (IF new.status = loaded.status THEN rv[v].status ELSE new.status)
      /\ rv'[v].task = rv[v].task
  <2>1. /\ rows \in Seq(ResumeVersion) /\ Len(rows) = Len(rv)
        /\ \A w \in Rows(rv) : SameVersion(rv[w], rows[w]) /\ (w # v => rows[w] = rv[w])
        /\ rows[v].status = (IF new.status = loaded.status THEN rv[v].status ELSE new.status)
        /\ rows[v].task = rv[v].task
    BY <1>5, FlushedRow
  <2>2. rv' = rows
    BY <1>1, <1>3, <1>4
  <2> HIDE DEF rows
  <2> QED
    BY <2>1, <2>2
<1> HIDE DEF rows
<1>9. /\ saving' \in [1..MaxTasks -> ResumeVersion \cup {None}]
      /\ saving'[t] = None /\ \A u \in 1..MaxTasks : u # t => saving'[u] = saving[u]
      /\ busy' \in [1..MaxTasks -> 0..MaxWorkers]
  BY <1>1, EndedColumns
<1>10. ResumesGrow /\ Len(rv') \in Nat
  BY <1>1, <1>7, <1>8, TableFacts DEF ResumesGrow, SameApplication
<1>11. Rows(rv') = Rows(rv) /\ Rows(app') = Rows(app) /\ Rows(resume') = Rows(resume)
  BY <1>1, <1>8 DEF Rows
<1>12. Bound'
  BY <1>1, <1>10, <1>11, BoundKeeps
<1>13. Confirmations'
  <2>1. \A w \in Rows(rv') : rv'[w].status = "confirmed" => w \in Rows(rv) /\ rv[w].status = "confirmed"
    BY <1>5, <1>8, <1>11
  <2> QED
    BY <1>10, <2>1, ConfirmationsKeep
<1>14. \A w \in Rows(rv) : /\ rv'[w].task = rv[w].task
                           /\ rv'[w].status = "parsing" => rv[w].status = "parsing"
  BY <1>5, <1>8
<1>15. OwnTasks'
  <2>1. ASSUME NEW w \in Rows(rv'), rv'[w].task # 0
        PROVE  rv'[w].task <= Len(task') /\ task'[rv'[w].task].version = w
    <3>1. rv[w].task \in Rows(task) /\ task[rv[w].task].version = w /\ rv'[w].task = rv[w].task
      BY <1>11, <1>14, <2>1, VersionFacts
    <3>2. task'[rv[w].task].version = w
      BY <1>7, <3>1
    <3> QED
      BY <1>7, <3>1, <3>2 DEF Rows
  <2> QED
    BY <2>1 DEF OwnTasks
<1>16. ParsingAwaitsTask'
  <2>1. ASSUME NEW w \in Rows(rv'), rv'[w].status = "parsing"
        PROVE  /\ rv'[w].task # 0 /\ task'[rv'[w].task].version = w
               /\ task'[rv'[w].task].status \notin {"succeeded", "failed"}
    <3>1. rv'[w].task = rv[w].task /\ rv[w].status = "parsing" /\ w \in Rows(rv)
      BY <1>11, <1>14, <2>1
    <3>2. /\ rv[w].task # 0 /\ task[rv[w].task].version = w
          /\ task[rv[w].task].status \notin {"succeeded", "failed"}
      BY <3>1 DEF Inv, ParsingAwaitsTask
    <3>3. rv[w].task \in Rows(task)
      BY <3>1, <3>2, VersionFacts
    <3>4. rv[w].task # t
      <4>1. CASE w = v
        <5>1. new.status = loaded.status /\ loaded.status # "parsing"
          BY <1>5, <1>8, <2>1, <4>1
        <5> QED
          BY <1>6, <3>1, <4>1, <5>1
      <4>2. CASE w # v
        BY <1>3, <3>2, <4>2
      <4> QED
        BY <4>1, <4>2
    <3> QED
      BY <1>7, <3>1, <3>2, <3>3, <3>4
  <2> QED
    BY <2>1 DEF ParsingAwaitsTask
<1>17. Saving'
  <2>1. ASSUME NEW u \in 1..MaxTasks, saving'[u] # None
        PROVE  /\ u <= Len(task')
               /\ VersionHolds(task[u].version, saving[u])' /\ task'[u].version = task[u].version
               /\ rv'[task'[u].version].task = u /\ rv'[task'[u].version].status = "parsing"
                     => saving'[u].status = "parsing"
    <3>1. u # t /\ saving'[u] = saving[u] /\ saving[u] # None
      BY <1>9, <2>1
    <3>2. /\ u <= Len(task)
          /\ VersionHolds(task[u].version, saving[u])
          /\ rv[task[u].version].task = u /\ rv[task[u].version].status = "parsing"
                => saving[u].status = "parsing"
      BY <3>1 DEF Inv, Saving
    <3>3. u \in Rows(task) /\ task'[u] = task[u]
      <4>1. u \in Rows(task)
        BY <3>2, TableFacts DEF Rows
      <4> QED
        BY <1>7, <3>1, <4>1
    <3>4. PICK row \in ResumeVersion : row = saving[u]
      BY <3>1 DEF Inv, TypeOK
    <3>5. PICK w \in Rows(rv) : w = task[u].version
      BY <3>2 DEF VersionHolds
    <3>6. VersionHolds(w, row)'
      <4>1. VersionHolds(w, row)
        BY <3>2, <3>4, <3>5
      <4> QED
        BY <1>7, <1>10, <4>1, VersionStays DEF Inv
    <3>7. VersionHolds(task[u].version, saving[u])'
      BY <3>1, <3>3, <3>4, <3>5, <3>6
    <3>8. rv'[w].task = u /\ rv'[w].status = "parsing" => saving[u].status = "parsing"
      BY <1>14, <3>2, <3>5
    <3> QED
      BY <1>7, <3>1, <3>2, <3>3, <3>5, <3>7, <3>8
  <2> QED
    BY <2>1 DEF Saving
<1>18. \A u \in Rows(task') : task'[u].version \in Rows(rv')
  BY <1>7, <1>11 DEF Inv, TypeOK
<1>19. \A w \in Rows(rv') : rv'[w].resume \in Rows(resume')
  BY <1>8, <1>11, VersionFacts DEF SameVersion
<1>20. /\ opened' \in 0..MaxRequests /\ req' \in [Clients -> Handler \cup {None}]
       /\ \A d \in Clients : req'[d] # None => req'[d] = req[d]
       /\ candidates' \in 0..MaxCandidates
       /\ resume' \in Seq(Resume) /\ Len(resume') <= MaxResumes
       /\ Len(rv') <= MaxResumeRows
       /\ app' \in Seq(Application) /\ Len(app') <= MaxApps
       /\ \A r \in Rows(resume') : resume'[r].candidate <= candidates'
       /\ \A a \in Rows(app') : app'[a].candidate <= candidates'
  BY <1>1, <1>8, <1>11 DEF Inv, TypeOK, JobTypeOK
<1> QED
  BY <1>1, <1>7, <1>8, <1>9, <1>10, <1>12, <1>13, <1>15, <1>16, <1>17, <1>18, <1>19, <1>20,
     ResumeStep

LEMMA ParsedColumns ==
    ASSUME NEW row \in ResumeVersion
    PROVE  /\ [row EXCEPT !.status = "pending_review", !.draft = "ai"] \in ResumeVersion
           /\ SameVersion(row, [row EXCEPT !.status = "pending_review", !.draft = "ai"])
           /\ [row EXCEPT !.status = "pending_review", !.draft = "ai"].task = row.task
           /\ [row EXCEPT !.status = "pending_review", !.draft = "ai"].status = "pending_review"
           /\ ParseFailed(row) \in ResumeVersion /\ SameVersion(row, ParseFailed(row))
           /\ ParseFailed(row).task = row.task /\ ParseFailed(row).status # "parsing"
           /\ ParseFailed(row).status = row.status \/ ParseFailed(row).status = "parse_failed"
<1>1. /\ [row EXCEPT !.status = "pending_review", !.draft = "ai"] \in ResumeVersion
      /\ SameVersion(row, [row EXCEPT !.status = "pending_review", !.draft = "ai"])
      /\ [row EXCEPT !.status = "pending_review", !.draft = "ai"].task = row.task
      /\ [row EXCEPT !.status = "pending_review", !.draft = "ai"].status = "pending_review"
  BY DEF ResumeVersion, SameVersion
<1>2. /\ ParseFailed(row) \in ResumeVersion /\ SameVersion(row, ParseFailed(row))
      /\ ParseFailed(row).task = row.task /\ ParseFailed(row).status # "parsing"
      /\ ParseFailed(row).status = row.status \/ ParseFailed(row).status = "parse_failed"
  BY DEF ParseFailed, ResumeVersion, SameVersion
<1> QED
  BY <1>1, <1>2

LEMMA TaskStepKeeps ==
    ASSUME Inv, NEW t \in Rows(task), TaskStep(t)
    PROVE  Inv'
<1>1. CASE cancel_ai_task(t) \/ mark_stale_failed_ai_task(t) \/ retry_ai_task(t)
  <2>1. busy' \in [1..MaxTasks -> 0..MaxWorkers]
    BY <1>1 DEF Inv, TypeOK, cancel_ai_task, mark_stale_failed_ai_task, retry_ai_task
  <2> QED
    BY <1>1, <2>1, MoveTaskKeeps DEF cancel_ai_task, mark_stale_failed_ai_task, retry_ai_task
<1>2. CASE ApplyTask(t)
  BY <1>2, ApplyTaskKeeps
<1>3. ASSUME apply_resume_parse_success(t) \/ apply_resume_parse_failure(t)
      PROVE  Inv'
  <2>1. saving[t] # None
    BY <1>3 DEF apply_resume_parse_success, apply_resume_parse_failure, Apply
  <2>2. t \in 1..MaxTasks
    BY TableFacts DEF Rows
  <2>3. PICK row \in ResumeVersion : row = saving[t]
    BY <2>1, <2>2 DEF Inv, TypeOK
  <2>4. CASE apply_resume_parse_success(t)
    <3> DEFINE new == [row EXCEPT !.status = "pending_review", !.draft = "ai"]
    <3>1. /\ new \in ResumeVersion /\ SameVersion(row, new)
          /\ new.task = row.task /\ new.status = "pending_review"
      BY ParsedColumns
    <3>2. Apply(t, "succeeded", new)
      BY <2>3, <2>4 DEF apply_resume_parse_success
    <3> HIDE DEF new
    <3> QED
      BY <2>3, <3>1, <3>2, ApplyKeeps
  <2>5. CASE apply_resume_parse_failure(t)
    <3>1. Apply(t, "failed", ParseFailed(row))
      BY <2>3, <2>5 DEF apply_resume_parse_failure
    <3>2. /\ ParseFailed(row) \in ResumeVersion /\ SameVersion(row, ParseFailed(row))
          /\ ParseFailed(row).task = row.task /\ ParseFailed(row).status # "parsing"
          /\ ParseFailed(row).status = row.status \/ ParseFailed(row).status # "confirmed"
      BY ParsedColumns
    <3> QED
      BY <2>3, <3>1, <3>2, ApplyKeeps
  <2> QED
    BY <1>3, <2>4, <2>5
<1>4. CASE AutoRetry(t) \/ LoseTask(t)
  BY <1>4, EndWorkerKeeps DEF AutoRetry, LoseTask
<1>5. CASE ClaimTask(t)
  BY <1>5, ClaimTaskKeeps
<1> QED
  BY <1>1, <1>2, <1>3, <1>4, <1>5 DEF TaskStep
-----------------------------------------------------------------------------
(* The invariant. *)

LEMMA FirstColumns ==
    ASSUME NEW content \in Contents
    PROVE  FirstVersion(content) \in JobVersion /\ FirstVersion(content).status = "published"
<1>1. PICK row \in JobVersion : row = create_draft_version(content, 0)
  BY DraftColumns
<1>2. FirstVersion(content) = [row EXCEPT !.status = "published", !.major = 1]
  BY <1>1 DEF FirstVersion
<1>3. [row EXCEPT !.status = "published", !.major = 1] \in JobVersion
  BY DEF JobVersion
<1>4. [row EXCEPT !.status = "published", !.major = 1].status = "published"
  BY DEF JobVersion
<1> QED
  BY <1>2, <1>3, <1>4

\* The versions of the first job: one that is published, and perhaps a draft.
LEMMA InitVersions ==
    ASSUME NEW only \in JobVersion, only.status = "published",
           NEW next \in JobVersion, next.status = "draft",
           NEW draft \in {0, 2} \cap (0..MaxVersions), NEW row,
           row = [status |-> "open", current |-> 1, draft |-> draft],
           NEW rows, rows = <<only>> \o IF draft = 0 THEN <<>> ELSE <<next>>
    PROVE  /\ row \in JobRow /\ rows \in Seq(JobVersion) /\ Len(rows) <= MaxVersions
           /\ Pointing(row, rows)
<1>1. row \in JobRow
  BY DEF JobRow
<1>2. CASE draft = 0
  <2>1. rows = <<only>>
    <3>1. rows = <<only>> \o <<>> /\ <<only>> \in Seq(JobVersion)
      BY <1>2
    <3> QED
      BY <3>1, ConcatEmptySeq
  <2>2. rows \in Seq(JobVersion) /\ Len(rows) = 1 /\ rows[1] = only
    <3>1. <<only>> \in Seq(JobVersion) /\ Len(<<only>>) = 1 /\ <<only>>[1] = only
      OBVIOUS
    <3> QED
      BY <2>1, <3>1
  <2> QED
    BY <1>1, <1>2, <2>2 DEF Pointing
<1>3. CASE draft = 2
  <2>1. /\ rows = <<only>> \o <<next>> /\ 2 <= MaxVersions
        /\ <<only>> \in Seq(JobVersion) /\ <<next>> \in Seq(JobVersion)
        /\ Len(<<only>>) = 1 /\ <<only>>[1] = only /\ Len(<<next>>) = 1 /\ <<next>>[1] = next
    BY <1>3
  <2>2. /\ <<only>> \o <<next>> \in Seq(JobVersion) /\ Len(<<only>> \o <<next>>) = 2
        /\ (<<only>> \o <<next>>)[1] = only /\ (<<only>> \o <<next>>)[2] = next
    <3>1. /\ <<only>> \o <<next>> \in Seq(JobVersion)
          /\ Len(<<only>> \o <<next>>) = Len(<<only>>) + Len(<<next>>)
          /\ \A i \in 1..Len(<<only>>) + Len(<<next>>) :
                (<<only>> \o <<next>>)[i] =
                   IF i <= Len(<<only>>) THEN <<only>>[i] ELSE <<next>>[i - Len(<<only>>)]
      BY <2>1, ConcatProperties
    <3> QED
      BY <2>1, <3>1
  <2> QED
    BY <1>1, <1>3, <2>1, <2>2 DEF Pointing
<1> QED
  BY <1>2, <1>3

LEMMA InitInv == Init => Inv
<1> SUFFICES ASSUME Init PROVE Inv
  OBVIOUS
<1>1. PICK first \in Jobs, content \in Contents, draft \in {0, 2} \cap (0..MaxVersions) :
         /\ job = [j \in Jobs |->
               IF j = first THEN [status |-> "open", current |-> 1, draft |-> draft] ELSE None]
         /\ version = [j \in Jobs |->
               IF j # first THEN <<>>
               ELSE <<FirstVersion(content)>>
                    \o IF draft = 0 THEN <<>> ELSE <<create_draft_version(content, 1)>>]
  BY DEF Init, JobInit
<1>2. PICK only \in JobVersion : only = FirstVersion(content) /\ only.status = "published"
  BY FirstColumns
<1>3. \E next \in JobVersion :
         /\ next.status = "draft"
         /\ draft # 0 => next = create_draft_version(content, 1)
  <2>1. 0 \in 0..MaxVersions /\ (draft # 0 => 1 \in 0..MaxVersions)
    BY <1>1
  <2>2. \A base \in 0..MaxVersions : /\ create_draft_version(content, base) \in JobVersion
                                     /\ create_draft_version(content, base).status = "draft"
    BY DraftColumns
  <2> QED
    BY <2>1, <2>2
<1>4. PICK next \in JobVersion :
         /\ next.status = "draft"
         /\ draft # 0 => next = create_draft_version(content, 1)
  BY <1>3
<1> DEFINE row  == [status |-> "open", current |-> 1, draft |-> draft]
           rows == <<only>> \o IF draft = 0 THEN <<>> ELSE <<next>>
<1>5. /\ row \in JobRow /\ rows \in Seq(JobVersion) /\ Len(rows) <= MaxVersions
      /\ Pointing(row, rows)
  <2>1. row = [status |-> "open", current |-> 1, draft |-> draft]
    OBVIOUS
  <2>2. rows = <<only>> \o IF draft = 0 THEN <<>> ELSE <<next>>
    OBVIOUS
  <2>3. only.status = "published" /\ next.status = "draft"
    BY <1>2, <1>4
  <2> HIDE DEF row, rows
  <2> QED
    BY <2>1, <2>2, <2>3, InitVersions
<1>6. \A j \in Jobs : /\ job[j] = IF j = first THEN row ELSE None
                      /\ version[j] = IF j = first THEN rows ELSE <<>>
  BY <1>1, <1>2, <1>4
<1> HIDE DEF row, rows
<1>7. /\ app = <<>> /\ opened = 0 /\ req = [c \in Clients |-> None] /\ candidates = 0
      /\ resume = <<>> /\ rv = <<>> /\ task = <<>> /\ saving = [t \in 1..MaxTasks |-> None]
      /\ busy = [t \in 1..MaxTasks |-> 0]
  BY DEF Init, JobInit
<1>8. \A j \in Jobs : Live(j) <=> j = first
  BY <1>5, <1>6 DEF Live
<1>9. JobTypeOK
  <2>1. job \in [Jobs -> JobRow \cup {None, Deleted}]
    <3>1. job = [j \in Jobs |-> job[j]]
      BY <1>1
    <3> QED
      BY <1>5, <1>6, <3>1
  <2>2. version \in [Jobs -> Seq(JobVersion)]
    <3>1. version = [j \in Jobs |-> version[j]]
      BY <1>1
    <3>2. <<>> \in Seq(JobVersion)
      OBVIOUS
    <3> QED
      BY <1>5, <1>6, <3>1, <3>2
  <2>3. \A j \in Jobs : Len(version[j]) <= IF Live(j) THEN MaxVersions ELSE 0
    <3>1. Len(<<>>) = 0
      OBVIOUS
    <3> QED
      BY <1>5, <1>6, <1>8, <3>1
  <2>4. opened \in 0..MaxRequests
    BY <1>7
  <2> QED
    BY <2>1, <2>2, <2>3, <2>4 DEF JobTypeOK
<1>10. /\ Rows(resume) = {} /\ Rows(rv) = {} /\ Rows(task) = {} /\ Rows(app) = {}
       /\ Len(resume) = 0 /\ Len(rv) = 0 /\ Len(task) = 0 /\ Len(app) = 0
  BY <1>7 DEF Rows
<1>11. TypeOK
  <2>1. /\ resume \in Seq(Resume) /\ rv \in Seq(ResumeVersion) /\ task \in Seq(TaskRow)
        /\ app \in Seq(Application)
    BY <1>7
  <2>2. /\ req \in [Clients -> Handler \cup {None}] /\ candidates \in 0..MaxCandidates
        /\ saving \in [1..MaxTasks -> ResumeVersion \cup {None}]
        /\ busy \in [1..MaxTasks -> 0..MaxWorkers]
    BY <1>7
  <2> QED
    BY <1>9, <1>10, <2>1, <2>2 DEF TypeOK
<1>12. Pointers
  BY <1>5, <1>6, <1>8 DEF Pointers
<1>13. Requests /\ Saving
  BY <1>7 DEF Requests, Saving
<1>14. Bound /\ Confirmations /\ OwnTasks /\ ParsingAwaitsTask
  BY <1>10 DEF Bound, Confirmations, OwnTasks, ParsingAwaitsTask
<1> QED
  BY <1>11, <1>12, <1>13, <1>14 DEF Inv

LEMMA StutterKeeps == ASSUME Inv, UNCHANGED vars PROVE Inv'
<1>1. /\ UNCHANGED <<job, version, app, resumeVars>>
      /\ req' = req /\ opened' = opened
  BY DEF vars, jobVars, resumeVars, taskVars
<1>2. req' \in [Clients -> Handler \cup {None}] /\ opened' \in 0..MaxRequests
  BY <1>1 DEF Inv, TypeOK, JobTypeOK
<1> QED
  BY <1>1, <1>2, RequestsOnly

LEMMA NextInv == Inv /\ [Next]_vars => Inv'
<1> SUFFICES ASSUME Inv, [Next]_vars PROVE Inv'
  OBVIOUS
<1>1. CASE JobStep /\ UNCHANGED resumeVars
  BY <1>1, NewJobKeeps, JobRequestKeeps, CommitEditKeeps, CommitRemoveKeeps DEF JobStep
<1>2. ASSUME NEW c \in Clients, ResumeRequest(c)
      PROVE  Inv'
  BY <1>2, ResumeRequestKeeps
<1>3. ASSUME NEW c \in Clients, ResumeCommit(c)
      PROVE  Inv'
  BY <1>3, UploadKeeps, CommitDraftKeeps, CommitConfirmKeeps, CommitReparseKeeps,
     CommitApplicationKeeps DEF ResumeCommit
<1>4. ASSUME NEW c \in Clients, Abandon(c), UNCHANGED resumeVars
      PROVE  Inv'
  BY <1>4, AbandonKeeps
<1>5. ASSUME NEW t \in Rows(task), TaskStep(t)
      PROVE  Inv'
  BY <1>5, TaskStepKeeps
<1>6. CASE UNCHANGED vars
  BY <1>6, StutterKeeps
<1>7. ASSUME NEW c \in Clients, CandidateRequest(c)
      PROVE  Inv'
  BY <1>7, CandidateRequestKeeps
<1>8. ASSUME NEW c \in Clients, CandidateCommit(c)
      PROVE  Inv'
  BY <1>8, CommitCandidateKeeps, CommitCloseKeeps, CommitMigrateKeeps, CommitScreeningKeeps
  DEF CandidateCommit
<1> QED
  BY <1>1, <1>2, <1>3, <1>4, <1>5, <1>6, <1>7, <1>8 DEF Next

(* However the requests of HR and the workers overlap, a request that is open may rely  *)
(* on what Requests says, and a worker that applies a task on what Saving says; the     *)
(* pointers of jobs, the bindings of applications and the tasks of versions are right   *)
(* (services/jobs.py, services/resumes.py).                                             *)
THEOREM Invariance == Spec => []Inv
<1>1. Inv /\ [Next]_vars => Inv'
  BY NextInv
<1> QED
  BY <1>1, InitInv, PTL DEF Spec

(* Every row is well formed and refers to rows that exist (models/job.py,               *)
(* models/resume.py, models/candidate.py).                                              *)
THEOREM TypeCorrect == Spec => []TypeOK
<1>1. Inv => TypeOK
  BY DEF Inv
<1> QED
  BY <1>1, Invariance, PTL

(* A job that is published has one current version, which is published, and its draft   *)
(* pointer leads to a draft, whatever publications, edits, copies and removals of the   *)
(* job overlap although no handler locks it (publish_job, save_job_draft,               *)
(* copy_version_to_draft, delete_versions).                                             *)
THEOREM PointersLeadRight == Spec => []PointersRight
<1>1. Inv => PointersRight
  BY DEF Inv, Pointers, Pointing, PointersRight
<1> QED
  BY <1>1, Invariance, PTL

(* However publications, removals, uploads, confirmations, transfers, migrations and     *)
(* screenings overlap, the job version of an application exists and is a draft only as  *)
(* long as its job was never published, and then the application has no resume; its     *)
(* resume version was confirmed by HR, or is the uploaded file it waits for or was      *)
(* screened with (create_job_candidate, resolve_close_application,                      *)
(* migrate_application_version, _upload_one, confirm_resume_version,                    *)
(* create_application_for_resume, create_screening_decision, CommitRemove).             *)
THEOREM ApplicationsBound == Spec => []BoundToReleased
<1>1. Inv => BoundToReleased
  <2> SUFFICES ASSUME Inv, NEW a \in Rows(app)
               PROVE  /\ Live(app[a].job) /\ app[a].version \in DOMAIN version[app[a].job]
                      /\ version[app[a].job][app[a].version].status = "draft" =>
                            job[app[a].job].status = "draft" /\ app[a].resume_version = 0
                      /\ \/ app[a].resume_version = 0
                         \/ WasConfirmed(app[a].resume_version)
                         \/ /\ rv[app[a].resume_version].kind = "file"
                            /\ app[a].pipeline = "pending_parse" \/ app[a].early
    BY DEF BoundToReleased
  <2>1. Binding(app[a])
    BY DEF Inv, Bound
  <2>2. PICK j \in Jobs : j = app[a].job
    BY AppFacts DEF Application
  <2>3. Live(j) /\ version[j] \in Seq(JobVersion) /\ Pointing(job[j], version[j])
    BY <2>1, <2>2, RowFacts DEF Binding, Inv, Pointers
  <2>4. DOMAIN version[j] = 1..Len(version[j]) /\ Len(version[j]) \in Nat
    BY <2>3
  <2>5. /\ app[a].version \in DOMAIN version[j]
        /\ version[j][app[a].version].status = "draft" =>
              job[j].status = "draft" /\ app[a].resume_version = 0
    <3>1. CASE Released(j, app[a].version)
      BY <2>3, <2>4, <3>1 DEF Released
    <3>2. CASE app[a].version = 1 /\ app[a].resume_version = 0
      BY <2>3, <2>4, <3>2 DEF Pointing
    <3> QED
      BY <2>1, <2>2, <3>1, <3>2 DEF Binding
  <2> QED
    BY <2>1, <2>2, <2>3, <2>5 DEF Binding
<1> QED
  BY <1>1, Invariance, PTL

(* A version that says it is being parsed points at a task of its own that has neither  *)
(* succeeded nor reported a failure, although a retry replaces the task while older     *)
(* ones still come back (apply_resume_parse_success, apply_resume_parse_failure,        *)
(* retry_resume_parse_manual_text).                                                     *)
THEOREM ParsingWaits == Spec => []ParsingAwaitsTask
<1>1. Inv => ParsingAwaitsTask
  BY DEF Inv
<1> QED
  BY <1>1, Invariance, PTL
=============================================================================
