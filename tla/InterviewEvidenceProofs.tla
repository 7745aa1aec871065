----------------------- MODULE InterviewEvidenceProofs -----------------------
(***************************************************************************)
(* InterviewEvidence for every set of rounds, clients and segments and     *)
(* every bound: what was confirmed stands and is what was read, a result   *)
(* rests on what its task froze, and what is stale stays stale.            *)
(***************************************************************************)
EXTENDS InterviewEvidence, FiniteSetTheorems, SequenceTheorems, WellFoundedInduction, TLAPS

\* How a round may be completed, when it is and whether it has a transcript.
ModeFits(row, rows, tr) ==
    /\ row.status = "COMPLETED" => row.mode # None
    /\ row.mode = "WITHOUT_TRANSCRIPT" =>
          row.status \in {"COMPLETED", "ENDED_ABNORMALLY"} /\ Len(rows) = 0
    /\ row.mode = "CONFIRMED_TRANSCRIPT" <=> tr.confirmed # 0

\* The versions of a transcript: the one being edited is its draft, and a confirmed
\* one says what its confirmer read and what the draft it froze says.
WellFormed(rows, tr) ==
    /\ tr.draft \in 0..Len(rows) /\ tr.confirmed \in 0..Len(rows)
    /\ tr.draft # 0 => rows[tr.draft].status = "EDITING"
    /\ tr.confirmed # 0 => rows[tr.confirmed].type = "CONFIRMED"
    /\ \A i \in 1..Len(rows) :
          /\ rows[i].no <= Len(rows)
          /\ rows[i].status = "EDITING" => i = tr.draft /\ rows[i].type = "DRAFT"
          /\ rows[i].type = "CONFIRMED" =>
                /\ i <= tr.confirmed
                /\ rows[i].text = rows[i].seen
                /\ rows[i].base \in 1..Len(rows)
                /\ rows[rows[i].base].status = "IMMUTABLE"
                /\ rows[i].text = rows[rows[i].base].text

\* A draft on a screen is as it was read until its version counter moves.
ReadFrom(q, rows) ==
    /\ q.id \in 1..Len(rows)
    /\ q.version <= rows[q.id].version
    /\ q.version = rows[q.id].version => q.text = rows[q.id].text

\* The versions that tasks made are of tasks of that kind and round, one of each.
FromTasks(rows, ts, kind, r) ==
    /\ \A i \in 1..Len(rows) : rows[i].task # 0 =>
          /\ rows[i].task \in 1..Len(ts)
          /\ ts[rows[i].task].kind = kind
          /\ ts[rows[i].task].round = r
    /\ \A i, j \in 1..Len(rows) : rows[i].task # 0 /\ rows[i].task = rows[j].task => i = j

\* References of a comprehensive task or version lead to analyses.
RefsExist(refs, an) ==
    \A ref \in refs : ref[2] \in 1..Len(an[ref[1]].versions)

\* What a task works on: of its kind, and there.
InputExists(row, vs, an) ==
    /\ row.kind = "INTERVIEW_COMPREHENSIVE_ANALYZE" <=> row.round = None
    /\ row.kind = "INTERVIEW_ROUND_ANALYZE" =>
          /\ row.transcript \in 1..Len(vs[row.round])
          /\ vs[row.round][row.transcript].type = "CONFIRMED"
    /\ RefsExist(row.refs, an)

\* An analysis rests on a confirmed version that says what its task was given.
Grounded(a, rows, ts) ==
    \A i \in 1..Len(a.versions) :
        /\ a.versions[i].transcript \in 1..Len(rows)
        /\ rows[a.versions[i].transcript].type = "CONFIRMED"
        /\ rows[a.versions[i].transcript].text = ts[a.versions[i].task].text

Modes       == \A r \in Rounds : ModeFits(round[r], versions[r], transcript[r])
Transcripts == \A r \in Rounds : WellFormed(versions[r], transcript[r])
Screens     == \A c \in Clients :
                   Showing(c, "draft") => ReadFrom(screen[c], versions[screen[c].round])
Approvals   == \A r \in Rounds :
                   questions[r].status = "READY" => questions[r].current = questions[r].seen
Makers ==
    /\ \A r \in Rounds :
          /\ FromTasks(questions[r].versions, tasks, "INTERVIEW_QUESTION_GENERATE", r)
          /\ FromTasks(analysis[r].versions, tasks, "INTERVIEW_ROUND_ANALYZE", r)
    /\ FromTasks(comprehensive.versions, tasks, "INTERVIEW_COMPREHENSIVE_ANALYZE", None)
Inputs ==
    /\ Len(tasks) <= MaxTasks
    /\ \A t \in 1..Len(tasks) : InputExists(tasks[t], versions, analysis)
Evidence ==
    /\ \A r \in Rounds : Grounded(analysis[r], versions[r], tasks)
    /\ \A i \in 1..Len(comprehensive.versions) :
          RefsExist(comprehensive.versions[i].refs, analysis)

\* The inductive invariant.
Inv == TypeOK /\ Modes /\ Transcripts /\ Screens /\ Approvals /\ Makers /\ Inputs /\ Evidence

\* What no step does: a version keeps its type, a confirmed one its text, and a text
\* changes only with the version counter.
VersionsKept(rows, new) ==
    /\ Len(rows) <= Len(new)
    /\ \A i \in 1..Len(rows) :
          /\ new[i].type = rows[i].type
          /\ rows[i].type = "CONFIRMED" => new[i].text = rows[i].text
          /\ rows[i].version <= new[i].version
          /\ rows[i].version = new[i].version => new[i].text = rows[i].text

\* The input of a task stays what it was.
SameInput(row, new) ==
    /\ new.kind = row.kind /\ new.round = row.round /\ new.transcript = row.transcript
    /\ new.text = row.text /\ new.refs = row.refs

TasksKept(ts, new) ==
    Len(ts) <= Len(new) /\ \A t \in 1..Len(ts) : SameInput(ts[t], new[t])

AnalysesGrow(an, new) ==
    \A r \in Rounds :
        /\ Len(an[r].versions) <= Len(new[r].versions)
        /\ \A i \in 1..Len(an[r].versions) : new[r].versions[i] = an[r].versions[i]
-----------------------------------------------------------------------------
(* The parts of the invariant, over values. *)

LEMMA VersionColumns ==
    ASSUME NEW row \in VersionRow
    PROVE  /\ row.type \in VersionTypes /\ row.no \in Nat \ {0}
           /\ row.status \in {"EDITING", "IMMUTABLE"} /\ row.text \in Texts
           /\ row.base \in Nat /\ row.version \in 1..MaxSaves /\ row.version \in Int
           /\ row.seen \in {None} \cup Texts
  BY BoundsAssumption DEF VersionRow

LEMMA ReadFromKept ==
    ASSUME NEW q \in DraftScreen, NEW rows \in Seq(VersionRow), NEW new \in Seq(VersionRow),
           ReadFrom(q, rows), VersionsKept(rows, new)
    PROVE  ReadFrom(q, new)
<1>1. Len(rows) \in Nat /\ Len(new) \in Nat /\ q.id \in 1..Len(rows) /\ q.id \in 1..Len(new)
  BY DEF ReadFrom, VersionsKept
<1>2. rows[q.id] \in VersionRow /\ new[q.id] \in VersionRow
  BY <1>1
<1>3. rows[q.id].version \in Int /\ new[q.id].version \in Int
  BY <1>2, VersionColumns
<1>4. q.version \in Int
  BY BoundsAssumption DEF DraftScreen
<1> QED
  BY <1>1, <1>3, <1>4 DEF ReadFrom, VersionsKept

LEMMA FromTasksKept ==
    ASSUME NEW rows, NEW ts \in Seq(TaskRow), NEW new \in Seq(TaskRow), NEW kind, NEW r,
           FromTasks(rows, ts, kind, r), TasksKept(ts, new)
    PROVE  FromTasks(rows, new, kind, r)
<1>1. Len(ts) \in Nat /\ Len(new) \in Nat /\ 1..Len(ts) \subseteq 1..Len(new)
  BY DEF TasksKept
<1> QED
  BY <1>1 DEF FromTasks, TasksKept, SameInput

LEMMA FromTasksAppended ==
    ASSUME NEW S, NEW rows \in Seq(S), NEW v \in S, NEW ts, NEW kind, NEW r,
           FromTasks(rows, ts, kind, r),
           v.task # 0 => /\ v.task \in 1..Len(ts)
                         /\ ts[v.task].kind = kind /\ ts[v.task].round = r
                         /\ \A i \in 1..Len(rows) : rows[i].task # v.task
    PROVE  FromTasks(Append(rows, v), ts, kind, r)
<1> DEFINE new == Append(rows, v)
<1>1. /\ Len(rows) \in Nat /\ Len(new) = Len(rows) + 1
      /\ \A i \in 1..Len(rows) : new[i] = rows[i]
      /\ new[Len(rows) + 1] = v
  OBVIOUS
<1> HIDE DEF new
<1>2. \A i \in 1..Len(new) : i \in 1..Len(rows) \/ i = Len(rows) + 1
  BY <1>1
<1>3. ASSUME NEW i \in 1..Len(new), new[i].task # 0
      PROVE  /\ new[i].task \in 1..Len(ts)
             /\ ts[new[i].task].kind = kind
             /\ ts[new[i].task].round = r
  BY <1>1, <1>2, <1>3 DEF FromTasks
<1>4. ASSUME NEW i \in 1..Len(new), NEW j \in 1..Len(new), new[i].task # 0,
             new[i].task = new[j].task
      PROVE  i = j
  BY <1>1, <1>2, <1>4 DEF FromTasks
<1>5. FromTasks(new, ts, kind, r)
  BY <1>3, <1>4 DEF FromTasks
<1> QED
  BY <1>5 DEF new

LEMMA RefsKept ==
    ASSUME NEW an \in [Rounds -> RoundAnalysis], NEW new \in [Rounds -> RoundAnalysis],
           NEW refs \in SUBSET (Rounds \X (1..MaxTasks)),
           RefsExist(refs, an), AnalysesGrow(an, new)
    PROVE  RefsExist(refs, new)
<1>1. ASSUME NEW ref \in refs PROVE ref[2] \in 1..Len(new[ref[1]].versions)
  <2>1. ref[1] \in Rounds /\ ref[2] \in 1..Len(an[ref[1]].versions)
    BY DEF RefsExist
  <2>2. Len(an[ref[1]].versions) \in Nat /\ Len(new[ref[1]].versions) \in Nat
    BY <2>1 DEF RoundAnalysis
  <2> QED
    BY <2>1, <2>2 DEF AnalysesGrow
<1> QED
  BY <1>1 DEF RefsExist

LEMMA InputKept ==
    ASSUME NEW row \in TaskRow, NEW new \in TaskRow, SameInput(row, new),
           NEW vs, NEW an \in [Rounds -> RoundAnalysis], NEW grown \in [Rounds -> RoundAnalysis],
           AnalysesGrow(an, grown), InputExists(row, vs, an)
    PROVE  InputExists(new, vs, grown)
<1>1. row.refs \in SUBSET (Rounds \X (1..MaxTasks))
  BY DEF TaskRow
<1>2. RefsExist(row.refs, grown)
  BY <1>1, RefsKept DEF InputExists
<1> QED
  BY <1>2 DEF InputExists, SameInput

LEMMA GroundedKept ==
    ASSUME NEW a, NEW rows, NEW ts \in Seq(TaskRow), NEW new \in Seq(TaskRow), NEW kind, NEW r,
           FromTasks(a.versions, ts, kind, r),
           \A i \in 1..Len(a.versions) : a.versions[i].task # 0,
           TasksKept(ts, new), Grounded(a, rows, ts)
    PROVE  Grounded(a, rows, new)
  BY DEF FromTasks, TasksKept, SameInput, Grounded
-----------------------------------------------------------------------------
(* Steps that change one transcript, and steps that change what tasks make. *)

\* Screens are left or stay.
ScreensLeft == screen' \in [Clients -> DraftScreen \cup QuestionsScreen \cup {None}]
               /\ \A c \in Clients : screen'[c] \in {None, screen[c]}

LEMMA ScreensLeftOpen ==
    ASSUME Inv, NEW c \in Clients, ScreensLeft, Showing(c, "draft")'
    PROVE  /\ screen'[c] = screen[c] /\ screen[c] \in DraftScreen
           /\ screen[c].round \in Rounds /\ ReadFrom(screen[c], versions[screen[c].round])
<1>1. screen'[c] = screen[c] /\ screen'[c] # None /\ screen'[c].kind = "draft"
  BY DEF ScreensLeft, Showing
<1>2. screen[c] \in DraftScreen \cup QuestionsScreen
  BY <1>1 DEF Inv, TypeOK
<1>3. screen[c] \in DraftScreen
  BY <1>1, <1>2 DEF QuestionsScreen
<1>4. screen[c].round \in Rounds
  BY <1>3 DEF DraftScreen
<1> QED
  BY <1>1, <1>3, <1>4 DEF Inv, Screens, Showing

TranscriptMove(r, row, rows, tr) ==
    /\ round' = [round EXCEPT ![r] = row]
    /\ versions' = [versions EXCEPT ![r] = rows]
    /\ transcript' = [transcript EXCEPT ![r] = tr]
    /\ UNCHANGED aiVars

LEMMA TranscriptStepKeeps ==
    ASSUME Inv, ScreensLeft, NEW r \in Rounds, NEW row \in RoundRow,
           NEW rows \in Seq(VersionRow), NEW tr \in TranscriptRow, TranscriptMove(r, row, rows, tr),
           ModeFits(row, rows, tr), WellFormed(rows, tr), VersionsKept(versions[r], rows)
    PROVE  Inv'
<1>1. /\ round' \in [Rounds -> RoundRow] /\ versions' \in [Rounds -> Seq(VersionRow)]
      /\ transcript' \in [Rounds -> TranscriptRow]
      /\ round'[r] = row /\ versions'[r] = rows /\ transcript'[r] = tr
      /\ \A q \in Rounds \ {r} : /\ round'[q] = round[q] /\ versions'[q] = versions[q]
                                 /\ transcript'[q] = transcript[q]
      /\ questions' = questions /\ analysis' = analysis /\ comprehensive' = comprehensive
      /\ tasks' = tasks
  BY DEF Inv, TypeOK, TranscriptMove, aiVars
<1>2. versions \in [Rounds -> Seq(VersionRow)] /\ tasks \in Seq(TaskRow)
      /\ analysis \in [Rounds -> RoundAnalysis]
  BY DEF Inv, TypeOK
<1>3. Transcripts' /\ Modes'
  BY <1>1 DEF Inv, Transcripts, Modes
<1>4. \A q \in Rounds : VersionsKept(versions[q], versions'[q])
  <2>1. ASSUME NEW q \in Rounds, q # r PROVE VersionsKept(versions[q], versions[q])
    <3>1. versions[q] \in Seq(VersionRow) /\ Len(versions[q]) \in Nat
      BY <1>2
    <3>2. \A i \in 1..Len(versions[q]) : versions[q][i].version \in Int
      BY <3>1, VersionColumns
    <3> QED
      BY <3>1, <3>2 DEF VersionsKept
  <2> QED
    BY <1>1, <2>1
<1>5. TypeOK'
  <2>1. ASSUME NEW q \in Rounds
        PROVE  /\ transcript'[q].draft \in {0} \cup DOMAIN versions'[q]
               /\ transcript'[q].confirmed \in {0} \cup DOMAIN versions'[q]
    <3>1. versions'[q] \in Seq(VersionRow) /\ DOMAIN versions'[q] = 1..Len(versions'[q])
          /\ Len(versions'[q]) \in Nat
      BY <1>1, LenProperties
    <3>2. WellFormed(versions'[q], transcript'[q])
      BY <1>3 DEF Transcripts
    <3> QED
      BY <3>1, <3>2 DEF WellFormed
  <2> QED
    BY <1>1, <2>1 DEF Inv, TypeOK, ScreensLeft
<1>6. Screens'
  <2>1. ASSUME NEW c \in Clients, Showing(c, "draft")'
        PROVE  ReadFrom(screen'[c], versions'[screen'[c].round])
    <3>1. /\ screen'[c] = screen[c] /\ screen[c] \in DraftScreen
          /\ screen[c].round \in Rounds /\ ReadFrom(screen[c], versions[screen[c].round])
      BY <2>1, ScreensLeftOpen
    <3> QED
      BY <1>1, <1>2, <1>4, <3>1, ReadFromKept
  <2> QED
    BY <2>1 DEF Screens
<1>7. Approvals' /\ Makers'
  BY <1>1 DEF Inv, Approvals, Makers
<1>8. ASSUME NEW q \in Rounds, NEW i \in 1..Len(versions[q]), versions[q][i].type = "CONFIRMED"
      PROVE  /\ i \in 1..Len(versions'[q]) /\ versions'[q][i].type = "CONFIRMED"
             /\ versions'[q][i].text = versions[q][i].text
  <2>1. Len(versions[q]) \in Nat /\ Len(versions'[q]) \in Nat
    BY <1>1, <1>2
  <2> QED
    BY <1>4, <1>8, <2>1 DEF VersionsKept
<1>9. Inputs'
  <2>1. ASSUME NEW t \in 1..Len(tasks) PROVE InputExists(tasks[t], versions', analysis)
    <3>1. InputExists(tasks[t], versions, analysis) /\ tasks[t] \in TaskRow
      BY <1>2 DEF Inv, Inputs
    <3>2. tasks[t].round \in Rounds \/ tasks[t].round = None
      BY <3>1 DEF TaskRow
    <3> QED
      BY <1>8, <3>1, <3>2 DEF InputExists
  <2> QED
    BY <1>1, <2>1 DEF Inv, Inputs
<1>10. Evidence'
  <2>1. ASSUME NEW q \in Rounds PROVE Grounded(analysis[q], versions'[q], tasks)
    <3> DEFINE made == analysis[q]
               old  == versions[q]
               new  == versions'[q]
    <3>1. Grounded(made, old, tasks)
      BY DEF Inv, Evidence
    <3>2. \A i \in 1..Len(old) : old[i].type = "CONFIRMED" =>
             i \in 1..Len(new) /\ new[i].type = "CONFIRMED" /\ new[i].text = old[i].text
      BY <1>8
    <3> HIDE DEF made, old, new
    <3>3. Grounded(made, new, tasks)
      BY <3>1, <3>2 DEF Grounded
    <3> QED
      BY <3>3 DEF made, new
  <2> QED
    BY <1>1, <2>1 DEF Inv, Evidence
<1> QED
  BY <1>3, <1>5, <1>6, <1>7, <1>9, <1>10 DEF Inv

\* A step of the AI's side: tasks and what they make, with the transcripts as they are.
LEMMA AiStepKeeps ==
    ASSUME Inv, ScreensLeft, UNCHANGED <<round, transcriptVars>>, TypeOK',
           TasksKept(tasks, tasks'), AnalysesGrow(analysis, analysis'), Len(tasks') <= MaxTasks,
           \A t \in 1..Len(tasks') : t \in 1..Len(tasks) \/ InputExists(tasks'[t], versions, analysis'),
           Approvals', Makers', Evidence'
    PROVE  Inv'
<1>1. /\ round' = round /\ versions' = versions /\ transcript' = transcript
      /\ tasks \in Seq(TaskRow) /\ tasks' \in Seq(TaskRow)
      /\ analysis \in [Rounds -> RoundAnalysis] /\ analysis' \in [Rounds -> RoundAnalysis]
  BY DEF Inv, TypeOK, transcriptVars
<1>2. Transcripts' /\ Modes'
  BY <1>1 DEF Inv, Transcripts, Modes
<1>3. Screens'
  <2>1. ASSUME NEW c \in Clients, Showing(c, "draft")'
        PROVE  ReadFrom(screen'[c], versions'[screen'[c].round])
    BY <1>1, <2>1, ScreensLeftOpen
  <2> QED
    BY <2>1 DEF Screens
<1>4. ASSUME NEW t \in 1..Len(tasks') PROVE InputExists(tasks'[t], versions, analysis')
  <2>1. CASE t \in 1..Len(tasks)
    <3>1. /\ tasks[t] \in TaskRow /\ tasks'[t] \in TaskRow /\ SameInput(tasks[t], tasks'[t])
          /\ InputExists(tasks[t], versions, analysis)
      BY <1>1, <1>4, <2>1 DEF TasksKept, Inv, Inputs
    <3> QED
      BY <1>1, <3>1, InputKept
  <2> QED
    BY <2>1
<1>5. Inputs'
  BY <1>1, <1>4 DEF Inputs
<1> QED
  BY <1>2, <1>3, <1>5 DEF Inv
-----------------------------------------------------------------------------
(* One lemma per handler of rounds and transcripts. *)

LEMMA RoundFacts ==
    ASSUME Inv, NEW r \in Rounds
    PROVE  /\ round[r] \in RoundRow /\ versions[r] \in Seq(VersionRow)
           /\ transcript[r] \in TranscriptRow /\ Len(versions[r]) \in Nat
           /\ transcript[r].draft \in Nat /\ transcript[r].confirmed \in Nat
           /\ ModeFits(round[r], versions[r], transcript[r])
           /\ WellFormed(versions[r], transcript[r])
           /\ VersionsKept(versions[r], versions[r])
           /\ DOMAIN versions[r] = 1..Len(versions[r])
           /\ round = [round EXCEPT ![r] = round[r]]
           /\ versions = [versions EXCEPT ![r] = versions[r]]
           /\ transcript = [transcript EXCEPT ![r] = transcript[r]]
<1>1. /\ round[r] \in RoundRow /\ versions[r] \in Seq(VersionRow)
      /\ transcript[r] \in TranscriptRow /\ Len(versions[r]) \in Nat
      /\ round = [round EXCEPT ![r] = round[r]]
      /\ versions = [versions EXCEPT ![r] = versions[r]]
      /\ transcript = [transcript EXCEPT ![r] = transcript[r]]
      /\ DOMAIN versions[r] = 1..Len(versions[r])
  BY LenProperties DEF Inv, TypeOK
<1>2. transcript[r].draft \in Nat /\ transcript[r].confirmed \in Nat
  BY <1>1 DEF TranscriptRow
<1>3. \A i \in 1..Len(versions[r]) : versions[r][i].version \in Int
  BY <1>1, VersionColumns
<1>4. VersionsKept(versions[r], versions[r])
  BY <1>1, <1>3 DEF VersionsKept
<1> QED
  BY <1>1, <1>2, <1>4 DEF Inv, Modes, Transcripts

LEMMA ScreensStay == ASSUME Inv, UNCHANGED screen PROVE ScreensLeft
  BY DEF Inv, TypeOK, ScreensLeft

LEMMA ScreenCloses == ASSUME Inv, NEW c \in Clients, Close(c) PROVE ScreensLeft
  BY DEF Inv, TypeOK, ScreensLeft, Close

\* A round that is finished, cancelled or ended: never one that becomes completed.
LEMMA SetStatusKeeps ==
    ASSUME Inv, NEW r \in Rounds, NEW from, NEW to \in Statuses \ {"COMPLETED"},
           SetStatus(r, from, to), to = "ENDED_ABNORMALLY" \/ from = {"SCHEDULED"}
    PROVE  Inv'
<1> DEFINE row == [status |-> to, mode |-> round[r].mode]
<1>1. row \in RoundRow /\ row.status = to /\ row.mode = round[r].mode
  BY RoundFacts DEF RoundRow
<1>2. TranscriptMove(r, row, versions[r], transcript[r]) /\ ScreensLeft
  BY RoundFacts, ScreensStay DEF SetStatus, TranscriptMove, transcriptVars
<1>3. ModeFits(row, versions[r], transcript[r])
  BY <1>1, RoundFacts DEF ModeFits, SetStatus
<1> HIDE DEF row
<1> QED
  BY <1>1, <1>2, <1>3, RoundFacts, TranscriptStepKeeps

LEMMA RoundStepKeeps ==
    ASSUME Inv, NEW r \in Rounds, RoundStep(r) PROVE Inv'
<1>1. /\ "PENDING_TRANSCRIPT" \in Statuses \ {"COMPLETED"} /\ "CANCELLED" \in Statuses \ {"COMPLETED"}
      /\ "ENDED_ABNORMALLY" \in Statuses \ {"COMPLETED"}
  BY DEF Statuses
<1> QED
  BY <1>1, SetStatusKeeps
     DEF RoundStep, finish_interview_round, cancel_interview_round, end_interview_abnormally

LEMMA CompleteWithoutKeeps ==
    ASSUME Inv, NEW r \in Rounds, complete_without_transcript(r) PROVE Inv'
<1> DEFINE row == [status |-> "COMPLETED", mode |-> "WITHOUT_TRANSCRIPT"]
<1>1. row \in RoundRow /\ row.status = "COMPLETED" /\ row.mode = "WITHOUT_TRANSCRIPT"
  BY DEF RoundRow, Statuses, CompletionModes
<1>2. TranscriptMove(r, row, versions[r], transcript[r]) /\ ScreensLeft
  BY RoundFacts, ScreensStay DEF complete_without_transcript, TranscriptMove, transcriptVars
<1>3. Len(versions[r]) = 0
  BY DEF complete_without_transcript, get_transcript_by_round_id
<1>4. transcript[r].confirmed = 0
  BY <1>3, RoundFacts DEF WellFormed
<1>5. row.mode # None
  BY <1>1, NoneIsNoRow DEF CompletionModes
<1>6. ModeFits(row, versions[r], transcript[r])
  BY <1>1, <1>3, <1>4, <1>5 DEF ModeFits
<1> HIDE DEF row
<1> QED
  BY <1>1, <1>2, <1>6, RoundFacts, TranscriptStepKeeps

LEMMA VersionIsRow ==
    ASSUME NEW type \in VersionTypes, NEW no \in Nat \ {0}, NEW status \in {"EDITING", "IMMUTABLE"},
           NEW text \in Texts, NEW base \in Nat, NEW seen \in {None} \cup Texts
    PROVE  LET v == Version(type, no, status, text, base, seen) IN
           /\ v \in VersionRow
           /\ v.type = type /\ v.no = no /\ v.status = status /\ v.text = text /\ v.base = base
           /\ v.seen = seen
  BY BoundsAssumption DEF Version, VersionRow

LEMMA ImportKeeps ==
    ASSUME Inv, NEW r \in Rounds, NEW text \in Texts, import_transcript(r, text) PROVE Inv'
<1> DEFINE v == Version("ORIGINAL", 1, "IMMUTABLE", text, 0, None)
           rows == <<v>>
<1>1. /\ v \in VersionRow /\ v.type = "ORIGINAL" /\ v.no = 1 /\ v.status = "IMMUTABLE"
  BY VersionIsRow DEF VersionTypes
<1> HIDE DEF v
<1>2. rows \in Seq(VersionRow) /\ Len(rows) = 1 /\ rows[1] = v
  BY <1>1
<1>3. TranscriptMove(r, round[r], rows, transcript[r]) /\ ScreensLeft
  BY RoundFacts, ScreensStay DEF import_transcript, TranscriptMove, v
<1>4. Len(versions[r]) = 0 /\ transcript[r].confirmed = 0 /\ transcript[r].draft = 0
  BY RoundFacts DEF import_transcript, get_transcript_by_round_id, WellFormed
<1> HIDE DEF rows
<1>5. WellFormed(rows, transcript[r])
  BY <1>1, <1>2, <1>4 DEF WellFormed
<1>6. ModeFits(round[r], rows, transcript[r])
  BY <1>4, RoundFacts DEF ModeFits, import_transcript
<1>7. VersionsKept(versions[r], rows)
  BY <1>2, <1>4 DEF VersionsKept
<1> QED
  BY <1>2, <1>3, <1>5, <1>6, <1>7, RoundFacts, TranscriptStepKeeps

\* A finite set of numbers that is not empty has a largest one.
LEMMA FiniteHasMax ==
    ASSUME NEW S \in SUBSET Nat, IsFiniteSet(S), S # {}
    PROVE  Max(S) \in S
<1> DEFINE T == {A \in FiniteSubsetsOf(S) : A # {} /\ ~\E m \in A : \A y \in A : m >= y}
<1>1. SUFFICES ASSUME S \in T PROVE FALSE
  BY FS_Subset DEF FiniteSubsetsOf, Max
<1>2. T \subseteq FiniteSubsetsOf(S) /\ T # {}
  BY <1>1
<1>3. PICK A \in T : \A B \in T : ~(<<B, A>> \in StrictSubsetOrdering(S))
  <2> HIDE DEF T
  <2> QED BY <1>1, <1>2, FS_StrictSubsetOrderingWellFounded, WFMin
<1>4. PICK x \in A : TRUE
  BY <1>3
<1>5. /\ A \in FiniteSubsetsOf(S) /\ IsFiniteSet(A) /\ A \in SUBSET Nat
      /\ A \ {x} \in SUBSET S /\ IsFiniteSet(A \ {x})
  BY <1>3, FS_Subset DEF FiniteSubsetsOf
<1>6. A \ {x} \in FiniteSubsetsOf(S)
  BY <1>5 DEF FiniteSubsetsOf
<1>7. <<A \ {x}, A>> \in StrictSubsetOrdering(S)
  BY <1>4, <1>5 DEF StrictSubsetOrdering, FiniteSubsetsOf
<1>8. A \ {x} = {} \/ \E m \in A \ {x} : \A y \in A \ {x} : m >= y
  BY <1>3, <1>6, <1>7
<1>9. \E m \in A : \A y \in A : m >= y
  BY <1>4, <1>5, <1>8
<1> QED
  BY <1>3, <1>9

\* Version numbers stay within the number of versions.
LEMMA NextVersion ==
    ASSUME Inv, NEW r \in Rounds, NEW type
    PROVE  next_version_no(r, type) \in 1..(Len(versions[r]) + 1)
<1> DEFINE J == {j \in DOMAIN versions[r] : versions[r][j].type = type}
           S == {0} \cup {versions[r][i].no : i \in J}
           n == Len(versions[r])
<1>1. n \in Nat /\ DOMAIN versions[r] = 1..n
  BY RoundFacts
<1>2. \A i \in 1..n : versions[r][i].no \in Nat /\ versions[r][i].no <= n
  <2>1. \A i \in 1..n : versions[r][i] \in VersionRow
    BY RoundFacts
  <2> QED
    BY <2>1, RoundFacts, VersionColumns DEF WellFormed
<1>3. S \in SUBSET Nat /\ S # {} /\ \A x \in S : x <= n
  BY <1>1, <1>2
<1>4. Max(S) \in S
  <2> HIDE DEF S, n
  <2>1. IsFiniteSet(S)
    BY <1>1, <1>3, FS_BoundedSetOfNaturals
  <2> QED
    BY <1>3, <2>1, FiniteHasMax
<1>5. Max(S) + 1 \in 1..(n + 1)
  <2>1. PICK m \in S : m = Max(S)
    BY <1>4
  <2>2. m \in Nat /\ m <= n
    BY <1>3
  <2> QED
    BY <1>1, <2>1, <2>2
<1> QED
  BY <1>5 DEF next_version_no

LEMMA CreateDraftKeeps ==
    ASSUME Inv, NEW r \in Rounds, create_transcript_draft(r) PROVE Inv'
<1> DEFINE base == IF transcript[r].confirmed # 0 THEN transcript[r].confirmed ELSE 1
           n    == Len(versions[r])
           v    == Version("DRAFT", next_version_no(r, "DRAFT"), "EDITING", versions[r][base].text,
                           base, None)
           rows == Append(versions[r], v)
           tr   == [draft |-> n + 1, confirmed |-> transcript[r].confirmed]
<1>1. n \in Nat /\ n > 0
  BY RoundFacts DEF create_transcript_draft, get_transcript_by_round_id
<1>2. base \in 1..n
  BY <1>1, RoundFacts DEF WellFormed
<1>3. versions[r][base].text \in Texts
  <2>1. versions[r][base] \in VersionRow
    BY <1>1, <1>2, RoundFacts
  <2> QED
    BY <2>1, VersionColumns
<1>4. next_version_no(r, "DRAFT") \in 1..(n + 1)
  BY NextVersion
<1>5. /\ v \in VersionRow /\ v.type = "DRAFT" /\ v.no <= n + 1 /\ v.status = "EDITING"
  <2> HIDE DEF base, n
  <2>1. base \in Nat /\ next_version_no(r, "DRAFT") \in Nat \ {0}
        /\ next_version_no(r, "DRAFT") <= n + 1
    BY <1>1, <1>2, <1>4
  <2> QED
    BY <1>3, <2>1, VersionIsRow DEF VersionTypes
<1>6. TranscriptMove(r, round[r], rows, tr) /\ ScreensLeft
  BY RoundFacts, ScreensStay DEF create_transcript_draft, TranscriptMove
<1> HIDE DEF v, base
<1>7. /\ rows \in Seq(VersionRow) /\ Len(rows) = n + 1 /\ rows[n + 1] = v
      /\ \A i \in 1..n : rows[i] = versions[r][i]
  BY <1>5, RoundFacts
<1>8. tr \in TranscriptRow /\ tr.draft = n + 1 /\ tr.confirmed = transcript[r].confirmed
  BY <1>1, RoundFacts DEF TranscriptRow
<1>9. transcript[r].draft = 0
  BY RoundFacts DEF create_transcript_draft, get_editing_draft, WellFormed
<1> HIDE DEF rows, tr
<1>10. WellFormed(rows, tr)
  <2>1. \A i \in 1..n : /\ rows[i].no \in Nat /\ rows[i].no <= n
                        /\ rows[i].status # "EDITING"
                        /\ rows[i].type = "CONFIRMED" =>
                              /\ i <= tr.confirmed
                              /\ rows[i].text = rows[i].seen
                              /\ rows[i].base \in 1..n
                              /\ rows[rows[i].base].status = "IMMUTABLE"
                              /\ rows[i].text = rows[rows[i].base].text
    <3>1. \A i \in 1..n : versions[r][i].no \in Nat
      BY RoundFacts, VersionColumns
    <3>2. WellFormed(versions[r], transcript[r])
      BY RoundFacts
    <3>3. ASSUME NEW i \in 1..n
          PROVE  /\ versions[r][i].no <= n
                 /\ versions[r][i].status # "EDITING"
                 /\ versions[r][i].type = "CONFIRMED" =>
                       /\ i <= transcript[r].confirmed
                       /\ versions[r][i].text = versions[r][i].seen
                       /\ versions[r][i].base \in 1..n
                       /\ versions[r][versions[r][i].base].status = "IMMUTABLE"
                       /\ versions[r][i].text = versions[r][versions[r][i].base].text
      <4>1. i # 0
        BY <1>1
      <4> QED
        BY <1>9, <3>2, <4>1 DEF WellFormed
    <3> HIDE DEF n
    <3> QED
      BY <1>7, <1>8, <3>1, <3>3
  <2>2. tr.confirmed # 0 => tr.confirmed \in 1..n /\ rows[tr.confirmed].type = "CONFIRMED"
    BY <1>1, <1>7, <1>8, RoundFacts DEF WellFormed
  <2>3. tr.draft \in 0..Len(rows) /\ tr.confirmed \in 0..Len(rows)
        /\ rows[tr.draft].status = "EDITING"
    BY <1>1, <1>5, <1>7, <1>8, <2>2, RoundFacts
  <2>4. \A i \in 1..Len(rows) : i \in 1..n \/ i = n + 1
    BY <1>1, <1>7
  <2>5. \A i \in 1..n : i \in 1..Len(rows) /\ i <= n + 1
    BY <1>1, <1>7
  <2>6. ASSUME NEW i \in 1..Len(rows)
        PROVE  /\ rows[i].no <= Len(rows)
               /\ rows[i].status = "EDITING" => i = tr.draft /\ rows[i].type = "DRAFT"
               /\ rows[i].type = "CONFIRMED" =>
                     /\ i <= tr.confirmed
                     /\ rows[i].text = rows[i].seen
                     /\ rows[i].base \in 1..Len(rows)
                     /\ rows[rows[i].base].status = "IMMUTABLE"
                     /\ rows[i].text = rows[rows[i].base].text
    <3>1. CASE i = n + 1
      BY <1>5, <1>7, <1>8, <3>1
    <3>2. CASE i \in 1..n
      <4>1. rows[i].no <= Len(rows)
        BY <1>1, <1>7, <2>1, <3>2
      <4>2. rows[i].type = "CONFIRMED" => rows[i].base \in 1..Len(rows)
        BY <2>1, <2>5, <3>2
      <4> QED
        BY <2>1, <3>2, <4>1, <4>2
    <3> QED
      BY <2>4, <3>1, <3>2
  <2> QED
    BY <2>2, <2>3, <2>6 DEF WellFormed
<1>11. ModeFits(round[r], rows, tr)
  BY <1>1, <1>8, RoundFacts DEF ModeFits
<1>12. VersionsKept(versions[r], rows)
  BY <1>1, <1>7, RoundFacts DEF VersionsKept
<1> QED
  BY <1>6, <1>7, <1>8, <1>10, <1>11, <1>12, RoundFacts, TranscriptStepKeeps

\* Who saves or confirms has the draft on the screen as it is.
LEMMA EditableFacts ==
    ASSUME Inv, NEW c \in Clients, Editable(c)
    PROVE  /\ screen[c] \in DraftScreen /\ screen[c].round \in Rounds
           /\ screen[c].id \in 1..Len(versions[screen[c].round])
           /\ screen[c].version \in 1..MaxSaves
           /\ versions[screen[c].round][screen[c].id] \in VersionRow
           /\ versions[screen[c].round][screen[c].id].status = "EDITING"
           /\ versions[screen[c].round][screen[c].id].version = screen[c].version
           /\ versions[screen[c].round][screen[c].id].text = screen[c].text
           /\ screen[c].id = transcript[screen[c].round].draft
<1>1. screen[c] # None /\ screen[c].kind = "draft" /\ Showing(c, "draft")
  BY DEF Editable, Showing
<1>2. screen[c] \in DraftScreen
  <2>1. screen[c] \in DraftScreen \cup QuestionsScreen
    BY <1>1 DEF Inv, TypeOK
  <2> QED
    BY <1>1, <2>1 DEF QuestionsScreen
<1>3. screen[c].round \in Rounds /\ screen[c].version \in 1..MaxSaves
  BY <1>2 DEF DraftScreen
<1>4. ReadFrom(screen[c], versions[screen[c].round])
  BY <1>1 DEF Inv, Screens
<1>5. /\ screen[c].id \in 1..Len(versions[screen[c].round])
      /\ versions[screen[c].round][screen[c].id].status = "EDITING"
      /\ versions[screen[c].round][screen[c].id].version = screen[c].version
      /\ versions[screen[c].round][screen[c].id].text = screen[c].text
  BY <1>4 DEF Editable, ReadFrom
<1>6. versions[screen[c].round][screen[c].id] \in VersionRow
  BY <1>3, <1>5, RoundFacts
<1>7. screen[c].id = transcript[screen[c].round].draft
  BY <1>3, <1>5, RoundFacts DEF WellFormed
<1> QED
  BY <1>2, <1>3, <1>5, <1>6, <1>7

\* Row i of a well-formed transcript, the draft, is rewritten: nothing else moves.
LEMMA DraftIsAlone ==
    ASSUME NEW rows \in Seq(VersionRow), NEW tr \in TranscriptRow, WellFormed(rows, tr),
           NEW i \in 1..Len(rows), i = tr.draft, NEW j \in 1..Len(rows)
    PROVE  /\ rows[j].no \in Nat /\ rows[j].no <= Len(rows)
           /\ j # i => rows[j].status # "EDITING"
           /\ rows[j].type = "CONFIRMED" =>
                 j <= tr.confirmed /\ rows[j].base # i /\ j # i
<1>1. Len(rows) \in Nat /\ rows[j] \in VersionRow
  BY LenProperties
<1>2. rows[j].no \in Nat
  BY <1>1, VersionColumns
<1>3. rows[i].type = "DRAFT" /\ rows[i].status = "EDITING"
  BY <1>1 DEF WellFormed
<1> QED
  BY <1>1, <1>2, <1>3 DEF WellFormed

LEMMA DraftRewritten ==
    ASSUME NEW rows \in Seq(VersionRow), NEW tr \in TranscriptRow, WellFormed(rows, tr),
           NEW i \in 1..Len(rows), i = tr.draft, NEW row \in VersionRow,
           row.type = rows[i].type, row.no = rows[i].no, rows[i].version <= row.version,
           rows[i].version = row.version => row.text = rows[i].text
    PROVE  /\ [rows EXCEPT ![i] = row] \in Seq(VersionRow)
           /\ Len([rows EXCEPT ![i] = row]) = Len(rows)
           /\ [rows EXCEPT ![i] = row][i] = row
           /\ \A j \in 1..Len(rows) : j # i => [rows EXCEPT ![i] = row][j] = rows[j]
           /\ VersionsKept(rows, [rows EXCEPT ![i] = row])
           /\ rows[i].type = "DRAFT" /\ rows[i].status = "EDITING"
           /\ \A j \in 1..Len(rows) :
                 /\ rows[j].no \in Nat /\ rows[j].no <= Len(rows)
                 /\ j # i => rows[j].status # "EDITING"
                 /\ rows[j].type = "CONFIRMED" =>
                       j <= tr.confirmed /\ rows[j].base # i /\ j # i
<1> DEFINE new == [rows EXCEPT ![i] = row]
<1>1. /\ new \in Seq(VersionRow) /\ Len(new) = Len(rows) /\ Len(rows) \in Nat
      /\ new[i] = row /\ \A j \in 1..Len(rows) : j # i => new[j] = rows[j]
  BY ExceptSeq
<1>2. rows[i].type = "DRAFT" /\ rows[i].status = "EDITING"
  BY <1>1 DEF WellFormed
<1>3. \A j \in 1..Len(rows) : rows[j].no \in Nat /\ rows[j].version \in Int
  <2>1. \A j \in 1..Len(rows) : rows[j] \in VersionRow
    OBVIOUS
  <2> QED
    BY <2>1, VersionColumns
<1>4. ASSUME NEW j \in 1..Len(rows)
      PROVE  /\ rows[j].no \in Nat /\ rows[j].no <= Len(rows)
             /\ j # i => rows[j].status # "EDITING"
             /\ rows[j].type = "CONFIRMED" =>
                   j <= tr.confirmed /\ rows[j].base # i /\ j # i
  BY DraftIsAlone
<1> HIDE DEF new
<1>5. VersionsKept(rows, new)
  BY <1>1, <1>2, <1>3 DEF VersionsKept
<1> QED
  BY <1>1, <1>2, <1>4, <1>5 DEF new

LEMMA SavedColumns ==
    ASSUME NEW row \in VersionRow, NEW text \in Texts, row.version < MaxSaves
    PROVE  /\ Saved(row, text) \in VersionRow
           /\ Saved(row, text).type = row.type /\ Saved(row, text).no = row.no
           /\ Saved(row, text).status = row.status /\ Saved(row, text).text = text
           /\ Saved(row, text).version = row.version + 1
           /\ row.version \in Int /\ row.version < row.version + 1
<1>1. row.version \in 1..MaxSaves /\ row.version \in Int /\ MaxSaves \in Nat
  BY VersionColumns, BoundsAssumption
<1>2. row.version + 1 \in 1..MaxSaves /\ row.version < row.version + 1
  BY <1>1
<1>3. row \in VersionRow
  OBVIOUS
<1> QED
  BY <1>1, <1>2, <1>3 DEF VersionRow, Saved

LEMMA SaveKeeps ==
    ASSUME Inv, NEW c \in Clients, NEW text \in Texts, save_transcript_draft(c, text) PROVE Inv'
<1> DEFINE r    == screen[c].round
           i    == screen[c].id
           old  == versions[r]
           row  == Saved(old[i], text)
           rows == [old EXCEPT ![i] = row]
<1>1. /\ r \in Rounds /\ i \in 1..Len(old) /\ i = transcript[r].draft /\ old[i] \in VersionRow
      /\ old[i].status = "EDITING" /\ old[i].version \in 1..MaxSaves /\ old[i].version < MaxSaves
  BY EditableFacts DEF save_transcript_draft
<1>2. TranscriptMove(r, round[r], rows, transcript[r]) /\ ScreensLeft
  BY <1>1, RoundFacts, ScreenCloses DEF save_transcript_draft, TranscriptMove
<1>3. /\ old \in Seq(VersionRow) /\ transcript[r] \in TranscriptRow /\ Len(old) \in Nat
      /\ WellFormed(old, transcript[r]) /\ ModeFits(round[r], old, transcript[r])
      /\ round[r] \in RoundRow
  BY <1>1, RoundFacts
<1> HIDE DEF r, i, old
<1>4. /\ row \in VersionRow /\ row.type = old[i].type /\ row.no = old[i].no
      /\ row.status = "EDITING" /\ row.version = old[i].version + 1 /\ row.version \in Int
      /\ old[i].version \in Int /\ old[i].version < row.version
  <2>1. text \in Texts
    OBVIOUS
  <2> QED
    BY <1>1, <2>1, SavedColumns
<1> HIDE DEF row
<1>5. /\ rows \in Seq(VersionRow) /\ Len(rows) = Len(old) /\ rows[i] = row
      /\ \A j \in 1..Len(old) : j # i => rows[j] = old[j]
      /\ VersionsKept(old, rows)
      /\ old[i].type = "DRAFT"
      /\ \A j \in 1..Len(old) :
            /\ old[j].no \in Nat /\ old[j].no <= Len(old)
            /\ j # i => old[j].status # "EDITING"
            /\ old[j].type = "CONFIRMED" =>
                  j <= transcript[r].confirmed /\ old[j].base # i /\ j # i
  <2>1. i \in 1..Len(old) /\ i = transcript[r].draft
    BY <1>1
  <2>2. old[i].version <= row.version /\ old[i].version # row.version
    BY <1>4
  <2>3. old \in Seq(VersionRow) /\ transcript[r] \in TranscriptRow
        /\ WellFormed(old, transcript[r])
    BY <1>3
  <2>4. row \in VersionRow /\ row.type = old[i].type /\ row.no = old[i].no
    BY <1>4
  <2>5. old[i].version = row.version => row.text = old[i].text
    BY <2>2
  <2>6. rows \in Seq(VersionRow) /\ Len(rows) = Len(old) /\ rows[i] = row
    BY <2>1, <2>2, <2>3, <2>4, <2>5, DraftRewritten
  <2>7. \A j \in 1..Len(old) : j # i => rows[j] = old[j]
    BY <2>1, <2>2, <2>3, <2>4, <2>5, DraftRewritten
  <2>8. VersionsKept(old, rows) /\ old[i].type = "DRAFT"
    BY <2>1, <2>2, <2>3, <2>4, <2>5, DraftRewritten
  <2>9. \A j \in 1..Len(old) :
           /\ old[j].no \in Nat /\ old[j].no <= Len(old)
           /\ j # i => old[j].status # "EDITING"
           /\ old[j].type = "CONFIRMED" =>
                 j <= transcript[r].confirmed /\ old[j].base # i /\ j # i
    BY <2>1, <2>3, DraftIsAlone
  <2> QED
    BY <2>6, <2>7, <2>8, <2>9
<1> HIDE DEF rows
<1>6. WellFormed(rows, transcript[r])
  <2> DEFINE tr == transcript[r]
  <2>1. /\ tr.draft \in 0..Len(rows) /\ tr.confirmed \in 0..Len(rows)
        /\ tr.draft # 0 => rows[tr.draft].status = "EDITING"
        /\ tr.confirmed # 0 => rows[tr.confirmed].type = "CONFIRMED"
    BY <1>1, <1>3, <1>4, <1>5 DEF WellFormed
  <2>2. ASSUME NEW j \in 1..Len(rows)
        PROVE  rows[j].no <= Len(rows)
               /\ (rows[j].status = "EDITING" => j = tr.draft /\ rows[j].type = "DRAFT")
    BY <1>1, <1>3, <1>4, <1>5 DEF WellFormed
  <2>3. ASSUME NEW j \in 1..Len(rows), rows[j].type = "CONFIRMED"
        PROVE  /\ j <= tr.confirmed /\ rows[j].text = rows[j].seen
               /\ rows[j].base \in 1..Len(rows) /\ rows[rows[j].base].status = "IMMUTABLE"
               /\ rows[j].text = rows[rows[j].base].text
    <3>1. j # i /\ rows[j] = old[j] /\ old[j].type = "CONFIRMED" /\ old[j].base # i
      BY <1>4, <1>5, <2>3
    <3>2. /\ j <= tr.confirmed /\ old[j].text = old[j].seen /\ old[j].base \in 1..Len(old)
          /\ old[old[j].base].status = "IMMUTABLE" /\ old[j].text = old[old[j].base].text
      BY <1>3, <1>5, <2>3, <3>1 DEF WellFormed
    <3> QED
      BY <1>5, <3>1, <3>2
  <2> QED
    BY <2>1, <2>2, <2>3 DEF WellFormed
<1>7. ModeFits(round[r], rows, transcript[r])
  BY <1>3, <1>5 DEF ModeFits
<1> QED
  BY <1>1, <1>2, <1>3, <1>5, <1>6, <1>7, TranscriptStepKeeps DEF old

LEMMA FrozenColumns ==
    ASSUME NEW row \in VersionRow
    PROVE  /\ Frozen(row) \in VersionRow
           /\ Frozen(row).type = row.type /\ Frozen(row).no = row.no
           /\ Frozen(row).status = "IMMUTABLE" /\ Frozen(row).text = row.text
           /\ Frozen(row).version = row.version /\ row.version \in Int
<1>1. row.version \in Int
  BY VersionColumns
<1> QED
  BY <1>1 DEF VersionRow, Frozen

LEMMA ConfirmKeeps ==
    ASSUME Inv, NEW c \in Clients, confirm_transcript_draft(c) PROVE Inv'
<1> DEFINE r      == screen[c].round
           i      == screen[c].id
           old    == versions[r]
           n      == Len(old)
           edited == [old EXCEPT ![i] = Frozen(old[i])]
           v      == Version("CONFIRMED", next_version_no(r, "CONFIRMED"), "IMMUTABLE",
                             old[i].text, i, screen[c].text)
           rows   == Append(edited, v)
           tr     == [draft |-> 0, confirmed |-> n + 1]
           row    == [status |-> IF round[r].status = "PENDING_TRANSCRIPT" THEN "COMPLETED"
                                                                           ELSE round[r].status,
                      mode   |-> "CONFIRMED_TRANSCRIPT"]
<1>1. /\ r \in Rounds /\ i \in 1..n /\ i = transcript[r].draft /\ old[i] \in VersionRow
      /\ old[i].status = "EDITING" /\ old[i].text = screen[c].text
  BY EditableFacts DEF confirm_transcript_draft
<1>2. TranscriptMove(r, row, rows, tr) /\ ScreensLeft
  BY <1>1, RoundFacts, ScreenCloses DEF confirm_transcript_draft, TranscriptMove
<1>3. /\ old \in Seq(VersionRow) /\ transcript[r] \in TranscriptRow /\ n \in Nat
      /\ WellFormed(old, transcript[r]) /\ ModeFits(round[r], old, transcript[r])
      /\ round[r] \in RoundRow
  BY <1>1, RoundFacts
<1>4. /\ row \in RoundRow /\ row.mode = "CONFIRMED_TRANSCRIPT" /\ row.mode # "WITHOUT_TRANSCRIPT"
      /\ row.mode # None
  <2>1. "CONFIRMED_TRANSCRIPT" # None
    BY NoneIsNoRow DEF CompletionModes
  <2> QED
    BY <1>3, <2>1 DEF RoundRow, Statuses, CompletionModes
<1>5. next_version_no(r, "CONFIRMED") \in 1..(n + 1)
  BY <1>1, NextVersion
<1>6. old[i].text \in Texts
  BY <1>1, VersionColumns
<1> HIDE DEF r, i, old
<1>7. /\ v \in VersionRow /\ v.type = "CONFIRMED" /\ v.no <= n + 1 /\ v.status = "IMMUTABLE"
      /\ v.text = old[i].text /\ v.base = i /\ v.seen = old[i].text
  <2>1. /\ i \in Nat /\ next_version_no(r, "CONFIRMED") \in Nat \ {0}
        /\ next_version_no(r, "CONFIRMED") <= n + 1
    BY <1>1, <1>3, <1>5
  <2>2. screen[c].text \in {None} \cup Texts
    BY <1>1, <1>6
  <2> HIDE DEF n
  <2> QED
    BY <1>1, <1>6, <2>1, <2>2, VersionIsRow DEF VersionTypes
<1> HIDE DEF v, row
<1>8. /\ edited \in Seq(VersionRow) /\ Len(edited) = n /\ edited[i] = Frozen(old[i])
      /\ \A j \in 1..n : j # i => edited[j] = old[j]
      /\ VersionsKept(old, edited)
      /\ old[i].type = "DRAFT"
      /\ \A j \in 1..n :
            /\ old[j].no \in Nat /\ old[j].no <= n
            /\ j # i => old[j].status # "EDITING"
            /\ old[j].type = "CONFIRMED" =>
                  j <= transcript[r].confirmed /\ old[j].base # i /\ j # i
  <2>1. /\ Frozen(old[i]) \in VersionRow
        /\ Frozen(old[i]).type = old[i].type /\ Frozen(old[i]).no = old[i].no
        /\ old[i].version <= Frozen(old[i]).version /\ Frozen(old[i]).text = old[i].text
    BY <1>1, FrozenColumns
  <2>2. i \in 1..Len(old) /\ i = transcript[r].draft
    BY <1>1
  <2>3. old \in Seq(VersionRow) /\ transcript[r] \in TranscriptRow
        /\ WellFormed(old, transcript[r])
    BY <1>3
  <2> QED
    BY <2>1, <2>2, <2>3, DraftRewritten
<1>9. /\ edited[i].type = "DRAFT" /\ edited[i].status = "IMMUTABLE" /\ edited[i].text = old[i].text
      /\ edited[i].no = old[i].no
  BY <1>1, <1>8, FrozenColumns
<1> HIDE DEF edited, n
<1>10. /\ rows \in Seq(VersionRow) /\ Len(rows) = n + 1 /\ rows[n + 1] = v
       /\ \A j \in 1..n : rows[j] = edited[j]
  BY <1>7, <1>8
<1> HIDE DEF rows
<1>11. tr \in TranscriptRow /\ tr.draft = 0 /\ tr.confirmed = n + 1
  BY <1>3 DEF TranscriptRow
<1> HIDE DEF tr
<1>12. \A j \in 1..Len(rows) : j \in 1..n \/ j = n + 1
  BY <1>3, <1>10
<1>13. \A j \in 1..n : j \in 1..Len(rows) /\ j <= n + 1
  BY <1>3, <1>10
<1>14. ASSUME NEW j \in 1..n
       PROVE  /\ rows[j].no <= Len(rows) /\ rows[j].status # "EDITING"
              /\ rows[j].type = "CONFIRMED" =>
                    /\ j <= tr.confirmed
                    /\ rows[j].text = rows[j].seen
                    /\ rows[j].base \in 1..Len(rows)
                    /\ rows[rows[j].base].status = "IMMUTABLE"
                    /\ rows[j].text = rows[rows[j].base].text
  <2>1. rows[j].no <= Len(rows) /\ rows[j].status # "EDITING" /\ j <= tr.confirmed
    <3>1. rows[j].no = old[j].no /\ rows[j].status # "EDITING"
      BY <1>8, <1>9, <1>10
    <3>2. old[j].no \in Nat /\ old[j].no <= n
      BY <1>8
    <3> QED
      BY <1>3, <1>10, <1>11, <1>13, <3>1, <3>2
  <2>2. ASSUME rows[j].type = "CONFIRMED"
        PROVE  /\ rows[j].text = rows[j].seen
               /\ rows[j].base \in 1..Len(rows)
               /\ rows[rows[j].base].status = "IMMUTABLE"
               /\ rows[j].text = rows[rows[j].base].text
    <3>1. j # i /\ rows[j] = old[j] /\ old[j].base # i
      BY <1>8, <1>9, <1>10, <2>2
    <3>2. /\ old[j].text = old[j].seen /\ old[j].base \in 1..n
          /\ old[old[j].base].status = "IMMUTABLE" /\ old[j].text = old[old[j].base].text
      BY <1>3, <2>2, <3>1 DEF WellFormed, n
    <3>3. rows[old[j].base] = old[old[j].base]
      BY <1>8, <1>10, <3>1, <3>2
    <3> QED
      BY <1>13, <3>1, <3>2, <3>3
  <2> QED
    BY <2>1, <2>2
<1>15. /\ rows[n + 1].no <= Len(rows) /\ rows[n + 1].status # "EDITING"
       /\ n + 1 <= tr.confirmed
       /\ rows[n + 1].type = "CONFIRMED"
       /\ rows[n + 1].text = rows[n + 1].seen
       /\ rows[n + 1].base \in 1..Len(rows)
       /\ rows[rows[n + 1].base].status = "IMMUTABLE"
       /\ rows[n + 1].text = rows[rows[n + 1].base].text
  <2>1. rows[i] = edited[i] /\ i \in 1..Len(rows)
    BY <1>1, <1>10, <1>13
  <2> QED
    BY <1>3, <1>7, <1>9, <1>10, <1>11, <2>1
<1>16. tr.draft \in 0..Len(rows) /\ tr.confirmed \in 0..Len(rows)
  BY <1>3, <1>10, <1>11
<1>17. WellFormed(rows, tr)
  BY <1>11, <1>12, <1>14, <1>15, <1>16 DEF WellFormed
<1>18. ModeFits(row, rows, tr)
  BY <1>3, <1>4, <1>11 DEF ModeFits
<1>19. VersionsKept(old, rows)
  <2>1. \A j \in 1..n : rows[j] = edited[j]
    BY <1>10
  <2>2. Len(old) <= Len(rows)
    BY <1>3, <1>10 DEF n
  <2> QED
    BY <1>8, <2>1, <2>2 DEF VersionsKept, n
<1> QED
  BY <1>1, <1>2, <1>4, <1>10, <1>11, <1>17, <1>18, <1>19, TranscriptStepKeeps DEF old
-----------------------------------------------------------------------------
(* Screens that open. *)

ScreenOpens(c, q) ==
    /\ screen' = [screen EXCEPT ![c] = q]
    /\ UNCHANGED <<round, transcriptVars, aiVars>>

LEMMA ScreenOpensKeeps ==
    ASSUME Inv, NEW c \in Clients, NEW q \in DraftScreen \cup QuestionsScreen, ScreenOpens(c, q),
           q.kind = "draft" => ReadFrom(q, versions[q.round])
    PROVE  Inv'
<1>1. /\ round' = round /\ versions' = versions /\ transcript' = transcript
      /\ questions' = questions /\ analysis' = analysis /\ comprehensive' = comprehensive
      /\ tasks' = tasks /\ screen'[c] = q
      /\ \A d \in Clients \ {c} : screen'[d] = screen[d]
      /\ screen' \in [Clients -> DraftScreen \cup QuestionsScreen \cup {None}]
  BY DEF Inv, TypeOK, ScreenOpens, transcriptVars, aiVars
<1>2. TypeOK' /\ Modes' /\ Transcripts' /\ Approvals' /\ Makers' /\ Inputs' /\ Evidence'
  BY <1>1 DEF Inv, TypeOK, Modes, Transcripts, Approvals, Makers, Inputs, Evidence
<1>3. Screens'
  <2>1. ASSUME NEW d \in Clients, Showing(d, "draft")'
        PROVE  ReadFrom(screen'[d], versions[screen'[d].round])
    BY <1>1, <2>1 DEF Inv, Screens, Showing
  <2> QED
    BY <1>1, <2>1 DEF Screens
<1> QED
  BY <1>2, <1>3 DEF Inv

LEMMA ReadDraftKeeps ==
    ASSUME Inv, NEW c \in Clients, NEW r \in Rounds, get_transcript_version(c, r) PROVE Inv'
<1>1. PICK i \in get_editing_draft(r) :
          screen' = [screen EXCEPT ![c] = [kind |-> "draft", round |-> r, id |-> i,
                        version |-> versions[r][i].version, text |-> versions[r][i].text]]
  BY DEF get_transcript_version
<1> DEFINE q == [kind |-> "draft", round |-> r, id |-> i,
                 version |-> versions[r][i].version, text |-> versions[r][i].text]
<1>2. i \in 1..Len(versions[r]) /\ Len(versions[r]) \in Nat
  BY RoundFacts DEF get_editing_draft
<1>3. versions[r][i] \in VersionRow
  BY <1>2, RoundFacts
<1>4. versions[r][i].version \in 1..MaxSaves /\ versions[r][i].version \in Int
      /\ versions[r][i].text \in Texts
  BY <1>3, VersionColumns
<1>5. /\ q \in DraftScreen /\ q.round = r /\ q.id = i /\ q.version = versions[r][i].version
      /\ q.text = versions[r][i].text
  BY <1>2, <1>4 DEF DraftScreen
<1>6. ScreenOpens(c, q)
  BY <1>1 DEF get_transcript_version, ScreenOpens
<1> HIDE DEF q
<1>7. ReadFrom(q, versions[q.round])
  BY <1>2, <1>4, <1>5 DEF ReadFrom
<1> QED
  BY <1>5, <1>6, <1>7, ScreenOpensKeeps

LEMMA QuestionColumns ==
    ASSUME Inv, NEW r \in Rounds
    PROVE  /\ questions[r] \in QuestionSet /\ questions[r].current \in Nat
           /\ questions[r].current = Len(questions[r].versions)
           /\ questions[r].versions \in
                  Seq([source : {"AI_GENERATED", "MANUAL_EDIT"}, task : Nat])
<1>1. questions[r] \in QuestionSet /\ questions[r].current = Len(questions[r].versions)
  BY DEF Inv, TypeOK
<1> QED
  BY <1>1 DEF QuestionSet

LEMMA ReadQuestionsKeeps ==
    ASSUME Inv, NEW c \in Clients, NEW r \in Rounds, list_question_versions(c, r) PROVE Inv'
<1> DEFINE q == [kind |-> "questions", round |-> r, id |-> questions[r].current]
<1>1. questions[r].current \in Nat \ {0}
  BY QuestionColumns DEF list_question_versions
<1>2. q \in QuestionsScreen /\ q.kind # "draft"
  BY <1>1 DEF QuestionsScreen
<1>3. ScreenOpens(c, q)
  BY DEF list_question_versions, ScreenOpens
<1> HIDE DEF q
<1> QED
  BY <1>2, <1>3, ScreenOpensKeeps
-----------------------------------------------------------------------------
(* Tasks that are created and settled. *)

LEMMA AnalysisColumns ==
    ASSUME Inv, NEW r \in Rounds
    PROVE  /\ analysis[r] \in RoundAnalysis /\ analysis[r].current \in Nat
           /\ analysis[r].current = Len(analysis[r].versions)
           /\ analysis[r].versions \in Seq([task : 1..MaxTasks, transcript : Nat \ {0}])
           /\ \A i \in 1..Len(analysis[r].versions) :
                 /\ analysis[r].versions[i].task \in 1..MaxTasks
                 /\ analysis[r].versions[i].task # 0
<1>1. analysis[r] \in RoundAnalysis /\ analysis[r].current = Len(analysis[r].versions)
  BY DEF Inv, TypeOK
<1>2. /\ analysis[r].current \in Nat
      /\ analysis[r].versions \in Seq([task : 1..MaxTasks, transcript : Nat \ {0}])
  BY <1>1 DEF RoundAnalysis
<1>3. ASSUME NEW i \in 1..Len(analysis[r].versions)
      PROVE  analysis[r].versions[i].task \in 1..MaxTasks /\ analysis[r].versions[i].task # 0
  <2>1. analysis[r].versions[i] \in [task : 1..MaxTasks, transcript : Nat \ {0}]
    BY <1>2, ElementOfSeq
  <2>2. analysis[r].versions[i].task \in 1..MaxTasks
    BY <2>1
  <2> QED
    BY <2>2, BoundsAssumption
<1> QED
  BY <1>1, <1>2, <1>3

\* What tasks made stays theirs while tasks only move on or are added.
LEMMA MadeKept ==
    ASSUME Inv, tasks' \in Seq(TaskRow), TasksKept(tasks, tasks')
    PROVE  /\ \A r \in Rounds :
                 /\ FromTasks(questions[r].versions, tasks', "INTERVIEW_QUESTION_GENERATE", r)
                 /\ FromTasks(analysis[r].versions, tasks', "INTERVIEW_ROUND_ANALYZE", r)
                 /\ Grounded(analysis[r], versions[r], tasks')
           /\ FromTasks(comprehensive.versions, tasks', "INTERVIEW_COMPREHENSIVE_ANALYZE", None)
<1>1. tasks \in Seq(TaskRow)
  BY DEF Inv, TypeOK
<1>2. ASSUME NEW r \in Rounds
      PROVE  /\ FromTasks(questions[r].versions, tasks', "INTERVIEW_QUESTION_GENERATE", r)
             /\ FromTasks(analysis[r].versions, tasks', "INTERVIEW_ROUND_ANALYZE", r)
             /\ Grounded(analysis[r], versions[r], tasks')
  <2>1. /\ FromTasks(questions[r].versions, tasks, "INTERVIEW_QUESTION_GENERATE", r)
        /\ FromTasks(analysis[r].versions, tasks, "INTERVIEW_ROUND_ANALYZE", r)
        /\ Grounded(analysis[r], versions[r], tasks)
    BY DEF Inv, Makers, Evidence
  <2>2. \A i \in 1..Len(analysis[r].versions) : analysis[r].versions[i].task # 0
    BY AnalysisColumns
  <2> QED
    BY <1>1, <2>1, <2>2, FromTasksKept, GroundedKept
<1>3. FromTasks(comprehensive.versions, tasks', "INTERVIEW_COMPREHENSIVE_ANALYZE", None)
  BY <1>1, FromTasksKept DEF Inv, Makers
<1> QED
  BY <1>2, <1>3

LEMMA AnalysesStay == ASSUME Inv PROVE AnalysesGrow(analysis, analysis)
<1>1. \A r \in Rounds : Len(analysis[r].versions) \in Nat
  BY DEF Inv, TypeOK, RoundAnalysis
<1> QED
  BY <1>1 DEF AnalysesGrow

LEMMA TasksOnlyKeeps ==
    ASSUME Inv, UNCHANGED <<round, transcriptVars, questions, analysis, comprehensive, screen>>,
           tasks' \in Seq(TaskRow), TasksKept(tasks, tasks'), Len(tasks') <= MaxTasks,
           \A t \in 1..Len(tasks') : t \in 1..Len(tasks) \/ InputExists(tasks'[t], versions, analysis)
    PROVE  Inv'
<1>1. /\ round' = round /\ versions' = versions /\ transcript' = transcript
      /\ questions' = questions /\ analysis' = analysis /\ comprehensive' = comprehensive
      /\ screen' = screen
  BY DEF transcriptVars
<1>2. TypeOK' /\ ScreensLeft
  BY <1>1, ScreensStay DEF Inv, TypeOK
<1>3. Approvals'
  BY <1>1 DEF Inv, Approvals
<1>4. Makers' /\ Evidence'
  BY <1>1, MadeKept DEF Makers, Evidence, Inv
<1> QED
  BY <1>1, <1>2, <1>3, <1>4, AnalysesStay, AiStepKeeps

\* One task is rewritten, but not what it works on.
LEMMA TaskRewritten ==
    ASSUME Inv, NEW t \in DOMAIN tasks,
           NEW row \in TaskRow, SameInput(tasks[t], row), tasks' = [tasks EXCEPT ![t] = row]
    PROVE  /\ t \in 1..Len(tasks) /\ tasks[t] \in TaskRow /\ Len(tasks) \in Nat
           /\ Len(tasks) <= MaxTasks
           /\ tasks' \in Seq(TaskRow) /\ Len(tasks') = Len(tasks) /\ TasksKept(tasks, tasks')
           /\ InputExists(tasks[t], versions, analysis)
<1>1. /\ tasks \in Seq(TaskRow) /\ Len(tasks) \in Nat /\ t \in 1..Len(tasks)
      /\ Len(tasks) <= MaxTasks
  BY LenProperties DEF Inv, TypeOK, Inputs
<1>2. tasks[t] \in TaskRow /\ InputExists(tasks[t], versions, analysis)
  BY <1>1 DEF Inv, Inputs
<1>3. /\ tasks' \in Seq(TaskRow) /\ Len(tasks') = Len(tasks)
      /\ \A u \in 1..Len(tasks) : tasks'[u] = IF u = t THEN row ELSE tasks[u]
  BY <1>1, ExceptSeq
<1>4. TasksKept(tasks, tasks')
  BY <1>1, <1>3 DEF TasksKept, SameInput
<1> QED
  BY <1>1, <1>2, <1>3, <1>4

LEMMA SettleFacts ==
    ASSUME Inv, NEW t \in DOMAIN tasks, NEW status \in {"in_flight", "failed", "cancelled", "succeeded"},
           Settle(t, status)
    PROVE  /\ t \in 1..Len(tasks) /\ tasks[t] \in TaskRow /\ Len(tasks) \in Nat
           /\ Len(tasks) <= MaxTasks
           /\ tasks' \in Seq(TaskRow) /\ Len(tasks') = Len(tasks) /\ TasksKept(tasks, tasks')
           /\ InputExists(tasks[t], versions, analysis)
<1>1. tasks[t] \in TaskRow
  BY DEF Inv, TypeOK
<1> DEFINE row == Settled(tasks[t], status)
<1>2. row \in TaskRow /\ SameInput(tasks[t], row)
  <2>1. (tasks[t].late /\ status = "cancelled") \in BOOLEAN
    OBVIOUS
  <2> QED
    BY <1>1, <2>1 DEF TaskRow, Settled, SameInput
<1>3. tasks' = [tasks EXCEPT ![t] = row]
  BY DEF Settle
<1> HIDE DEF row
<1> QED
  BY <1>2, <1>3, TaskRewritten

LEMMA RetryKeeps ==
    ASSUME Inv, NEW t \in DOMAIN tasks, retry_ai_task(t)
    PROVE  Inv'
<1>1. tasks[t] \in TaskRow
  BY DEF Inv, TypeOK
<1> DEFINE row == Retried(tasks[t])
<1>2. row \in TaskRow /\ SameInput(tasks[t], row)
  BY <1>1 DEF TaskRow, Retried, SameInput
<1>3. /\ tasks' = [tasks EXCEPT ![t] = row]
      /\ UNCHANGED <<round, transcriptVars, questions, analysis, comprehensive, screen>>
  BY DEF retry_ai_task
<1> HIDE DEF row
<1>4. /\ tasks' \in Seq(TaskRow) /\ Len(tasks') = Len(tasks) /\ Len(tasks) <= MaxTasks
      /\ TasksKept(tasks, tasks')
  BY <1>2, <1>3, TaskRewritten
<1> QED
  BY <1>3, <1>4, TasksOnlyKeeps

LEMMA TaskStatusKeeps ==
    ASSUME Inv, NEW t \in DOMAIN tasks, NEW status \in {"in_flight", "failed", "cancelled", "succeeded"},
           Settle(t, status),
           UNCHANGED <<round, transcriptVars, questions, analysis, comprehensive, screen>>
    PROVE  Inv'
  BY SettleFacts, TasksOnlyKeeps

LEMMA CreateTaskKeeps ==
    ASSUME Inv, NEW kind \in TaskKinds, NEW r \in Rounds \cup {None}, NEW i \in Nat,
           NEW text \in {None} \cup Texts, NEW refs \in SUBSET (Rounds \X (1..MaxTasks)),
           CreateTask(kind, r, i, text, refs), RefsExist(refs, analysis),
           kind = "INTERVIEW_COMPREHENSIVE_ANALYZE" <=> r = None,
           kind = "INTERVIEW_ROUND_ANALYZE" =>
               i \in 1..Len(versions[r]) /\ versions[r][i].type = "CONFIRMED"
    PROVE  Inv'
<1> DEFINE row == [kind |-> kind, round |-> r, transcript |-> i, text |-> text, refs |-> refs,
                   status |-> "in_flight", late |-> FALSE]
<1>1. row \in TaskRow
  BY DEF TaskRow
<1>2. InputExists(row, versions, analysis)
  BY DEF InputExists
<1>3. tasks' = Append(tasks, row) /\ Len(tasks) < MaxTasks
  BY DEF CreateTask
<1> HIDE DEF row
<1>4. tasks \in Seq(TaskRow) /\ Len(tasks) \in Nat /\ MaxTasks \in Nat
  BY BoundsAssumption DEF Inv, TypeOK
<1>5. /\ tasks' \in Seq(TaskRow) /\ Len(tasks') = Len(tasks) + 1 /\ tasks'[Len(tasks) + 1] = row
      /\ \A t \in 1..Len(tasks) : tasks'[t] = tasks[t]
  BY <1>1, <1>3, <1>4
<1>6. TasksKept(tasks, tasks')
  BY <1>4, <1>5 DEF TasksKept, SameInput
<1>7. Len(tasks') <= MaxTasks
  BY <1>3, <1>4, <1>5
<1>8. ASSUME NEW t \in 1..Len(tasks')
      PROVE  t \in 1..Len(tasks) \/ InputExists(tasks'[t], versions, analysis)
  <2>1. t \in 1..Len(tasks) \/ t = Len(tasks) + 1
    BY <1>4, <1>5
  <2> QED
    BY <1>2, <1>5, <2>1
<1>9. UNCHANGED <<round, transcriptVars, questions, analysis, comprehensive, screen>>
  BY DEF CreateTask
<1> QED
  BY <1>5, <1>6, <1>7, <1>8, <1>9, TasksOnlyKeeps

\* There are no more results than tasks, one of each.
LEMMA ResultsBounded ==
    ASSUME NEW S, NEW rows \in Seq(S), NEW ts \in Seq(TaskRow), NEW kind, NEW r,
           FromTasks(rows, ts, kind, r), \A i \in 1..Len(rows) : rows[i].task # 0
    PROVE  Len(rows) <= Len(ts)
<1> DEFINE f == [i \in 1..Len(rows) |-> rows[i].task]
<1>1. Len(rows) \in Nat /\ Len(ts) \in Nat
  OBVIOUS
<1>2. f \in [1..Len(rows) -> 1..Len(ts)] /\ \A i, j \in 1..Len(rows) : f[i] = f[j] => i = j
  BY DEF FromTasks
<1>3. f \in Injection(1..Len(rows), 1..Len(ts))
  <2> HIDE DEF f
  <2> QED
    BY <1>2 DEF Injection, IsInjective
<1>4. /\ IsFiniteSet(1..Len(ts)) /\ Cardinality(1..Len(ts)) = Len(ts)
      /\ Cardinality(1..Len(rows)) = Len(rows)
  <2>1. \A n \in Nat : IsFiniteSet(1..n) /\ Cardinality(1..n) = IF 1 > n THEN 0 ELSE n - 1 + 1
    BY FS_Interval
  <2>2. \A n \in Nat : IsFiniteSet(1..n) /\ Cardinality(1..n) = n
    BY <2>1
  <2> QED
    BY <1>1, <2>2
<1>5. Cardinality(1..Len(rows)) <= Cardinality(1..Len(ts))
  <2> HIDE DEF f
  <2> QED
    BY <1>3, <1>4, FS_Injection
<1> QED
  BY <1>4, <1>5

LEMMA AnalysesBounded ==
    ASSUME Inv, NEW r \in Rounds
    PROVE  analysis[r].current <= MaxTasks
<1>1. FromTasks(analysis[r].versions, tasks, "INTERVIEW_ROUND_ANALYZE", r)
      /\ tasks \in Seq(TaskRow) /\ Len(tasks) <= MaxTasks
  BY DEF Inv, TypeOK, Makers, Inputs
<1>2. Len(analysis[r].versions) <= Len(tasks)
  BY <1>1, AnalysisColumns, ResultsBounded
<1>3. Len(analysis[r].versions) \in Nat /\ Len(tasks) \in Nat
  BY <1>1, AnalysisColumns
<1> QED
  BY <1>1, <1>2, <1>3, BoundsAssumption, AnalysisColumns

LEMMA RequestQuestionsKeeps ==
    ASSUME Inv, NEW r \in Rounds, request_question_generation(r) PROVE Inv'
<1>1. /\ "INTERVIEW_QUESTION_GENERATE" \in TaskKinds
      /\ {} \in SUBSET (Rounds \X (1..MaxTasks)) /\ RefsExist({}, analysis) /\ r # None
  BY NoneAssumption DEF TaskKinds, RefsExist
<1>2. CreateTask("INTERVIEW_QUESTION_GENERATE", r, 0, None, {})
  BY DEF request_question_generation
<1> QED
  BY <1>1, <1>2, CreateTaskKeeps

LEMMA RequestAnalysisKeeps ==
    ASSUME Inv, NEW r \in Rounds, request_analysis_generation(r) PROVE Inv'
<1> DEFINE i    == transcript[r].confirmed
           text == versions[r][i].text
<1>1. /\ "INTERVIEW_ROUND_ANALYZE" \in TaskKinds
      /\ {} \in SUBSET (Rounds \X (1..MaxTasks)) /\ RefsExist({}, analysis) /\ r # None
  BY NoneAssumption DEF TaskKinds, RefsExist
<1>2. CreateTask("INTERVIEW_ROUND_ANALYZE", r, i, text, {})
  BY DEF request_analysis_generation, _included_plaintext_segments
<1>3. i \in 1..Len(versions[r]) /\ versions[r][i].type = "CONFIRMED" /\ i \in Nat
  BY RoundFacts DEF request_analysis_generation, WellFormed
<1>4. text \in {None} \cup Texts
  <2>1. versions[r][i] \in VersionRow
    BY <1>3, RoundFacts
  <2> QED
    BY <2>1, VersionColumns
<1> HIDE DEF i, text
<1> QED
  BY <1>1, <1>2, <1>3, <1>4, CreateTaskKeeps

LEMMA RequestComprehensiveKeeps ==
    ASSUME Inv, request_comprehensive_analysis_generation PROVE Inv'
<1> DEFINE refs == _collect_application_context
<1>1. CreateTask("INTERVIEW_COMPREHENSIVE_ANALYZE", None, 0, None, refs)
  BY DEF request_comprehensive_analysis_generation
<1>2. "INTERVIEW_COMPREHENSIVE_ANALYZE" \in TaskKinds
      /\ "INTERVIEW_COMPREHENSIVE_ANALYZE" # "INTERVIEW_ROUND_ANALYZE"
  BY DEF TaskKinds
<1>3. ASSUME NEW ref \in refs
      PROVE  /\ ref \in Rounds \X (1..MaxTasks)
             /\ ref[2] \in 1..Len(analysis[ref[1]].versions)
  <2>1. PICK r \in build_coverage_report : ref = <<r, analysis[r].current>>
    BY <1>3 DEF _collect_application_context, build_round_ref
  <2>2. r \in Rounds /\ analysis[r].current # 0
    BY <2>1 DEF build_coverage_report, _gap_for_round
  <2>3. analysis[r].current \in Nat /\ analysis[r].current <= MaxTasks
        /\ analysis[r].current = Len(analysis[r].versions)
    BY <2>2, AnalysisColumns, AnalysesBounded
  <2> QED
    BY <2>1, <2>2, <2>3, BoundsAssumption
<1>4. refs \in SUBSET (Rounds \X (1..MaxTasks)) /\ RefsExist(refs, analysis)
  BY <1>3 DEF RefsExist
<1> HIDE DEF refs
<1> QED
  BY <1>1, <1>2, <1>4, CreateTaskKeeps
-----------------------------------------------------------------------------
(* Results that are persisted, and question sets that people change. *)

LEMMA NewQuestionsColumns ==
    ASSUME NEW q \in QuestionSet, q.current = Len(q.versions),
           NEW source \in {"AI_GENERATED", "MANUAL_EDIT"}, NEW t \in Nat
    PROVE  /\ NewQuestions(q, source, t) \in QuestionSet
           /\ NewQuestions(q, source, t).status # "READY"
           /\ NewQuestions(q, source, t).versions =
                  Append(q.versions, [source |-> source, task |-> t])
           /\ NewQuestions(q, source, t).current = Len(NewQuestions(q, source, t).versions)
<1> DEFINE v  == [source |-> source, task |-> t]
           VS == [source : {"AI_GENERATED", "MANUAL_EDIT"}, task : Nat]
<1>1. v \in VS
  OBVIOUS
<1>2. q.versions \in Seq(VS)
  BY DEF QuestionSet
<1> HIDE DEF v
<1>3. /\ Append(q.versions, v) \in Seq(VS) /\ Len(Append(q.versions, v)) = Len(q.versions) + 1
      /\ Len(q.versions) + 1 \in Nat
  <2> HIDE DEF VS
  <2> QED
    BY <1>1, <1>2, AppendProperties, LenProperties
<1> QED
  BY <1>3 DEF NewQuestions, QuestionSet, v

\* Question set r is replaced, by one that an old or a settled task accounts for.
LEMMA QuestionsKeep ==
    ASSUME Inv, ScreensLeft, NEW r \in Rounds, NEW q \in QuestionSet,
           questions' = [questions EXCEPT ![r] = q],
           UNCHANGED <<round, transcriptVars, analysis, comprehensive>>,
           tasks' \in Seq(TaskRow), TasksKept(tasks, tasks'), Len(tasks') = Len(tasks),
           q.current = Len(q.versions), q.status = "READY" => q.current = q.seen,
           FromTasks(q.versions, tasks', "INTERVIEW_QUESTION_GENERATE", r)
    PROVE  Inv'
<1>1. /\ round' = round /\ versions' = versions /\ transcript' = transcript
      /\ analysis' = analysis /\ comprehensive' = comprehensive
      /\ questions' \in [Rounds -> QuestionSet] /\ questions'[r] = q
      /\ \A p \in Rounds \ {r} : questions'[p] = questions[p]
  BY DEF Inv, TypeOK, transcriptVars
<1>2. TypeOK'
  BY <1>1 DEF Inv, TypeOK, ScreensLeft
<1>3. Approvals'
  BY <1>1 DEF Inv, Approvals
<1>4. Makers' /\ Evidence'
  BY <1>1, MadeKept DEF Makers, Evidence, Inv
<1>5. Len(tasks') <= MaxTasks
  BY DEF Inv, Inputs
<1> QED
  BY <1>1, <1>2, <1>3, <1>4, <1>5, AnalysesStay, AiStepKeeps

LEMMA TaskColumns ==
    ASSUME Inv, NEW t \in DOMAIN tasks
    PROVE  /\ t \in 1..Len(tasks) /\ tasks[t] \in TaskRow /\ t \in 1..MaxTasks /\ t \in Nat /\ t # 0
           /\ InputExists(tasks[t], versions, analysis)
           /\ tasks[t].round \in Rounds \/ tasks[t].round = None
           /\ tasks[t].refs \in SUBSET (Rounds \X (1..MaxTasks))
<1>1. /\ tasks \in Seq(TaskRow) /\ Len(tasks) \in Nat /\ t \in 1..Len(tasks)
      /\ Len(tasks) <= MaxTasks
  BY LenProperties DEF Inv, TypeOK, Inputs
<1>2. tasks[t] \in TaskRow /\ InputExists(tasks[t], versions, analysis)
  BY <1>1 DEF Inv, Inputs
<1>3. t \in 1..MaxTasks /\ t \in Nat /\ t # 0
  BY <1>1, BoundsAssumption
<1> QED
  BY <1>1, <1>2, <1>3 DEF TaskRow

LEMMA PersistQuestionsKeeps ==
    ASSUME Inv, NEW t \in DOMAIN tasks, MadeBy(t) = {}, persist_question_generation_result(t),
           Settle(t, "succeeded"), UNCHANGED <<round, transcriptVars, screen>>
    PROVE  Inv'
<1> DEFINE r == tasks[t].round
           q == NewQuestions(questions[r], "AI_GENERATED", t)
           v == [source |-> "AI_GENERATED", task |-> t]
           VS == [source : {"AI_GENERATED", "MANUAL_EDIT"}, task : Nat]
<1>1. /\ r \in Rounds /\ t \in Nat /\ t \in 1..Len(tasks)
      /\ tasks[t].kind = "INTERVIEW_QUESTION_GENERATE"
  BY TaskColumns DEF persist_question_generation_result, InputExists
<1>2. /\ tasks' \in Seq(TaskRow) /\ Len(tasks') = Len(tasks) /\ TasksKept(tasks, tasks')
      /\ ScreensLeft
  BY SettleFacts, ScreensStay
<1>3. /\ questions[r] \in QuestionSet /\ questions[r].current = Len(questions[r].versions)
      /\ questions[r].versions \in Seq(VS)
  BY <1>1, QuestionColumns
<1>4. /\ q \in QuestionSet /\ q.status # "READY" /\ q.current = Len(q.versions)
      /\ q.versions = Append(questions[r].versions, v)
  BY <1>1, <1>3, NewQuestionsColumns
<1>5. /\ tasks'[t].kind = "INTERVIEW_QUESTION_GENERATE" /\ tasks'[t].round = r
      /\ t \in 1..Len(tasks')
  BY <1>1, <1>2 DEF TasksKept, SameInput
<1>6. \A i \in 1..Len(questions[r].versions) : questions[r].versions[i].task # t
  <2>1. DOMAIN questions[r].versions = 1..Len(questions[r].versions)
    BY <1>3, LenProperties
  <2> QED
    BY <1>1, <2>1 DEF MadeBy, QuestionsBy
<1>7. FromTasks(questions[r].versions, tasks', "INTERVIEW_QUESTION_GENERATE", r)
  BY <1>1, <1>2, MadeKept
<1>8. v \in VS /\ v.task = t
  BY <1>1
<1>9. questions' = [questions EXCEPT ![r] = q] /\ UNCHANGED <<analysis, comprehensive>>
  BY DEF persist_question_generation_result
<1> HIDE DEF r, q, v, VS
<1>10. FromTasks(q.versions, tasks', "INTERVIEW_QUESTION_GENERATE", r)
  <2>1. FromTasks(Append(questions[r].versions, v), tasks', "INTERVIEW_QUESTION_GENERATE", r)
    BY <1>3, <1>5, <1>6, <1>7, <1>8, FromTasksAppended
  <2> QED
    BY <1>4, <2>1
<1> QED
  BY <1>1, <1>2, <1>4, <1>9, <1>10, QuestionsKeep

LEMMA ExpectedFacts ==
    ASSUME Inv, NEW c \in Clients, ExpectedCurrent(c)
    PROVE  /\ screen[c].round \in Rounds /\ screen[c].id \in Nat
           /\ questions[screen[c].round].current = screen[c].id
<1>1. screen[c] # None /\ screen[c].kind = "questions"
      /\ questions[screen[c].round].current = screen[c].id
  BY DEF ExpectedCurrent, Showing
<1>2. screen[c] \in QuestionsScreen
  <2>1. screen[c] \in DraftScreen \cup QuestionsScreen
    BY <1>1 DEF Inv, TypeOK
  <2> QED
    BY <1>1, <2>1 DEF DraftScreen
<1> QED
  BY <1>1, <1>2 DEF QuestionsScreen

LEMMA TasksStay ==
    ASSUME Inv
    PROVE  tasks \in Seq(TaskRow) /\ Len(tasks) \in Nat /\ TasksKept(tasks, tasks)
<1>1. tasks \in Seq(TaskRow) /\ Len(tasks) \in Nat
  BY DEF Inv, TypeOK
<1> QED
  BY <1>1 DEF TasksKept, SameInput

LEMMA ManualQuestionsKeeps ==
    ASSUME Inv, NEW c \in Clients, create_manual_question_version(c) PROVE Inv'
<1> DEFINE r == screen[c].round
           q == NewQuestions(questions[r], "MANUAL_EDIT", 0)
           v == [source |-> "MANUAL_EDIT", task |-> 0]
           VS == [source : {"AI_GENERATED", "MANUAL_EDIT"}, task : Nat]
<1>1. r \in Rounds
  BY ExpectedFacts DEF create_manual_question_version
<1>2. /\ tasks' = tasks /\ tasks' \in Seq(TaskRow) /\ TasksKept(tasks, tasks') /\ ScreensLeft
  BY TasksStay, ScreenCloses DEF create_manual_question_version
<1>3. /\ questions[r] \in QuestionSet /\ questions[r].current = Len(questions[r].versions)
      /\ questions[r].versions \in Seq(VS)
  BY <1>1, QuestionColumns
<1>4. /\ q \in QuestionSet /\ q.status # "READY" /\ q.current = Len(q.versions)
      /\ q.versions = Append(questions[r].versions, v)
  BY <1>1, <1>3, NewQuestionsColumns
<1>5. FromTasks(questions[r].versions, tasks, "INTERVIEW_QUESTION_GENERATE", r)
  BY <1>1 DEF Inv, Makers
<1>6. v \in VS /\ v.task = 0
  OBVIOUS
<1>7. questions' = [questions EXCEPT ![r] = q]
      /\ UNCHANGED <<round, transcriptVars, analysis, comprehensive>>
  BY DEF create_manual_question_version
<1> HIDE DEF r, q, v, VS
<1>8. FromTasks(q.versions, tasks, "INTERVIEW_QUESTION_GENERATE", r)
  <2>1. FromTasks(Append(questions[r].versions, v), tasks, "INTERVIEW_QUESTION_GENERATE", r)
    BY <1>3, <1>5, <1>6, FromTasksAppended
  <2> QED
    BY <1>4, <2>1
<1> QED
  BY <1>1, <1>2, <1>4, <1>7, <1>8, QuestionsKeep

LEMMA ConfirmQuestionsKeeps ==
    ASSUME Inv, NEW c \in Clients, confirm_question_set(c) PROVE Inv'
<1> DEFINE r == screen[c].round
           q == Approved(questions[r], screen[c].id)
<1>1. r \in Rounds /\ screen[c].id \in Nat /\ questions[r].current = screen[c].id
  BY ExpectedFacts DEF confirm_question_set
<1>2. /\ tasks' = tasks /\ tasks' \in Seq(TaskRow) /\ TasksKept(tasks, tasks') /\ ScreensLeft
  BY TasksStay, ScreenCloses DEF confirm_question_set
<1>3. questions[r] \in QuestionSet /\ questions[r].current = Len(questions[r].versions)
  BY <1>1, QuestionColumns
<1>4. /\ q \in QuestionSet /\ q.current = q.seen /\ q.current = Len(q.versions)
      /\ q.versions = questions[r].versions
  BY <1>1, <1>3 DEF QuestionSet, Approved
<1>5. FromTasks(questions[r].versions, tasks, "INTERVIEW_QUESTION_GENERATE", r)
  BY <1>1 DEF Inv, Makers
<1>6. questions' = [questions EXCEPT ![r] = q]
      /\ UNCHANGED <<round, transcriptVars, analysis, comprehensive>>
  BY DEF confirm_question_set
<1> HIDE DEF r, q
<1> QED
  BY <1>1, <1>2, <1>4, <1>5, <1>6, QuestionsKeep

LEMMA PersistAnalysisKeeps ==
    ASSUME Inv, NEW t \in DOMAIN tasks, MadeBy(t) = {}, persist_analysis_generation_result(t),
           Settle(t, "succeeded"), UNCHANGED <<round, transcriptVars, screen>>
    PROVE  Inv'
<1> DEFINE r   == tasks[t].round
           i   == tasks[t].transcript
           a   == NewAnalysis(analysis[r], t, i)
           n   == Len(analysis[r].versions)
           v   == [task |-> t, transcript |-> i]
           VS  == [task : 1..MaxTasks, transcript : Nat \ {0}]
<1>1. /\ r \in Rounds /\ t \in 1..MaxTasks /\ t \in 1..Len(tasks) /\ t # 0
      /\ tasks[t].kind = "INTERVIEW_ROUND_ANALYZE"
      /\ i \in 1..Len(versions[r]) /\ versions[r][i].type = "CONFIRMED"
  BY TaskColumns DEF persist_analysis_generation_result, InputExists
<1>2. i \in Nat \ {0}
  BY <1>1, RoundFacts
<1>3. versions[r][i].text = tasks[t].text
  BY DEF persist_analysis_generation_result, _segments_from_refs, _included_plaintext_segments
<1>4. /\ tasks' \in Seq(TaskRow) /\ Len(tasks') = Len(tasks) /\ TasksKept(tasks, tasks')
      /\ ScreensLeft /\ Len(tasks') <= MaxTasks
  BY SettleFacts, ScreensStay
<1>5. /\ analysis[r] \in RoundAnalysis /\ analysis[r].versions \in Seq(VS)
  BY <1>1, AnalysisColumns
<1>6. /\ a \in RoundAnalysis /\ a.versions = Append(analysis[r].versions, v)
      /\ a.current = Len(a.versions) /\ Len(a.versions) = n + 1 /\ n \in Nat
      /\ \A j \in 1..n : a.versions[j] = analysis[r].versions[j]
      /\ a.versions[n + 1] = v
  <2> DEFINE old == analysis[r].versions
  <2>1. v \in VS /\ old \in Seq(VS) /\ n = Len(old)
    BY <1>1, <1>2, <1>5
  <2>2. a = [current |-> n + 1, versions |-> Append(old, v)]
    BY DEF NewAnalysis
  <2>3. a.current = n + 1 /\ a.versions = Append(old, v)
    BY <2>2
  <2> HIDE DEF v, VS, old, n
  <2>4. /\ Append(old, v) \in Seq(VS) /\ Len(Append(old, v)) = n + 1 /\ n \in Nat
        /\ \A j \in 1..n : Append(old, v)[j] = old[j]
        /\ Append(old, v)[n + 1] = v
    BY <2>1, AppendProperties, LenProperties
  <2>5. a \in RoundAnalysis
    <3> HIDE DEF a
    <3> QED
      BY <2>2, <2>4 DEF RoundAnalysis, VS
  <2> HIDE DEF a
  <2> QED
    BY <2>3, <2>4, <2>5 DEF old
<1>7. /\ tasks'[t].kind = "INTERVIEW_ROUND_ANALYZE" /\ tasks'[t].round = r /\ t \in 1..Len(tasks')
      /\ tasks'[t].text = tasks[t].text
  BY <1>1, <1>4 DEF TasksKept, SameInput
<1>8. \A j \in 1..n : analysis[r].versions[j].task # t
  <2>1. DOMAIN analysis[r].versions = 1..Len(analysis[r].versions)
    BY <1>5, LenProperties
  <2> QED
    BY <1>1, <2>1 DEF MadeBy, AnalysesBy
<1>9. /\ FromTasks(analysis[r].versions, tasks', "INTERVIEW_ROUND_ANALYZE", r)
      /\ Grounded(analysis[r], versions[r], tasks')
  BY <1>1, <1>4, MadeKept
<1>10. v \in VS /\ v.task = t /\ v.transcript = i
  BY <1>1, <1>2
<1>11. /\ analysis' = [analysis EXCEPT ![r] = a] /\ questions' = questions
       /\ comprehensive' = comprehensive
  BY DEF persist_analysis_generation_result
<1> HIDE DEF r, i, a, v, VS
<1>12. FromTasks(a.versions, tasks', "INTERVIEW_ROUND_ANALYZE", r)
  <2>1. FromTasks(Append(analysis[r].versions, v), tasks', "INTERVIEW_ROUND_ANALYZE", r)
    BY <1>5, <1>7, <1>8, <1>9, <1>10, FromTasksAppended
  <2> QED
    BY <1>6, <2>1
<1> HIDE DEF n
<1>13. Grounded(a, versions[r], tasks')
  <2>1. \A j \in 1..Len(a.versions) : j \in 1..n \/ j = n + 1
    BY <1>6
  <2>2. ASSUME NEW j \in 1..Len(a.versions)
        PROVE  /\ a.versions[j].transcript \in 1..Len(versions[r])
               /\ versions[r][a.versions[j].transcript].type = "CONFIRMED"
               /\ versions[r][a.versions[j].transcript].text = tasks'[a.versions[j].task].text
    <3>1. CASE j \in 1..n
      BY <1>6, <1>9, <3>1 DEF Grounded, n
    <3>2. CASE j = n + 1
      BY <1>1, <1>3, <1>6, <1>7, <1>10, <3>2
    <3> QED
      BY <2>1, <3>1, <3>2
  <2> QED
    BY <2>2 DEF Grounded
<1>14. /\ analysis' \in [Rounds -> RoundAnalysis] /\ analysis'[r] = a
       /\ \A q \in Rounds \ {r} : analysis'[q] = analysis[q]
       /\ round' = round /\ versions' = versions /\ transcript' = transcript /\ screen' = screen
       /\ analysis \in [Rounds -> RoundAnalysis]
  BY <1>1, <1>6, <1>11 DEF Inv, TypeOK, transcriptVars
<1>15. TypeOK'
  BY <1>4, <1>6, <1>11, <1>14 DEF Inv, TypeOK
<1>16. AnalysesGrow(analysis, analysis')
  <2>1. \A q \in Rounds : Len(analysis[q].versions) \in Nat
    BY AnalysisColumns
  <2>2. n = Len(analysis[r].versions)
    BY DEF n
  <2> QED
    BY <1>6, <1>14, <2>1, <2>2 DEF AnalysesGrow
<1>17. Approvals'
  BY <1>11 DEF Inv, Approvals
<1>18. Makers'
  BY <1>4, <1>11, <1>12, <1>14, MadeKept DEF Makers
<1>19. Evidence'
  <2>1. ASSUME NEW q \in Rounds PROVE Grounded(analysis'[q], versions[q], tasks')
    BY <1>4, <1>13, <1>14, MadeKept
  <2>2. ASSUME NEW j \in 1..Len(comprehensive.versions)
        PROVE  RefsExist(comprehensive.versions[j].refs, analysis')
    <3>1. RefsExist(comprehensive.versions[j].refs, analysis)
      BY DEF Inv, Evidence
    <3>2. comprehensive.versions[j].refs \in SUBSET (Rounds \X (1..MaxTasks))
      <4>1. comprehensive.versions \in
                Seq([task : 1..MaxTasks, refs : SUBSET (Rounds \X (1..MaxTasks))])
        BY DEF Inv, TypeOK, Comprehensive
      <4>2. comprehensive.versions[j] \in
                [task : 1..MaxTasks, refs : SUBSET (Rounds \X (1..MaxTasks))]
        BY <4>1, ElementOfSeq
      <4> QED
        BY <4>2
    <3> QED
      BY <1>14, <1>16, <3>1, <3>2, RefsKept
  <2> QED
    BY <1>11, <1>14, <2>1, <2>2 DEF Evidence
<1>20. UNCHANGED <<round, transcriptVars>> /\ \A u \in 1..Len(tasks') : u \in 1..Len(tasks)
  BY <1>4
<1> QED
  BY <1>4, <1>15, <1>16, <1>17, <1>18, <1>19, <1>20, AiStepKeeps

LEMMA PersistComprehensiveKeeps ==
    ASSUME Inv, NEW t \in DOMAIN tasks, MadeBy(t) = {}, persist_comprehensive_analysis_result(t),
           Settle(t, "succeeded"), UNCHANGED <<round, transcriptVars, screen>>
    PROVE  Inv'
<1> DEFINE old == comprehensive.versions
           n   == Len(old)
           v   == [task |-> t, refs |-> tasks[t].refs]
           new == Append(old, v)
           VS  == [task : 1..MaxTasks, refs : SUBSET (Rounds \X (1..MaxTasks))]
<1>1. /\ t \in 1..MaxTasks /\ t \in 1..Len(tasks)
      /\ tasks[t].kind = "INTERVIEW_COMPREHENSIVE_ANALYZE" /\ tasks[t].round = None
      /\ RefsExist(tasks[t].refs, analysis)
      /\ tasks[t].refs \in SUBSET (Rounds \X (1..MaxTasks))
  BY TaskColumns DEF persist_comprehensive_analysis_result, InputExists
<1>2. /\ tasks' \in Seq(TaskRow) /\ Len(tasks') = Len(tasks) /\ TasksKept(tasks, tasks')
      /\ ScreensLeft /\ Len(tasks') <= MaxTasks
  BY SettleFacts, ScreensStay
<1>3. old \in Seq(VS) /\ n \in Nat
  BY DEF Inv, TypeOK, Comprehensive
<1>4. v \in VS /\ v.task = t /\ v.refs = tasks[t].refs
  BY <1>1
<1>5. /\ tasks'[t].kind = "INTERVIEW_COMPREHENSIVE_ANALYZE" /\ tasks'[t].round = None
      /\ t \in 1..Len(tasks')
  BY <1>1, <1>2 DEF TasksKept, SameInput
<1>6. \A j \in 1..n : old[j].task # t
  <2>1. DOMAIN old = 1..n
    BY <1>3, LenProperties
  <2> QED
    BY <1>1, <2>1 DEF MadeBy, ComprehensivesBy
<1>7. FromTasks(old, tasks', "INTERVIEW_COMPREHENSIVE_ANALYZE", None)
  BY <1>2, MadeKept
<1>8. /\ comprehensive' = [current |-> n + 1, versions |-> new]
      /\ questions' = questions /\ analysis' = analysis
  BY DEF persist_comprehensive_analysis_result
<1> HIDE DEF v, VS
<1>9. FromTasks(new, tasks', "INTERVIEW_COMPREHENSIVE_ANALYZE", None)
  BY <1>3, <1>4, <1>5, <1>6, <1>7, FromTasksAppended
<1>10. /\ new \in Seq(VS) /\ Len(new) = n + 1 /\ new[n + 1] = v
       /\ \A j \in 1..n : new[j] = old[j]
  BY <1>3, <1>4, AppendProperties
<1> HIDE DEF new, n
<1>11. /\ comprehensive' \in Comprehensive /\ comprehensive'.versions = new
       /\ comprehensive'.current = Len(comprehensive'.versions)
  BY <1>3, <1>8, <1>10 DEF Comprehensive, VS
<1>12. /\ round' = round /\ versions' = versions /\ transcript' = transcript /\ screen' = screen
  BY DEF transcriptVars
<1>13. TypeOK'
  BY <1>2, <1>8, <1>11, <1>12 DEF Inv, TypeOK
<1>14. Approvals'
  BY <1>8 DEF Inv, Approvals
<1>15. Makers'
  BY <1>2, <1>8, <1>9, <1>11, MadeKept DEF Makers
<1>16. Evidence'
  <2>1. \A j \in 1..Len(new) : j \in 1..n \/ j = n + 1
    BY <1>3, <1>10
  <2>2. ASSUME NEW j \in 1..Len(new) PROVE RefsExist(new[j].refs, analysis)
    <3>1. CASE j \in 1..n
      BY <1>10, <3>1 DEF Inv, Evidence, n
    <3>2. CASE j = n + 1
      BY <1>1, <1>4, <1>10, <3>2
    <3> QED
      BY <2>1, <3>1, <3>2
  <2> QED
    BY <1>2, <1>8, <1>11, <1>12, <2>2, MadeKept DEF Evidence
<1>17. UNCHANGED <<round, transcriptVars>> /\ \A u \in 1..Len(tasks') : u \in 1..Len(tasks)
  BY <1>2
<1> QED
  BY <1>2, <1>8, <1>13, <1>14, <1>15, <1>16, <1>17, AnalysesStay, AiStepKeeps
-----------------------------------------------------------------------------
(* The invariant. *)

LEMMA TaskStepKeeps ==
    ASSUME Inv, NEW t \in DOMAIN tasks, TaskStep(t) PROVE Inv'
<1>1. CASE Fail(t)
  BY <1>1, TaskStatusKeeps DEF Fail
<1>2. CASE retry_ai_task(t)
  BY <1>2, RetryKeeps
<1>3. CASE cancel_ai_task(t)
  BY <1>3, TaskStatusKeeps DEF cancel_ai_task
<1>4. CASE _after_task_success(t)
  <2>1. Settle(t, "succeeded") /\ UNCHANGED <<round, transcriptVars, screen>>
    BY <1>4 DEF _after_task_success
  <2>2. CASE Reuse(t)
    BY <2>1, <2>2, TaskStatusKeeps DEF Reuse
  <2>3. CASE MadeBy(t) = {} /\ persist_question_generation_result(t)
    BY <2>1, <2>3, PersistQuestionsKeeps
  <2>4. CASE MadeBy(t) = {} /\ persist_analysis_generation_result(t)
    BY <2>1, <2>4, PersistAnalysisKeeps
  <2>5. CASE MadeBy(t) = {} /\ persist_comprehensive_analysis_result(t)
    BY <2>1, <2>5, PersistComprehensiveKeeps
  <2> QED
    BY <1>4, <2>2, <2>3, <2>4, <2>5 DEF _after_task_success
<1> QED
  BY <1>1, <1>2, <1>3, <1>4 DEF TaskStep

LEMMA NextKeeps == ASSUME Inv, Next PROVE Inv'
<1>1. ASSUME NEW r \in Rounds, RoundStep(r) PROVE Inv'
  BY <1>1, RoundStepKeeps
<1>2. ASSUME NEW r \in Rounds, NEW c \in Clients, TranscriptStep(r, c) PROVE Inv'
  BY <1>2, ImportKeeps, SaveKeeps, CreateDraftKeeps, ReadDraftKeeps, ConfirmKeeps,
     CompleteWithoutKeeps DEF TranscriptStep
<1>3. ASSUME NEW r \in Rounds, NEW c \in Clients, InterviewAiStep(r, c) PROVE Inv'
  BY <1>3, RequestQuestionsKeeps, ReadQuestionsKeeps, ManualQuestionsKeeps,
     ConfirmQuestionsKeeps, RequestAnalysisKeeps DEF InterviewAiStep
<1>4. CASE request_comprehensive_analysis_generation
  BY <1>4, RequestComprehensiveKeeps
<1>5. ASSUME NEW t \in DOMAIN tasks, TaskStep(t) PROVE Inv'
  BY <1>5, TaskStepKeeps
<1> QED
  BY <1>1, <1>2, <1>3, <1>4, <1>5 DEF Next

LEMMA StutterKeeps == ASSUME Inv, UNCHANGED vars PROVE Inv'
<1>1. /\ round' = round /\ versions' = versions /\ transcript' = transcript
      /\ questions' = questions /\ analysis' = analysis /\ comprehensive' = comprehensive
      /\ tasks' = tasks /\ screen' = screen
  BY DEF vars
<1>2. TypeOK' /\ Modes' /\ Transcripts' /\ Approvals'
  BY <1>1 DEF Inv, TypeOK, Modes, Transcripts, Approvals
<1>3. Screens'
  BY <1>1 DEF Inv, Screens, Showing
<1>4. Makers' /\ Inputs' /\ Evidence'
  BY <1>1 DEF Inv, Makers, Inputs, Evidence
<1> QED
  BY <1>2, <1>3, <1>4 DEF Inv

LEMMA InitHolds == ASSUME Init PROVE Inv
<1>1. /\ round = [r \in Rounds |-> [status |-> "SCHEDULED", mode |-> None]]
      /\ versions = [r \in Rounds |-> <<>>]
      /\ transcript = [r \in Rounds |-> [draft |-> 0, confirmed |-> 0]]
      /\ questions = [r \in Rounds |->
                         [status |-> "DRAFT", current |-> 0, seen |-> 0, versions |-> <<>>]]
      /\ analysis = [r \in Rounds |-> [current |-> 0, versions |-> <<>>]]
      /\ comprehensive = [current |-> 0, versions |-> <<>>]
      /\ tasks = <<>>
      /\ screen = [c \in Clients |-> None]
  BY DEF Init
<1>2. Len(<<>>) = 0 /\ 1..0 = {} /\ \A S : <<>> \in Seq(S)
  BY EmptySeq
<1>3. /\ [status |-> "SCHEDULED", mode |-> None] \in RoundRow
      /\ [draft |-> 0, confirmed |-> 0] \in TranscriptRow
      /\ [status |-> "DRAFT", current |-> 0, seen |-> 0, versions |-> <<>>] \in QuestionSet
      /\ [current |-> 0, versions |-> <<>>] \in RoundAnalysis
      /\ [current |-> 0, versions |-> <<>>] \in Comprehensive
  BY <1>2 DEF RoundRow, Statuses, TranscriptRow, QuestionSet, RoundAnalysis, Comprehensive
<1>4. TypeOK
  <2>1. /\ round \in [Rounds -> RoundRow] /\ versions \in [Rounds -> Seq(VersionRow)]
        /\ transcript \in [Rounds -> TranscriptRow] /\ questions \in [Rounds -> QuestionSet]
        /\ analysis \in [Rounds -> RoundAnalysis] /\ comprehensive \in Comprehensive
        /\ tasks \in Seq(TaskRow)
        /\ screen \in [Clients -> DraftScreen \cup QuestionsScreen \cup {None}]
    BY <1>1, <1>2, <1>3
  <2>2. \A r \in Rounds : /\ transcript[r].draft = 0 /\ transcript[r].confirmed = 0
                          /\ questions[r].current = 0 /\ Len(questions[r].versions) = 0
                          /\ analysis[r].current = 0 /\ Len(analysis[r].versions) = 0
    BY <1>1, <1>2
  <2>3. comprehensive.current = 0 /\ Len(comprehensive.versions) = 0
    BY <1>1, <1>2
  <2> QED
    BY <2>1, <2>2, <2>3 DEF TypeOK
<1>5. Modes
  <2>1. None # "WITHOUT_TRANSCRIPT" /\ None # "CONFIRMED_TRANSCRIPT"
    BY NoneIsNoRow DEF CompletionModes
  <2> QED
    BY <1>1, <2>1 DEF Modes, ModeFits
<1>6. Transcripts
  <2>1. \A r \in Rounds : /\ Len(versions[r]) = 0
                          /\ transcript[r].draft = 0 /\ transcript[r].confirmed = 0
    BY <1>1, <1>2
  <2> QED
    BY <1>2, <2>1 DEF Transcripts, WellFormed
<1>7. Screens /\ Approvals
  BY <1>1 DEF Screens, Showing, Approvals
<1>8. Makers
  <2>1. \A r \in Rounds : Len(questions[r].versions) = 0 /\ Len(analysis[r].versions) = 0
    BY <1>1, <1>2
  <2>2. Len(comprehensive.versions) = 0
    BY <1>1, <1>2
  <2> QED
    BY <1>2, <2>1, <2>2 DEF Makers, FromTasks
<1>9. Inputs
  <2>1. Len(tasks) = 0
    BY <1>1, <1>2
  <2> QED
    BY <1>2, <2>1, BoundsAssumption DEF Inputs
<1>10. Evidence
  <2>1. \A r \in Rounds : Len(analysis[r].versions) = 0
    BY <1>1, <1>2
  <2>2. Len(comprehensive.versions) = 0
    BY <1>1, <1>2
  <2> QED
    BY <1>2, <2>1, <2>2 DEF Evidence, Grounded
<1> QED
  BY <1>4, <1>5, <1>6, <1>7, <1>8, <1>9, <1>10 DEF Inv

\* Every reachable state satisfies the inductive invariant: types, completion modes, the
\* shape of a transcript, what screens show, and what tasks read and made.
THEOREM Invariance == Spec => []Inv
<1>1. Init => Inv
  BY InitHolds
<1>2. Inv /\ [Next]_vars => Inv'
  BY NextKeeps, StutterKeeps
<1> QED
  BY <1>1, <1>2, PTL DEF Spec

\* Every row has the columns of its table; current rows and references exist.
THEOREM TypeCorrect == Spec => []TypeOK
<1>1. Inv => TypeOK
  BY DEF Inv
<1> QED
  BY <1>1, Invariance, PTL
-----------------------------------------------------------------------------
(* The properties. *)

LEMMA MaxIs ==
    ASSUME NEW S \in SUBSET Nat, NEW m \in S, \A y \in S : m >= y
    PROVE  Max(S) = m
<1>1. \E x \in S : \A y \in S : x >= y
  OBVIOUS
<1>2. Max(S) \in S /\ \A y \in S : Max(S) >= y
  BY <1>1 DEF Max
<1>3. PICK x \in S : x = Max(S) /\ \A y \in S : x >= y
  BY <1>2
<1>4. x \in Nat /\ m \in Nat /\ x >= m /\ m >= x
  BY <1>3
<1> QED
  BY <1>3, <1>4

\* How a round is completed agrees with its transcript, its draft and its analyses.
THEOREM CompletionMatches == Spec => []CompletionMatchesTranscript
<1>1. ASSUME Inv, NEW r \in Rounds
      PROVE  /\ round[r].status = "COMPLETED" => round[r].mode # None
             /\ round[r].mode = "WITHOUT_TRANSCRIPT" => versions[r] = <<>>
             /\ (round[r].mode = "CONFIRMED_TRANSCRIPT") <=> (transcript[r].confirmed # 0)
             /\ transcript[r].confirmed =
                   Max({0} \cup {i \in DOMAIN versions[r] : versions[r][i].type = "CONFIRMED"})
             /\ get_editing_draft(r) = {transcript[r].draft} \ {0}
             /\ analysis[r].versions # <<>> => round[r].mode = "CONFIRMED_TRANSCRIPT"
  <2>1. /\ versions[r] \in Seq(VersionRow) /\ Len(versions[r]) \in Nat
        /\ DOMAIN versions[r] = 1..Len(versions[r])
        /\ transcript[r].draft \in Nat /\ transcript[r].confirmed \in Nat
        /\ ModeFits(round[r], versions[r], transcript[r])
        /\ WellFormed(versions[r], transcript[r])
    BY <1>1, RoundFacts
  <2>2. round[r].mode = "WITHOUT_TRANSCRIPT" => versions[r] = <<>>
    BY <2>1, EmptySeq DEF ModeFits
  <2>3. transcript[r].confirmed =
           Max({0} \cup {i \in DOMAIN versions[r] : versions[r][i].type = "CONFIRMED"})
    <3> DEFINE S == {0} \cup {i \in DOMAIN versions[r] : versions[r][i].type = "CONFIRMED"}
               m == transcript[r].confirmed
    <3>1. S \in SUBSET Nat /\ m \in S /\ \A y \in S : m >= y
      BY <2>1 DEF WellFormed
    <3> HIDE DEF S, m
    <3>2. Max(S) = m
      BY <3>1, MaxIs
    <3> QED
      BY <3>2 DEF S, m
  <2>4. get_editing_draft(r) = {transcript[r].draft} \ {0}
    <3>1. ASSUME NEW i \in get_editing_draft(r) PROVE i = transcript[r].draft /\ i # 0
      BY <2>1, <3>1 DEF get_editing_draft, WellFormed
    <3>2. transcript[r].draft # 0 => transcript[r].draft \in get_editing_draft(r)
      BY <2>1 DEF get_editing_draft, WellFormed
    <3> QED
      BY <3>1, <3>2
  <2>5. ASSUME analysis[r].versions # <<>> PROVE round[r].mode = "CONFIRMED_TRANSCRIPT"
    <3>1. 1 \in 1..Len(analysis[r].versions)
      <4> DEFINE VS == [task : 1..MaxTasks, transcript : Nat \ {0}]
      <4>1. analysis[r].versions \in Seq(VS)
        BY <1>1, AnalysisColumns
      <4> HIDE DEF VS
      <4>2. Len(analysis[r].versions) \in Nat \ {0}
        BY <2>5, <4>1, EmptySeq
      <4> QED
        BY <4>2
    <3> DEFINE i == analysis[r].versions[1].transcript
    <3>2. i \in 1..Len(versions[r]) /\ versions[r][i].type = "CONFIRMED"
      BY <1>1, <3>1 DEF Inv, Evidence, Grounded
    <3>3. transcript[r].confirmed # 0
      <4> HIDE DEF i
      <4> QED
        BY <2>1, <3>2 DEF WellFormed
    <3> QED
      BY <2>1, <3>3 DEF ModeFits
  <2> QED
    BY <2>1, <2>2, <2>3, <2>4, <2>5 DEF ModeFits
<1>2. Inv => CompletionMatchesTranscript
  BY <1>1 DEF CompletionMatchesTranscript
<1> QED
  BY <1>2, Invariance, PTL

LEMMA AtMostOne ==
    ASSUME NEW S, \A x, y \in S : x = y
    PROVE  Cardinality(S) <= 1
<1>1. CASE S = {}
  BY <1>1, FS_EmptySet
<1>2. CASE S # {}
  <2>1. PICK x \in S : TRUE
    BY <1>2
  <2>2. S = {x}
    BY <2>1
  <2> QED
    BY <2>2, FS_Singleton
<1> QED
  BY <1>1, <1>2

\* A task makes at most one version, however often its result is persisted.
LEMMA MakesOne ==
    ASSUME Inv, NEW t \in DOMAIN tasks
    PROVE  Cardinality(MadeBy(t)) <= 1
<1>1. t # 0 /\ tasks[t].round \in Rounds \cup {None}
      /\ (tasks[t].kind = "INTERVIEW_COMPREHENSIVE_ANALYZE" <=> tasks[t].round = None)
      /\ tasks[t].kind \in TaskKinds
  BY TaskColumns DEF InputExists, TaskRow
<1>2. CASE tasks[t].kind = "INTERVIEW_QUESTION_GENERATE"
  <2> DEFINE rows == questions[tasks[t].round].versions
  <2>1. /\ tasks[t].round \in Rounds /\ MadeBy(t) = {i \in DOMAIN rows : rows[i].task = t}
    BY <1>1, <1>2 DEF MadeBy, QuestionsBy
  <2>2. DOMAIN rows = 1..Len(rows)
    BY <2>1, QuestionColumns, LenProperties
  <2>3. \A i, j \in 1..Len(rows) : rows[i].task # 0 /\ rows[i].task = rows[j].task => i = j
    BY <2>1 DEF Inv, Makers, FromTasks
  <2> HIDE DEF rows
  <2> QED
    BY <1>1, <2>1, <2>2, <2>3, AtMostOne
<1>3. CASE tasks[t].kind = "INTERVIEW_ROUND_ANALYZE"
  <2> DEFINE rows == analysis[tasks[t].round].versions
  <2>1. /\ tasks[t].round \in Rounds /\ MadeBy(t) = {i \in DOMAIN rows : rows[i].task = t}
    BY <1>1, <1>3 DEF MadeBy, AnalysesBy
  <2>2. DOMAIN rows = 1..Len(rows)
    BY <2>1, AnalysisColumns, LenProperties
  <2>3. \A i, j \in 1..Len(rows) : rows[i].task # 0 /\ rows[i].task = rows[j].task => i = j
    BY <2>1 DEF Inv, Makers, FromTasks
  <2> HIDE DEF rows
  <2> QED
    BY <1>1, <2>1, <2>2, <2>3, AtMostOne
<1>4. CASE tasks[t].kind = "INTERVIEW_COMPREHENSIVE_ANALYZE"
  <2> DEFINE rows == comprehensive.versions
  <2>1. MadeBy(t) = {i \in DOMAIN rows : rows[i].task = t}
    BY <1>4 DEF MadeBy, ComprehensivesBy
  <2>2. DOMAIN rows = 1..Len(rows)
    BY LenProperties DEF Inv, TypeOK, Comprehensive
  <2>3. \A i, j \in 1..Len(rows) : rows[i].task # 0 /\ rows[i].task = rows[j].task => i = j
    BY DEF Inv, Makers, FromTasks
  <2> HIDE DEF rows
  <2> QED
    BY <1>1, <2>1, <2>2, <2>3, AtMostOne
<1> QED
  BY <1>1, <1>2, <1>3, <1>4 DEF TaskKinds

\* Evidence stands: confirmed texts, what analyses rest on, and one version per task.
THEOREM EvidenceKept == Spec => []EvidenceStands
<1>1. ASSUME Inv, NEW r \in Rounds
      PROVE  /\ \A i \in DOMAIN versions[r] : versions[r][i].type = "CONFIRMED" =>
                   versions[r][i].text = versions[r][versions[r][i].base].text
             /\ \A i \in DOMAIN analysis[r].versions :
                   /\ versions[r][analysis[r].versions[i].transcript].type = "CONFIRMED"
                   /\ versions[r][analysis[r].versions[i].transcript].text =
                         tasks[analysis[r].versions[i].task].text
  <2>1. DOMAIN versions[r] = 1..Len(versions[r]) /\ WellFormed(versions[r], transcript[r])
    BY <1>1, RoundFacts
  <2>2. DOMAIN analysis[r].versions = 1..Len(analysis[r].versions)
    BY <1>1, AnalysisColumns, LenProperties
  <2>3. Grounded(analysis[r], versions[r], tasks)
    BY <1>1 DEF Inv, Evidence
  <2> QED
    BY <2>1, <2>2, <2>3 DEF WellFormed, Grounded
<1>2. ASSUME Inv, NEW i \in DOMAIN comprehensive.versions,
             NEW ref \in comprehensive.versions[i].refs
      PROVE  ref[2] \in DOMAIN analysis[ref[1]].versions
  <2> DEFINE VS == [task : 1..MaxTasks, refs : SUBSET (Rounds \X (1..MaxTasks))]
  <2>1. comprehensive.versions \in Seq(VS)
    BY <1>2 DEF Inv, TypeOK, Comprehensive
  <2>2. i \in 1..Len(comprehensive.versions) /\ comprehensive.versions[i] \in VS
    <3> HIDE DEF VS
    <3>1. i \in 1..Len(comprehensive.versions)
      BY <1>2, <2>1, LenProperties
    <3> QED
      BY <2>1, <3>1, ElementOfSeq
  <2>3. ref[1] \in Rounds /\ ref[2] \in 1..Len(analysis[ref[1]].versions)
    BY <1>2, <2>2 DEF Inv, Evidence, RefsExist
  <2>4. DOMAIN analysis[ref[1]].versions = 1..Len(analysis[ref[1]].versions)
    BY <1>2, <2>3, AnalysisColumns, LenProperties
  <2> QED
    BY <2>3, <2>4
<1>3. Inv => EvidenceStands
  BY <1>1, <1>2, MakesOne DEF EvidenceStands
<1> QED
  BY <1>3, Invariance, PTL

\* What a person confirmed is what was on the screen.
THEOREM ApprovedWasSeen == Spec => []ApprovedAsSeen
<1>1. ASSUME Inv, NEW r \in Rounds
      PROVE  /\ \A i \in DOMAIN versions[r] :
                   versions[r][i].type = "CONFIRMED" => versions[r][i].text = versions[r][i].seen
             /\ questions[r].status = "READY" => questions[r].current = questions[r].seen
  <2>1. DOMAIN versions[r] = 1..Len(versions[r]) /\ WellFormed(versions[r], transcript[r])
    BY <1>1, RoundFacts
  <2> QED
    BY <1>1, <2>1 DEF WellFormed, Inv, Approvals
<1>2. Inv => ApprovedAsSeen
  BY <1>1 DEF ApprovedAsSeen
<1> QED
  BY <1>2, Invariance, PTL
-----------------------------------------------------------------------------
(* What is stale stays stale. *)

\* A version is confirmed, analysed or concluded after all that there are.
Grows ==
    /\ \A r \in Rounds : transcript'[r].confirmed = transcript[r].confirmed
                         \/ transcript'[r].confirmed > Len(versions[r])
    /\ AnalysesGrow(analysis, analysis')
    /\ Len(comprehensive.versions) <= Len(comprehensive'.versions)
    /\ \A i \in 1..Len(comprehensive.versions) :
          comprehensive'.versions[i] = comprehensive.versions[i]

LEMMA ResultsStayGrow ==
    ASSUME Inv, UNCHANGED <<analysis, comprehensive>>,
           \A r \in Rounds : transcript'[r].confirmed = transcript[r].confirmed
                             \/ transcript'[r].confirmed > Len(versions[r])
    PROVE  Grows
<1>1. Len(comprehensive.versions) \in Nat
  BY DEF Inv, TypeOK, Comprehensive
<1>2. AnalysesGrow(analysis, analysis') /\ comprehensive' = comprehensive
  BY AnalysesStay
<1> QED
  BY <1>1, <1>2 DEF Grows

LEMMA TranscriptStepGrows ==
    ASSUME Inv, NEW r \in Rounds, NEW c \in Clients, TranscriptStep(r, c) PROVE Grows
<1>1. UNCHANGED <<analysis, comprehensive>>
  BY DEF TranscriptStep, import_transcript, save_transcript_draft, create_transcript_draft,
     get_transcript_version, confirm_transcript_draft, complete_without_transcript, aiVars
<1>2. CASE UNCHANGED transcript
  BY <1>1, <1>2, ResultsStayGrow
<1>3. CASE create_transcript_draft(r)
  <2>1. transcript' = [transcript EXCEPT ![r] = [draft     |-> Len(versions[r]) + 1,
                                                 confirmed |-> transcript[r].confirmed]]
    BY <1>3 DEF create_transcript_draft
  <2>2. \A q \in Rounds : transcript'[q].confirmed = transcript[q].confirmed
    BY <2>1 DEF Inv, TypeOK
  <2> QED
    BY <1>1, <2>2, ResultsStayGrow
<1>4. CASE confirm_transcript_draft(c)
  <2> DEFINE q == screen[c].round
  <2>1. q \in Rounds /\ Len(versions[q]) \in Nat
    BY <1>4, EditableFacts, RoundFacts DEF confirm_transcript_draft
  <2>2. transcript' = [transcript EXCEPT ![q] = [draft |-> 0, confirmed |-> Len(versions[q]) + 1]]
    BY <1>4 DEF confirm_transcript_draft
  <2> HIDE DEF q
  <2>3. \A p \in Rounds : transcript'[p].confirmed = transcript[p].confirmed
                          \/ transcript'[p].confirmed > Len(versions[p])
    BY <2>1, <2>2 DEF Inv, TypeOK
  <2> QED
    BY <1>1, <2>3, ResultsStayGrow
<1> QED
  BY <1>2, <1>3, <1>4 DEF TranscriptStep, import_transcript, save_transcript_draft,
     get_transcript_version, complete_without_transcript, transcriptVars

LEMMA PersistAnalysisGrows ==
    ASSUME Inv, NEW t \in DOMAIN tasks, persist_analysis_generation_result(t),
           UNCHANGED transcript
    PROVE  Grows
<1> DEFINE r   == tasks[t].round
           a   == NewAnalysis(analysis[r], t, tasks[t].transcript)
           old == analysis[r].versions
           v   == [task |-> t, transcript |-> tasks[t].transcript]
           VS  == [task : 1..MaxTasks, transcript : Nat \ {0}]
<1>1. /\ r \in Rounds /\ t \in 1..MaxTasks
      /\ tasks[t].transcript \in 1..Len(versions[r])
  BY TaskColumns DEF persist_analysis_generation_result, InputExists
<1>2. tasks[t].transcript \in Nat \ {0}
  BY <1>1, RoundFacts
<1>3. v \in VS /\ old \in Seq(VS)
  BY <1>1, <1>2, AnalysisColumns
<1>4. a.versions = Append(old, v)
  BY DEF NewAnalysis
<1>5. analysis' = [analysis EXCEPT ![r] = a] /\ comprehensive' = comprehensive
  BY DEF persist_analysis_generation_result
<1> HIDE DEF VS, v
<1>6. /\ Len(a.versions) = Len(old) + 1 /\ Len(old) \in Nat
      /\ \A j \in 1..Len(old) : a.versions[j] = old[j]
  BY <1>3, <1>4, AppendProperties, LenProperties
<1> HIDE DEF a
<1>7. \A q \in Rounds : analysis'[q] = IF q = r THEN a ELSE analysis[q]
  BY <1>5 DEF Inv, TypeOK
<1>8. \A q \in Rounds : Len(analysis[q].versions) \in Nat
  BY AnalysisColumns
<1> HIDE DEF r
<1>9. AnalysesGrow(analysis, analysis')
  BY <1>6, <1>7, <1>8 DEF AnalysesGrow
<1>10. Len(comprehensive.versions) \in Nat
  BY DEF Inv, TypeOK, Comprehensive
<1> QED
  BY <1>5, <1>9, <1>10 DEF Grows

LEMMA PersistComprehensiveGrows ==
    ASSUME Inv, NEW t \in DOMAIN tasks, persist_comprehensive_analysis_result(t),
           UNCHANGED transcript
    PROVE  Grows
<1> DEFINE old == comprehensive.versions
           v   == [task |-> t, refs |-> tasks[t].refs]
           VS  == [task : 1..MaxTasks, refs : SUBSET (Rounds \X (1..MaxTasks))]
<1>1. v \in VS /\ old \in Seq(VS)
  BY TaskColumns DEF Inv, TypeOK, Comprehensive
<1>2. comprehensive'.versions = Append(old, v) /\ analysis' = analysis
  BY DEF persist_comprehensive_analysis_result
<1> HIDE DEF VS, v
<1>3. /\ Len(comprehensive'.versions) = Len(old) + 1 /\ Len(old) \in Nat
      /\ \A j \in 1..Len(old) : comprehensive'.versions[j] = old[j]
  BY <1>1, <1>2, AppendProperties, LenProperties
<1> QED
  BY <1>2, <1>3, AnalysesStay DEF Grows

LEMMA StepGrows == ASSUME Inv, [Next]_vars PROVE Grows
<1>1. ASSUME NEW r \in Rounds, RoundStep(r) PROVE Grows
  <2>1. UNCHANGED <<transcript, analysis, comprehensive>>
    BY <1>1 DEF RoundStep, finish_interview_round, cancel_interview_round,
       end_interview_abnormally, SetStatus, transcriptVars, aiVars
  <2> QED
    BY <2>1, ResultsStayGrow
<1>2. ASSUME NEW r \in Rounds, NEW c \in Clients, TranscriptStep(r, c) PROVE Grows
  BY <1>2, TranscriptStepGrows
<1>3. ASSUME NEW r \in Rounds, NEW c \in Clients, InterviewAiStep(r, c) PROVE Grows
  <2>1. UNCHANGED <<transcript, analysis, comprehensive>>
    BY <1>3 DEF InterviewAiStep, request_question_generation, list_question_versions,
       create_manual_question_version, confirm_question_set, request_analysis_generation,
       CreateTask, transcriptVars, aiVars
  <2> QED
    BY <2>1, ResultsStayGrow
<1>4. CASE request_comprehensive_analysis_generation
  <2>1. UNCHANGED <<transcript, analysis, comprehensive>>
    BY <1>4 DEF request_comprehensive_analysis_generation, CreateTask, transcriptVars
  <2> QED
    BY <2>1, ResultsStayGrow
<1>5. ASSUME NEW t \in DOMAIN tasks, TaskStep(t) PROVE Grows
  <2>1. UNCHANGED transcript
    BY <1>5 DEF TaskStep, Fail, retry_ai_task, cancel_ai_task, _after_task_success, transcriptVars
  <2>2. CASE UNCHANGED <<analysis, comprehensive>>
    BY <2>1, <2>2, ResultsStayGrow
  <2>3. CASE persist_analysis_generation_result(t)
    BY <2>1, <2>3, PersistAnalysisGrows
  <2>4. CASE persist_comprehensive_analysis_result(t)
    BY <2>1, <2>4, PersistComprehensiveGrows
  <2> QED
    BY <1>5, <2>2, <2>3, <2>4 DEF TaskStep, Fail, retry_ai_task, cancel_ai_task,
       _after_task_success, Reuse, persist_question_generation_result
<1>6. CASE UNCHANGED vars
  <2>1. UNCHANGED <<transcript, analysis, comprehensive>>
    BY <1>6 DEF vars
  <2> QED
    BY <2>1, ResultsStayGrow
<1> QED
  BY <1>1, <1>2, <1>3, <1>4, <1>5, <1>6 DEF Next

\* An analysis that is shown as stale is never shown as fresh again.
THEOREM StaleStays == Spec => StaleForGood
<1>1. ASSUME Inv, Inv', Grows, NEW r \in Rounds, NEW i \in 1..Len(analysis[r].versions),
             is_analysis_version_stale(r, i)
      PROVE  is_analysis_version_stale(r, i)'
  <2>1. /\ analysis'[r].versions[i] = analysis[r].versions[i]
        /\ analysis[r].versions[i].transcript # transcript[r].confirmed
    BY <1>1 DEF Grows, AnalysesGrow, is_analysis_version_stale
  <2>2. analysis[r].versions[i].transcript \in 1..Len(versions[r]) /\ Len(versions[r]) \in Nat
    BY <1>1, RoundFacts DEF Inv, Evidence, Grounded
  <2>3. transcript'[r].confirmed = transcript[r].confirmed
        \/ transcript'[r].confirmed > Len(versions[r])
    BY <1>1 DEF Grows
  <2> QED
    BY <2>1, <2>2, <2>3 DEF is_analysis_version_stale
<1>2. ASSUME Inv, Inv', Grows, NEW r \in Rounds
      PROVE  list_analysis_versions(r) \subseteq list_analysis_versions(r)'
  <2>1. /\ DOMAIN analysis[r].versions = 1..Len(analysis[r].versions)
        /\ DOMAIN analysis'[r].versions = 1..Len(analysis'[r].versions)
        /\ Len(analysis[r].versions) \in Nat /\ Len(analysis'[r].versions) \in Nat
    BY <1>2, LenProperties DEF Inv, TypeOK, RoundAnalysis
  <2>2. 1..Len(analysis[r].versions) \subseteq 1..Len(analysis'[r].versions)
    BY <1>2, <2>1 DEF Grows, AnalysesGrow
  <2>3. ASSUME NEW i \in 1..Len(analysis[r].versions), is_analysis_version_stale(r, i)
        PROVE  is_analysis_version_stale(r, i)'
    BY <1>1, <1>2, <2>3
  <2> QED
    BY <2>1, <2>2, <2>3 DEF list_analysis_versions
<1>3. ASSUME Inv, Inv', Grows
      PROVE  list_comprehensive_analysis \subseteq list_comprehensive_analysis'
  <2>1. /\ DOMAIN comprehensive.versions = 1..Len(comprehensive.versions)
        /\ DOMAIN comprehensive'.versions = 1..Len(comprehensive'.versions)
        /\ Len(comprehensive.versions) \in Nat /\ Len(comprehensive'.versions) \in Nat
    BY <1>3, LenProperties DEF Inv, TypeOK, Comprehensive
  <2>2. 1..Len(comprehensive.versions) \subseteq 1..Len(comprehensive'.versions)
    BY <1>3, <2>1 DEF Grows
  <2>3. ASSUME NEW i \in 1..Len(comprehensive.versions), is_comprehensive_version_stale(i)
        PROVE  is_comprehensive_version_stale(i)'
    <3>1. comprehensive'.versions[i] = comprehensive.versions[i]
      BY <1>3 DEF Grows
    <3>2. CASE comprehensive.versions[i].refs = {}
      BY <3>1, <3>2 DEF is_comprehensive_version_stale
    <3>3. CASE \E ref \in comprehensive.versions[i].refs :
                  \/ analysis[ref[1]].current # ref[2]
                  \/ is_analysis_version_stale(ref[1], ref[2])
      <4>1. PICK ref \in comprehensive.versions[i].refs :
                  \/ analysis[ref[1]].current # ref[2]
                  \/ is_analysis_version_stale(ref[1], ref[2])
        BY <3>3
      <4>2. ref[1] \in Rounds /\ ref[2] \in 1..Len(analysis[ref[1]].versions)
        <5>1. comprehensive.versions[i].refs \in SUBSET (Rounds \X (1..MaxTasks))
          <6> DEFINE VS == [task : 1..MaxTasks, refs : SUBSET (Rounds \X (1..MaxTasks))]
          <6>1. comprehensive.versions \in Seq(VS)
            BY <1>3 DEF Inv, TypeOK, Comprehensive
          <6>2. comprehensive.versions[i] \in VS
            <7> HIDE DEF VS
            <7> QED
              BY <6>1, ElementOfSeq
          <6> QED
            BY <6>2
        <5> QED
          BY <1>3, <4>1, <5>1 DEF Inv, Evidence, RefsExist
      <4>3. PICK q \in Rounds : q = ref[1] /\ ref[2] \in 1..Len(analysis[q].versions)
        BY <4>2
      <4>4. PICK j \in 1..Len(analysis[q].versions) : j = ref[2]
        BY <4>3
      <4>5. CASE analysis[q].current # j
        <5>1. /\ analysis[q].current = Len(analysis[q].versions)
              /\ analysis'[q].current = Len(analysis'[q].versions)
              /\ Len(analysis[q].versions) \in Nat /\ Len(analysis'[q].versions) \in Nat
              /\ Len(analysis[q].versions) <= Len(analysis'[q].versions)
          BY <1>3 DEF Inv, TypeOK, RoundAnalysis, Grows, AnalysesGrow
        <5>2. analysis'[q].current # j
          BY <4>5, <5>1
        <5> QED
          BY <3>1, <4>1, <4>3, <4>4, <5>2 DEF is_comprehensive_version_stale
      <4>6. CASE is_analysis_version_stale(q, j)
        <5>1. is_analysis_version_stale(q, j)'
          BY <1>1, <1>3, <4>6
        <5> QED
          BY <3>1, <4>1, <4>3, <4>4, <5>1
             DEF is_comprehensive_version_stale, is_analysis_version_stale
      <4> QED
        BY <4>1, <4>3, <4>4, <4>5, <4>6
    <3> QED
      BY <2>3, <3>2, <3>3 DEF is_comprehensive_version_stale
  <2> QED
    BY <2>1, <2>2, <2>3 DEF list_comprehensive_analysis
<1>4. Inv /\ Inv' /\ [Next]_vars =>
         [/\ \A r \in Rounds : list_analysis_versions(r) \subseteq list_analysis_versions(r)'
          /\ list_comprehensive_analysis \subseteq list_comprehensive_analysis']_vars
  BY <1>2, <1>3, StepGrows
<1> QED
  BY <1>4, Invariance, PTL DEF Spec, StaleForGood
=============================================================================
