------------------------- MODULE InterviewEvidence -------------------------
(***************************************************************************)
(* What the interviews of one application leave behind, and what the AI    *)
(* makes of it:                                                            *)
(*   - transcripts: original, drafts and confirmed versions of a round     *)
(*     (backend/app/services/interview_transcripts.py);                    *)
(*   - question sets of a round (interview_questions.py);                  *)
(*   - analyses of a round's confirmed transcript (interview_analyses.py); *)
(*   - comprehensive analyses of the application, made from the current    *)
(*     analyses of its rounds (comprehensive_analyses.py).                 *)
(*                                                                         *)
(* Each handler locks the row whose version numbers it takes (the round,   *)
(* the transcript, the application or the comprehensive analysis), so one  *)
(* request is one action.  The interleavings are between requests: a       *)
(* client acts on what it had on its screen, and an AI task is persisted   *)
(* long after its input was frozen, possibly twice, or after a retry of    *)
(* a failed one.  The reads of a comprehensive request are one action      *)
(* too: a change that lands among them makes the result stale, exactly as  *)
(* when it lands while the task runs.                                      *)
(*                                                                         *)
(* A refused request changes nothing and is no action.  A definition whose *)
(* name ends in _Suffix is a faulty variant of a later one.                *)
(*                                                                         *)
(* A text is the set of the segments it includes in the analysis; their    *)
(* order, speakers, times and source references are left out.  So are      *)
(* permissions, names, encryption, idempotency keys (the locks and the     *)
(* tests below already refuse a second run), the delivery of tasks to      *)
(* workers (AiTasks), and what the model answers.                          *)
(***************************************************************************)
EXTENDS Integers, Sequences, FiniteSets, FiniteSetsExt, TLC

CONSTANTS
    Rounds,         \* the interview rounds of the application
    Clients,        \* screens with something open
    Segments,       \* segments a transcript may include in the analysis
    None,           \* nothing
    MaxDrafts,      \* bound: drafts of a transcript
    MaxSaves,       \* bound: version counter of a draft
    MaxQuestions,   \* bound: versions of a question set
    MaxTasks        \* bound: AI tasks

ASSUME NoneAssumption   == None \notin Rounds
ASSUME BoundsAssumption == MaxDrafts \in Nat /\ MaxSaves \in Nat \ {0} /\ MaxTasks \in Nat
                           /\ MaxQuestions \in Nat

VARIABLES
    round,          \* round: its status and transcript_completion_mode
    versions,       \* round: interview_transcript_versions, the first one the original
    transcript,     \* round: current_draft and current_confirmed, positions in versions or 0
    questions,      \* round: interview_question_sets and their versions
    analysis,       \* round: interview_round_analyses and their versions
    comprehensive,  \* application_comprehensive_analyses and their versions
    tasks,          \* ai_tasks of the three kinds, in the order of creation
    screen          \* client: None, or what it has open

vars == <<round, versions, transcript, questions, analysis, comprehensive, tasks, screen>>

Texts == SUBSET Segments

\* SCHEDULED stands for SCHEDULED, CONFIRMED and IN_PROGRESS: the questions may change.
Statuses == {"SCHEDULED", "PENDING_TRANSCRIPT", "COMPLETED", "CANCELLED", "ENDED_ABNORMALLY"}

CompletionModes == {"CONFIRMED_TRANSCRIPT", "WITHOUT_TRANSCRIPT"}

RoundRow == [status : Statuses, mode : CompletionModes \cup {None}]

VersionTypes == {"ORIGINAL", "DRAFT", "CONFIRMED"}

\* seen is not a column: the text that was on the screen of whoever confirmed it.
VersionRow == [type : VersionTypes, no : Nat \ {0}, status : {"EDITING", "IMMUTABLE"},
               text : Texts, base : Nat, version : 1..MaxSaves, seen : {None} \cup Texts]

TranscriptRow == [draft : Nat, confirmed : Nat]

TaskKinds == {"INTERVIEW_QUESTION_GENERATE", "INTERVIEW_ROUND_ANALYZE",
              "INTERVIEW_COMPREHENSIVE_ANALYZE"}

\* pending and running are one: the task is in flight.  late: it was retried, so the
\* worker it was recovered from may still be alive, also when it is then cancelled.
TaskRow == [kind : TaskKinds, round : Rounds \cup {None}, transcript : Nat,
            text : {None} \cup Texts, refs : SUBSET (Rounds \X (1..MaxTasks)),
            status : {"in_flight", "failed", "cancelled", "succeeded"}, late : BOOLEAN]

QuestionSet   == [status : {"DRAFT", "READY"}, current : Nat, seen : Nat,
                  versions : Seq([source : {"AI_GENERATED", "MANUAL_EDIT"}, task : Nat])]
RoundAnalysis == [current : Nat, versions : Seq([task : 1..MaxTasks, transcript : Nat \ {0}])]
Comprehensive == [current : Nat,
                  versions : Seq([task : 1..MaxTasks, refs : SUBSET (Rounds \X (1..MaxTasks))])]

\* A draft, with the version counter and the text it was read with; a question set.
DraftScreen     == [kind : {"draft"}, round : Rounds, id : Nat \ {0}, version : 1..MaxSaves,
                    text : Texts]
QuestionsScreen == [kind : {"questions"}, round : Rounds, id : Nat \ {0}]

ASSUME NoneIsNoRow == None \notin DraftScreen \cup QuestionsScreen \cup CompletionModes
-----------------------------------------------------------------------------
(* What the handlers look up. *)

get_transcript_by_round_id(r) == versions[r] # <<>>

get_editing_draft(r) ==
    {i \in DOMAIN versions[r] : versions[r][i].type = "DRAFT" /\ versions[r][i].status = "EDITING"}

next_version_no_FromZero(r, type) ==
    Max({0} \cup {versions[r][i].no : i \in {j \in DOMAIN versions[r] : versions[r][j].type = type}})

next_version_no(r, type) ==
    Max({0} \cup {versions[r][i].no : i \in {j \in DOMAIN versions[r] : versions[r][j].type = type}}) + 1

_require_mutable_status(r) == round[r].status = "SCHEDULED"

is_analysis_version_stale(r, i) ==
    analysis[r].versions[i].transcript # transcript[r].confirmed

\* The rounds a comprehensive analysis leaves out, for whatever reason.
_gap_for_round(r) ==
    \/ round[r].status # "COMPLETED"
    \/ round[r].mode # "CONFIRMED_TRANSCRIPT"
    \/ transcript[r].confirmed = 0
    \/ analysis[r].current = 0
    \/ is_analysis_version_stale(r, analysis[r].current)

build_coverage_report == {r \in Rounds : ~_gap_for_round(r)}

build_round_ref(r) == <<r, analysis[r].current>>

_collect_application_context == {build_round_ref(r) : r \in build_coverage_report}

is_comprehensive_version_stale(i) ==
    \/ comprehensive.versions[i].refs = {}
    \/ \E ref \in comprehensive.versions[i].refs :
          \/ analysis[ref[1]].current # ref[2]
          \/ is_analysis_version_stale(ref[1], ref[2])

find_inflight_task(kind, r) ==
    {t \in DOMAIN tasks : tasks[t].kind = kind /\ tasks[t].round = r /\ tasks[t].status = "in_flight"}

\* The segments of a version that the analysis is given.
_included_plaintext_segments(r, i) == versions[r][i].text

\* What the lists of versions show as stale.
list_analysis_versions(r) ==
    {i \in DOMAIN analysis[r].versions : is_analysis_version_stale(r, i)}

list_comprehensive_analysis ==
    {i \in DOMAIN comprehensive.versions : is_comprehensive_version_stale(i)}
-----------------------------------------------------------------------------
(* Rounds, as Interviews changes them. *)

aiVars         == <<questions, analysis, comprehensive, tasks>>
transcriptVars == <<versions, transcript>>

SetStatus(r, from, to) ==
    /\ round[r].status \in from
    /\ round' = [round EXCEPT ![r] = [status |-> to, mode |-> round[r].mode]]
    /\ UNCHANGED <<transcriptVars, aiVars, screen>>

finish_interview_round(r) == SetStatus(r, {"SCHEDULED"}, "PENDING_TRANSCRIPT")
cancel_interview_round(r) == SetStatus(r, {"SCHEDULED"}, "CANCELLED")

\* Its check is as old as its first read (Interviews!CommitEnd): it may end a
\* round that was finished, completed or cancelled in the meantime.
end_interview_abnormally(r) ==
    SetStatus(r, {"SCHEDULED", "PENDING_TRANSCRIPT", "COMPLETED", "CANCELLED"},
              "ENDED_ABNORMALLY")
-----------------------------------------------------------------------------
(* Transcripts. *)

Version(type, no, status, text, base, seen) ==
    [type |-> type, no |-> no, status |-> status, text |-> text, base |-> base,
     version |-> 1, seen |-> seen]

\* preview_transcript stores nothing; the import takes the segments the client sends.
import_transcript(r, text) ==
    /\ round[r].status = "PENDING_TRANSCRIPT"
    /\ ~get_transcript_by_round_id(r)
    /\ versions' = [versions EXCEPT ![r] = <<Version("ORIGINAL", 1, "IMMUTABLE", text, 0, None)>>]
    /\ UNCHANGED <<round, transcript, aiVars, screen>>

create_transcript_draft(r) ==
    /\ get_transcript_by_round_id(r)
    /\ round[r].status \in {"PENDING_TRANSCRIPT", "COMPLETED"}
    /\ get_editing_draft(r) = {}
    /\ next_version_no(r, "DRAFT") <= MaxDrafts
    /\ LET base == IF transcript[r].confirmed # 0 THEN transcript[r].confirmed ELSE 1 IN
       versions' = [versions EXCEPT ![r] = Append(versions[r],
                       Version("DRAFT", next_version_no(r, "DRAFT"), "EDITING",
                               versions[r][base].text, base, None))]
    /\ transcript' = [transcript EXCEPT ![r] = [draft     |-> Len(versions[r]) + 1,
                                                 confirmed |-> transcript[r].confirmed]]
    /\ UNCHANGED <<round, aiVars, screen>>

\* get_transcript_version: the client has a draft on its screen.
get_transcript_version(c, r) ==
    /\ screen[c] = None
    /\ \E i \in get_editing_draft(r) :
          screen' = [screen EXCEPT ![c] = [kind |-> "draft", round |-> r, id |-> i,
                        version |-> versions[r][i].version, text |-> versions[r][i].text]]
    /\ UNCHANGED <<round, transcriptVars, aiVars>>

Showing(c, kind) == screen[c] # None /\ screen[c].kind = kind

Close(c) == screen' = [screen EXCEPT ![c] = None]

Editable_AnyVersion(c) ==
    Showing(c, "draft") /\ versions[screen[c].round][screen[c].id].status = "EDITING"

\* An EDITING draft, and the version the client has seen.
Editable(c) ==
    /\ Showing(c, "draft")
    /\ LET row == versions[screen[c].round][screen[c].id] IN
       row.status = "EDITING" /\ row.version = screen[c].version

Saved(row, text) == [row EXCEPT !.text = text, !.version = row.version + 1]

save_transcript_draft(c, text) ==
    /\ Editable(c)
    /\ screen[c].version < MaxSaves
    /\ LET r == screen[c].round
           i == screen[c].id
       IN versions' = [versions EXCEPT ![r] =
              [versions[r] EXCEPT ![i] = Saved(versions[r][i], text)]]
    /\ Close(c)
    /\ UNCHANGED <<round, transcript, aiVars>>

Frozen_StillEditing(row) == row

Frozen(row) == [row EXCEPT !.status = "IMMUTABLE"]

_validate_confirm_segments(text) == text # {}

confirm_transcript_draft(c) ==
    /\ Editable(c)
    /\ _validate_confirm_segments(versions[screen[c].round][screen[c].id].text)
    /\ LET r == screen[c].round
           i == screen[c].id
       IN /\ versions' = [versions EXCEPT ![r] =
                Append([versions[r] EXCEPT ![i] = Frozen(versions[r][i])],
                       Version("CONFIRMED", next_version_no(r, "CONFIRMED"), "IMMUTABLE",
                               versions[r][i].text, i, screen[c].text))]
          /\ transcript' = [transcript EXCEPT ![r] = [draft |-> 0, confirmed |-> Len(versions[r]) + 1]]
          /\ round' = [round EXCEPT ![r] =
                [status |-> IF round[r].status = "PENDING_TRANSCRIPT" THEN "COMPLETED"
                                                                     ELSE round[r].status,
                 mode   |-> "CONFIRMED_TRANSCRIPT"]]
    /\ Close(c)
    /\ UNCHANGED aiVars

complete_without_transcript_Unchecked(r) ==
    /\ round[r].status = "PENDING_TRANSCRIPT"
    /\ round' = [round EXCEPT ![r] = [status |-> "COMPLETED", mode |-> "WITHOUT_TRANSCRIPT"]]
    /\ UNCHANGED <<transcriptVars, aiVars, screen>>

complete_without_transcript(r) ==
    /\ round[r].status = "PENDING_TRANSCRIPT"
    /\ ~get_transcript_by_round_id(r)
    /\ round' = [round EXCEPT ![r] = [status |-> "COMPLETED", mode |-> "WITHOUT_TRANSCRIPT"]]
    /\ UNCHANGED <<transcriptVars, aiVars, screen>>
-----------------------------------------------------------------------------
(* AI tasks: the input is frozen in the row when the task is created. *)

CreateTask(kind, r, i, text, refs) ==
    /\ Len(tasks) < MaxTasks
    /\ find_inflight_task(kind, r) = {}
    /\ tasks' = Append(tasks, [kind |-> kind, round |-> r, transcript |-> i, text |-> text,
                               refs |-> refs, status |-> "in_flight", late |-> FALSE])
    /\ UNCHANGED <<round, transcriptVars, questions, analysis, comprehensive, screen>>

request_question_generation(r) ==
    /\ _require_mutable_status(r)
    /\ CreateTask("INTERVIEW_QUESTION_GENERATE", r, 0, None, {})

request_analysis_generation(r) ==
    /\ round[r].status = "COMPLETED"
    /\ round[r].mode = "CONFIRMED_TRANSCRIPT"
    /\ transcript[r].confirmed # 0
    /\ _included_plaintext_segments(r, transcript[r].confirmed) # {}
    /\ CreateTask("INTERVIEW_ROUND_ANALYZE", r, transcript[r].confirmed,
                  _included_plaintext_segments(r, transcript[r].confirmed), {})

request_comprehensive_analysis_generation ==
    /\ build_coverage_report # {}
    /\ CreateTask("INTERVIEW_COMPREHENSIVE_ANALYZE", None, 0, None, _collect_application_context)

Settled(row, status) ==
    [row EXCEPT !.status = status, !.late = row.late /\ status = "cancelled"]

Settle(t, status) == tasks' = [tasks EXCEPT ![t] = Settled(tasks[t], status)]

\* The provider fails, its answer is refused, or the task is recovered from a dead worker.
Fail(t) ==
    /\ tasks[t].status = "in_flight"
    /\ Settle(t, "failed")
    /\ UNCHANGED <<round, transcriptVars, questions, analysis, comprehensive, screen>>

Retried(row) == [row EXCEPT !.status = "in_flight", !.late = TRUE]

\* The same row with the same input, whatever has been requested since.
retry_ai_task(t) ==
    /\ tasks[t].status = "failed"
    /\ tasks' = [tasks EXCEPT ![t] = Retried(tasks[t])]
    /\ UNCHANGED <<round, transcriptVars, questions, analysis, comprehensive, screen>>

cancel_ai_task(t) ==
    /\ tasks[t].status = "in_flight"
    /\ Settle(t, "cancelled")
    /\ UNCHANGED <<round, transcriptVars, questions, analysis, comprehensive, screen>>

QuestionsBy(t) ==
    {i \in DOMAIN questions[tasks[t].round].versions :
        questions[tasks[t].round].versions[i].task = t}

AnalysesBy(t) ==
    {i \in DOMAIN analysis[tasks[t].round].versions :
        analysis[tasks[t].round].versions[i].task = t}

ComprehensivesBy(t) ==
    {i \in DOMAIN comprehensive.versions : comprehensive.versions[i].task = t}

\* The versions a task has made so far.
MadeBy(t) ==
    IF tasks[t].kind = "INTERVIEW_QUESTION_GENERATE" THEN QuestionsBy(t)
    ELSE IF tasks[t].kind = "INTERVIEW_ROUND_ANALYZE" THEN AnalysesBy(t)
    ELSE ComprehensivesBy(t)

\* A faulty variant: the version found is made the current one again.
Reuse_MakeCurrent(t) ==
    \/ /\ tasks[t].kind = "INTERVIEW_ROUND_ANALYZE"
       /\ analysis' = [analysis EXCEPT ![tasks[t].round].current = Max(MadeBy(t))]
       /\ UNCHANGED <<questions, comprehensive>>
    \/ /\ tasks[t].kind # "INTERVIEW_ROUND_ANALYZE"
       /\ UNCHANGED <<questions, analysis, comprehensive>>

Reuse(t) == UNCHANGED <<questions, analysis, comprehensive>>

NewQuestions_StatusKept(q, source, t) ==
    [q EXCEPT !.versions = Append(@, [source |-> source, task |-> t]),
              !.current = Len(q.versions) + 1]

\* Q(n+1) is current, and nobody has confirmed it.
NewQuestions(q, source, t) ==
    [status |-> "DRAFT", current |-> Len(q.versions) + 1, seen |-> 0,
     versions |-> Append(q.versions, [source |-> source, task |-> t])]

\* Whatever the round's status has become.
persist_question_generation_result(t) ==
    /\ tasks[t].kind = "INTERVIEW_QUESTION_GENERATE"
    /\ LET r == tasks[t].round IN
       questions' = [questions EXCEPT ![r] = NewQuestions(questions[r], "AI_GENERATED", t)]
    /\ UNCHANGED <<analysis, comprehensive>>

\* The segments still say what they said when the input was frozen.
_segments_from_refs(t) ==
    _included_plaintext_segments(tasks[t].round, tasks[t].transcript) = tasks[t].text

NewAnalysis(a, t, i) ==
    [current  |-> Len(a.versions) + 1,
     versions |-> Append(a.versions, [task |-> t, transcript |-> i])]

\* Current, even when another transcript version was confirmed in the meantime.
persist_analysis_generation_result(t) ==
    /\ tasks[t].kind = "INTERVIEW_ROUND_ANALYZE"
    /\ _segments_from_refs(t)
    /\ LET r == tasks[t].round IN
       analysis' = [analysis EXCEPT ![r] = NewAnalysis(analysis[r], t, tasks[t].transcript)]
    /\ UNCHANGED <<questions, comprehensive>>

persist_comprehensive_analysis_result(t) ==
    /\ tasks[t].kind = "INTERVIEW_COMPREHENSIVE_ANALYZE"
    /\ comprehensive' = [current  |-> Len(comprehensive.versions) + 1,
                         versions |-> Append(comprehensive.versions,
                                             [task |-> t, refs |-> tasks[t].refs])]
    /\ UNCHANGED <<questions, analysis>>

\* A worker may have the task: it ends what its session's copy says is running, also when
\* the task was recovered as failed, has been done by another (AiTasks), or was retried
\* and cancelled.
HasWorker(t) == tasks[t].status = "cancelled" => tasks[t].late

_after_task_success_NoLookup(t) ==
    /\ HasWorker(t)
    /\ \/ persist_question_generation_result(t)
       \/ persist_analysis_generation_result(t)
       \/ persist_comprehensive_analysis_result(t)
    /\ Settle(t, "succeeded")
    /\ UNCHANGED <<round, transcriptVars, screen>>

_after_task_success(t) ==
    /\ HasWorker(t)
    /\ \/ MadeBy(t) # {} /\ Reuse(t)
       \/ MadeBy(t) = {} /\ persist_question_generation_result(t)
       \/ MadeBy(t) = {} /\ persist_analysis_generation_result(t)
       \/ MadeBy(t) = {} /\ persist_comprehensive_analysis_result(t)
    /\ Settle(t, "succeeded")
    /\ UNCHANGED <<round, transcriptVars, screen>>
-----------------------------------------------------------------------------
(* Questions edited and confirmed by people. *)

list_question_versions(c, r) ==
    /\ screen[c] = None
    /\ questions[r].current # 0
    /\ screen' = [screen EXCEPT ![c] = [kind |-> "questions", round |-> r,
                                        id |-> questions[r].current]]
    /\ UNCHANGED <<round, transcriptVars, aiVars>>

ExpectedCurrent(c) ==
    /\ Showing(c, "questions")
    /\ _require_mutable_status(screen[c].round)
    /\ questions[screen[c].round].current = screen[c].id

create_manual_question_version(c) ==
    /\ ExpectedCurrent(c)
    /\ Len(questions[screen[c].round].versions) < MaxQuestions
    /\ LET r == screen[c].round IN
       questions' = [questions EXCEPT ![r] = NewQuestions(questions[r], "MANUAL_EDIT", 0)]
    /\ Close(c)
    /\ UNCHANGED <<round, transcriptVars, analysis, comprehensive, tasks>>

Approved(q, id) == [q EXCEPT !.status = "READY", !.seen = id]

confirm_question_set(c) ==
    /\ ExpectedCurrent(c)
    /\ LET r == screen[c].round IN
       questions' = [questions EXCEPT ![r] = Approved(questions[r], screen[c].id)]
    /\ Close(c)
    /\ UNCHANGED <<round, transcriptVars, analysis, comprehensive, tasks>>
-----------------------------------------------------------------------------
Init ==
    /\ round = [r \in Rounds |-> [status |-> "SCHEDULED", mode |-> None]]
    /\ versions = [r \in Rounds |-> <<>>]
    /\ transcript = [r \in Rounds |-> [draft |-> 0, confirmed |-> 0]]
    /\ questions = [r \in Rounds |-> [status |-> "DRAFT", current |-> 0, seen |-> 0, versions |-> <<>>]]
    /\ analysis = [r \in Rounds |-> [current |-> 0, versions |-> <<>>]]
    /\ comprehensive = [current |-> 0, versions |-> <<>>]
    /\ tasks = <<>>
    /\ screen = [c \in Clients |-> None]

RoundStep(r) ==
    \/ finish_interview_round(r)
    \/ cancel_interview_round(r)
    \/ end_interview_abnormally(r)

TranscriptStep(r, c) ==
    \/ \E text \in Texts : import_transcript(r, text) \/ save_transcript_draft(c, text)
    \/ create_transcript_draft(r)
    \/ get_transcript_version(c, r)
    \/ confirm_transcript_draft(c)
    \/ complete_without_transcript(r)

InterviewAiStep(r, c) ==
    \/ request_question_generation(r)
    \/ list_question_versions(c, r)
    \/ create_manual_question_version(c)
    \/ confirm_question_set(c)
    \/ request_analysis_generation(r)

TaskStep(t) == Fail(t) \/ retry_ai_task(t) \/ cancel_ai_task(t) \/ _after_task_success(t)

Next ==
    \/ \E r \in Rounds : RoundStep(r)
    \/ \E r \in Rounds, c \in Clients : TranscriptStep(r, c) \/ InterviewAiStep(r, c)
    \/ request_comprehensive_analysis_generation
    \/ \E t \in DOMAIN tasks : TaskStep(t)

Spec == Init /\ [][Next]_vars
-----------------------------------------------------------------------------
(* Properties. *)

\* Every row has the columns of its table; current rows and references exist.
TypeOK ==
    /\ round \in [Rounds -> RoundRow]
    /\ versions \in [Rounds -> Seq(VersionRow)]
    /\ transcript \in [Rounds -> TranscriptRow]
    /\ questions \in [Rounds -> QuestionSet]
    /\ analysis \in [Rounds -> RoundAnalysis]
    /\ comprehensive \in Comprehensive
    /\ tasks \in Seq(TaskRow)
    /\ screen \in [Clients -> DraftScreen \cup QuestionsScreen \cup {None}]
    /\ \A r \in Rounds :
          /\ transcript[r].draft \in {0} \cup DOMAIN versions[r]
          /\ transcript[r].confirmed \in {0} \cup DOMAIN versions[r]
          /\ questions[r].current = Len(questions[r].versions)
          /\ analysis[r].current = Len(analysis[r].versions)
    /\ comprehensive.current = Len(comprehensive.versions)

\* How a round is completed agrees with its transcript: without one there never is
\* a transcript, with one its confirmed version is the last one confirmed, the draft
\* being edited is the current draft, and only a completed round has analyses.
CompletionMatchesTranscript ==
    \A r \in Rounds :
        /\ round[r].status = "COMPLETED" => round[r].mode # None
        /\ round[r].mode = "WITHOUT_TRANSCRIPT" => versions[r] = <<>>
        /\ (round[r].mode = "CONFIRMED_TRANSCRIPT") <=> (transcript[r].confirmed # 0)
        /\ transcript[r].confirmed =
              Max({0} \cup {i \in DOMAIN versions[r] : versions[r][i].type = "CONFIRMED"})
        /\ get_editing_draft(r) = {transcript[r].draft} \ {0}
        /\ analysis[r].versions # <<>> => round[r].mode = "CONFIRMED_TRANSCRIPT"

\* Evidence stands: a confirmed version says what its draft says for good, an analysis
\* rests on a confirmed version that says what the task froze, a comprehensive analysis
\* on analyses that exist, and no task makes two versions.
EvidenceStands ==
    /\ \A r \in Rounds :
          /\ \A i \in DOMAIN versions[r] : versions[r][i].type = "CONFIRMED" =>
                versions[r][i].text = versions[r][versions[r][i].base].text
          /\ \A i \in DOMAIN analysis[r].versions :
                LET v == analysis[r].versions[i] IN
                /\ versions[r][v.transcript].type = "CONFIRMED"
                /\ versions[r][v.transcript].text = tasks[v.task].text
          /\ \A i \in DOMAIN comprehensive.versions :
                \A ref \in comprehensive.versions[i].refs :
                    ref[2] \in DOMAIN analysis[ref[1]].versions
    /\ \A t \in DOMAIN tasks : Cardinality(MadeBy(t)) <= 1

\* What a person confirmed is what was on the screen: a confirmed transcript says what
\* its confirmer read, and a READY question set is at the version that was confirmed,
\* however many others saved, edited or generated meanwhile.
ApprovedAsSeen ==
    \A r \in Rounds :
        /\ \A i \in DOMAIN versions[r] :
              versions[r][i].type = "CONFIRMED" => versions[r][i].text = versions[r][i].seen
        /\ questions[r].status = "READY" => questions[r].current = questions[r].seen

\* An analysis that is shown as stale is never shown as fresh again, whatever late or
\* repeated result is persisted: a decision may rely on the mark.
StaleForGood ==
    [][/\ \A r \in Rounds : list_analysis_versions(r) \subseteq list_analysis_versions(r)'
       /\ list_comprehensive_analysis \subseteq list_comprehensive_analysis']_vars
=============================================================================
