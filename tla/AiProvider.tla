----------------------------- MODULE AiProvider -----------------------------
(***************************************************************************)
(* What one provider call of an AI task can end in: `_run_provider`        *)
(* (backend/app/workers/ai_tasks.py) over the Dify and the mock providers  *)
(* (backend/app/services/ai_providers), and what the worker makes of it.   *)
(*                                                                         *)
(* An outcome is an error code and a category.  Settings and the replies   *)
(* of the workflows are not known in advance, so the operators that choose *)
(* between them return the set of outcomes they may end in; AiTasks picks  *)
(* one.  An answer of a workflow is classified by what normalisation and   *)
(* validation make of it.                                                  *)
(*                                                                         *)
(* Left out: prompts and outputs, error texts, run ids, redaction.  The    *)
(* error text of a failed HTTP call is not one of a flaky answer.          *)
(***************************************************************************)
EXTENDS Integers

InterviewTypes == {"INTERVIEW_QUESTION_GENERATE", "INTERVIEW_ROUND_ANALYZE",
                   "INTERVIEW_COMPREHENSIVE_ANALYZE"}
OtherTypes == {"JD_PARSE", "SCORE_DIMENSION_RECOMMEND", "RESUME_PARSE", "RESUME_SCORE"}

Failure(code, category) == [code |-> code, category |-> category]
Success == Failure("none", "none")
Rejected(category) == Failure("output_validation_failed", category)

HttpErrors == {"http_401", "http_403", "http_4xx", "http_5xx"}

\* An answer is accepted, fails validation (for the known unstable reasons of the
\* dimension workflow: flaky), is an empty description, or holds dimensions where a
\* description was asked for.
Answers == {"valid", "invalid", "flaky", "empty", "scores"}

Replies == {"unconfigured", "timeout", "network_error"} \cup HttpErrors \cup Answers

classify_http_error(status) ==
    IF status \in {"http_401", "http_403"} THEN Failure("auth_failed", "non_retryable")
    ELSE IF status = "http_4xx"            THEN Failure("invalid_params", "non_retryable")
    ELSE Failure("provider_5xx", "retryable")

_post_workflow(reply) ==
    IF reply = "unconfigured" THEN Failure("provider_misconfigured", "non_retryable")
    ELSE IF reply \in {"timeout", "network_error"} THEN Failure(reply, "retryable")
    ELSE IF reply \in HttpErrors THEN classify_http_error(reply)
    ELSE Success

-----------------------------------------------------------------------------
(* JD_PARSE: the description workflow, then the dimension workflow, each     *)
(* called a second time at most.                                             *)

\* The frozen raw_jd_text is never blank, so an empty description is asked for again.
jd_try_again(reply) ==
    \/ _post_workflow(reply).category = "retryable"
    \/ reply \in {"invalid", "flaky", "empty"}

LastTry(tries, again) == IF again THEN tries[2] ELSE tries[1]

jd_structure(tries) ==
    LET last == LastTry(tries, jd_try_again(tries[1])) IN
    IF jd_try_again(last)     THEN Rejected("retryable")
    ELSE IF last = "scores"   THEN Rejected("non_retryable")
    ELSE _post_workflow(last)

score_try_again(reply) ==
    \/ _post_workflow(reply).category = "retryable"
    \/ reply = "flaky"

\* Whatever went wrong in the second workflow is reported as a rejected output.
score_dimensions(tries) ==
    LET last == LastTry(tries, score_try_again(tries[1])) IN
    IF last = "valid" THEN Success
    ELSE Rejected(IF last = "flaky" THEN "retryable" ELSE "non_retryable")

_run_dify_jd_parse_chain(first, second) ==
    IF jd_structure(first) = Success THEN score_dimensions(second) ELSE jd_structure(first)

-----------------------------------------------------------------------------
(* The other types: one call. *)

validate_ai_result(type, reply) ==
    IF reply = "valid" THEN Success
    ELSE Rejected(IF type = "SCORE_DIMENSION_RECOMMEND" /\ reply = "flaky"
                  THEN "retryable" ELSE "non_retryable")

CallOnce(type, reply) ==
    IF _post_workflow(reply) = Success THEN validate_ai_result(type, reply)
                                       ELSE _post_workflow(reply)

\* The mock answers from the snapshot; any exception is a rejected output.
run_mock == {Success, Rejected("non_retryable")}

\* dify: AI_PROVIDER; the others are what the question gate and the keys depend on.
Settings == [dify : BOOLEAN, development : BOOLEAN, live : BOOLEAN,
             key : BOOLEAN, workflow : BOOLEAN, authorized : BOOLEAN]

interview_question_live_http_allowed(s) ==
    IF ~s.development \/ ~s.live THEN "mock"
    ELSE IF s.key /\ s.workflow /\ s.authorized THEN "http" ELSE "refused"

_resume_dify_configured(type, s) == s.key /\ (type = "RESUME_SCORE" => s.workflow)

JdParseOutcomes ==
    {_run_dify_jd_parse_chain(first, second) : first, second \in [1..2 -> Replies]}

AnyReply(type) == {CallOnce(type, reply) : reply \in Replies}

live_question(gate) ==
    IF gate = "mock" THEN run_mock
    ELSE IF gate = "refused" THEN {Failure("interview_question_live", "non_retryable")}
    ELSE AnyReply("INTERVIEW_QUESTION_GENERATE")

run_dify(type, s) ==
    IF type = "INTERVIEW_QUESTION_GENERATE"
    THEN live_question(interview_question_live_http_allowed(s))
    ELSE IF \/ type \in InterviewTypes
            \/ type \in {"RESUME_PARSE", "RESUME_SCORE"} /\ ~_resume_dify_configured(type, s)
    THEN run_mock
    ELSE IF type = "JD_PARSE" THEN JdParseOutcomes ELSE AnyReply(type)

\* Frozen interview input that no longer validates is rejected without a call.
_prepare_stage8_provider_input(type) ==
    IF type \in InterviewTypes THEN {Rejected("non_retryable")} ELSE {}

_run_provider(type) ==
    _prepare_stage8_provider_input(type)
        \cup UNION {IF s.dify THEN run_dify(type, s) ELSE run_mock : s \in Settings}

-----------------------------------------------------------------------------
(* The worker looks at the code first: a rejected output is final whatever   *)
(* its category says.                                                        *)

Verdict(outcome) ==
    IF outcome = Success THEN "ok"
    ELSE IF outcome.code = "output_validation_failed" THEN "output_invalid"
    ELSE outcome.category

Verdicts(type) == {Verdict(outcome) : outcome \in _run_provider(type)}

InterviewVerdicts == UNION {Verdicts(type) : type \in InterviewTypes}
OtherVerdicts     == UNION {Verdicts(type) : type \in OtherTypes}
=============================================================================
