----------------------------- MODULE Interviews -----------------------------
(***************************************************************************)
(* The interview rounds of one candidate, their schedules and the          *)
(* invitations about them (backend/app/services/interviews.py,             *)
(* interview_state.py, interview_conflicts.py, invitations.py).            *)
(*                                                                         *)
(* Most handlers lock the round they change (SELECT ... FOR UPDATE) and    *)
(* are one action, enabled while nobody holds the row.  Three take two     *)
(* steps:                                                                  *)
(*   - create_interview_round locks nothing: it reads the last sequence    *)
(*     number and the calendar, and inserts later;                         *)
(*   - schedule and reschedule lock their own round but read the calendar  *)
(*     of the candidate's other rounds, which others may be changing;      *)
(*   - end_interview_abnormally reads the round, then locks it; its        *)
(*     session keeps the columns of the first read, so what it checks and  *)
(*     writes is as old as the probe.                                      *)
(* A refused request changes nothing and is no action.                     *)
(*                                                                         *)
(* A definition whose name ends in _Suffix is a faulty variant of a later  *)
(* one: some property below tells the two apart.                           *)
(*                                                                         *)
(* Left out: permissions, names, the panel of interviewers (its conflicts  *)
(* can be overridden, and update_interview_round changes it without a      *)
(* check), meeting data, the texts and content versions of invitations     *)
(* (record_sent accepts any of them), the round's version counter (a       *)
(* client that lost the comparison is refused), idempotency keys of the    *)
(* locked handlers, and the INITIAL/RESCHEDULE distinction.                *)
(***************************************************************************)
EXTENDS Integers, Sequences, FiniteSets, FiniteSetsExt, TLC

CONSTANTS
    Rounds,         \* rows that may be created in interview_rounds
    Clients,        \* requests that may be between their two steps
    Slots,          \* times; two schedules overlap when they have the same one
    Keys,           \* idempotency keys of create_interview_round; None stands for no key
    Places,         \* sequence numbers a client may ask for
    Recipients,     \* the candidate and the interviewers who are invited
    WithEmail,      \* those with an address
    None,           \* SQL NULL, or no request
    MaxSchedules,   \* bound: schedules of a round
    MaxRequests     \* bound: requests of two steps

ASSUME NoneAssumption   == None \notin Rounds \cup Clients \cup Slots
ASSUME RoundsAssumption == IsFiniteSet(Rounds)
ASSUME EmailAssumption  == WithEmail \subseteq Recipients
ASSUME BoundsAssumption == MaxSchedules \in Nat \ {0} /\ MaxRequests \in Nat /\ Places \subseteq Nat \ {0}

VARIABLES
    round,      \* interview_rounds, None before the INSERT commits
    schedules,  \* round: its interview_schedules in the order of schedule_version
    message,    \* <<round, schedule_version, event, recipient>>: invitation or None
    lock,       \* round: the client that holds the row, or None
    opened,     \* number of requests of two steps so far (for the bound only)
    req         \* client: None, or the handler it is in and what that read

vars == <<round, schedules, message, lock, opened, req>>

Terminal == {"COMPLETED", "CANCELLED", "ENDED_ABNORMALLY"}
Statuses == {"DRAFT", "SCHEDULED", "CONFIRMED", "IN_PROGRESS", "PENDING_TRANSCRIPT"}
                \cup Terminal
Events   == {"arrangement", "cancellation"}

RoundRow == [status : Statuses, seq : Nat \ {0}, key : Keys,
             current : 0..MaxSchedules, confirmed : 0..MaxSchedules]

ScheduleRow == [status : {"ACTIVE", "SUPERSEDED", "CANCELLED"}, slot : Slots,
                seen : SUBSET (Rounds \X (1..MaxSchedules))]

\* What a request holds between its two steps: its arguments and the calendar it read.
Handler == [op : {"create"}, seq : Nat \ {0}, slot : Slots \cup {None}, key : Keys,
            seen : SUBSET (Rounds \X (1..MaxSchedules))]
           \cup [op : {"schedule", "reschedule"}, round : Rounds, slot : Slots,
                 seen : SUBSET (Rounds \X (1..MaxSchedules))]
           \cup [op : {"end"}, round : Rounds]

ASSUME NoneIsNoRow == None \notin RoundRow \cup Handler

Messages        == Rounds \X (1..MaxSchedules) \X Events \X Recipients
MessageStatuses == {"DRAFT", "READY", "RECORDED_SENT", "VOIDED"}
-----------------------------------------------------------------------------
(* The state machine of a round and the rows of one. *)

TransitionTable == {
    <<"schedule",           "DRAFT",              "SCHEDULED">>,
    <<"confirm_invitation", "SCHEDULED",          "CONFIRMED">>,
    <<"start",              "SCHEDULED",          "IN_PROGRESS">>,
    <<"start",              "CONFIRMED",          "IN_PROGRESS">>,
    <<"finish",             "IN_PROGRESS",        "PENDING_TRANSCRIPT">>,
    <<"complete",           "PENDING_TRANSCRIPT", "COMPLETED">>,
    <<"cancel",             "DRAFT",              "CANCELLED">>,
    <<"cancel",             "SCHEDULED",          "CANCELLED">>,
    <<"cancel",             "CONFIRMED",          "CANCELLED">>,
    <<"cancel",             "IN_PROGRESS",        "CANCELLED">>,
    <<"end_abnormally",     "IN_PROGRESS",        "ENDED_ABNORMALLY">>}

Transitions_ReopenCancelled ==
    TransitionTable \cup {<<"schedule", "CANCELLED", "SCHEDULED">>}

Transitions == TransitionTable

next_status(status, action) == {t[3] : t \in {u \in Transitions : u[1] = action /\ u[2] = status}}

Live(r) == round[r] # None

get_round_for_update(r) == Live(r) /\ lock[r] = None

active(r) == {v \in 1..Len(schedules[r]) : schedules[r][v].status = "ACTIVE"}

Bookings == {b \in Rounds \X (1..MaxSchedules) : b[2] \in active(b[1])}

SlotOf(b) == schedules[b[1]][b[2]].slot

find_candidate_conflicts(slot, except) ==
    {b \in Bookings : b[1] # except /\ SlotOf(b) = slot}

_assert_no_blocking_conflicts_OtherRounds(slot, except) ==
    find_candidate_conflicts(slot, except) \ {b \in Bookings : b[2] = 1} = {}

_assert_no_blocking_conflicts(slot, except) == find_candidate_conflicts(slot, except) = {}

next_sequence_no_FromZero == Max({0} \cup {round[r].seq : r \in {q \in Rounds : Live(q)}})

next_sequence_no == Max({0} \cup {round[r].seq : r \in {q \in Rounds : Live(q)}}) + 1

_schedule_from_payload(slot, seen) == [status |-> "ACTIVE", slot |-> slot, seen |-> seen]

Idle(c) == req[c] = None

Begin(c, handler) ==
    /\ Idle(c) /\ opened < MaxRequests
    /\ opened' = opened + 1
    /\ req' = [req EXCEPT ![c] = handler]

Running(c, op) == ~Idle(c) /\ req[c].op = op

End(c) ==
    /\ req'  = [req EXCEPT ![c] = None]
    /\ UNCHANGED opened
    /\ lock' = [r \in Rounds |-> IF lock[r] = c THEN None ELSE lock[r]]
-----------------------------------------------------------------------------
(* Creating and ordering. *)

create_interview_round(c, seq, slot, k) ==
    /\ k # None => ~\E r \in Rounds : Live(r) /\ round[r].key = k
    /\ slot # None => _assert_no_blocking_conflicts(slot, None)
    /\ Begin(c, [op |-> "create", seq |-> seq, slot |-> slot, key |-> k, seen |-> Bookings])
    /\ UNCHANGED <<round, schedules, message, lock>>

\* uq_interview_rounds_application_sequence and the index of the idempotency keys.
Insertable_NoIndex(seq, k) == TRUE

Insertable(seq, k) ==
    \A r \in Rounds : Live(r) =>
        round[r].seq # seq /\ (k = None \/ round[r].key # k)

NewRound(q) ==
    [status    |-> IF q.slot = None THEN "DRAFT" ELSE "SCHEDULED",
     seq       |-> q.seq,
     key       |-> q.key,
     current   |-> IF q.slot = None THEN 0 ELSE 1,
     confirmed |-> 0]

NewSchedules(q) ==
    IF q.slot = None THEN <<>> ELSE <<_schedule_from_payload(q.slot, q.seen)>>

CommitCreate(c) ==
    /\ Running(c, "create")
    /\ Insertable(req[c].seq, req[c].key)
    /\ \E r \in Rounds :
          /\ ~Live(r)
          /\ round'     = [round EXCEPT ![r] = NewRound(req[c])]
          /\ schedules' = [schedules EXCEPT ![r] = NewSchedules(req[c])]
    /\ End(c)
    /\ UNCHANGED message

\* Every round is locked; only rounds that have not begun may move.
Moved(row, n) == [row EXCEPT !.seq = n]

reorder_interview_rounds ==
    LET all == {r \in Rounds : Live(r)} IN
    /\ all # {} /\ \A r \in all : get_round_for_update(r)
    /\ \E place \in [all -> 1..Cardinality(all)] :
          /\ \A r, q \in all : place[r] = place[q] => r = q
          /\ \A r \in all : round[r].seq # place[r] =>
                round[r].status \in {"DRAFT", "SCHEDULED", "CONFIRMED"}
          /\ round' = [r \in Rounds |-> IF r \in all THEN Moved(round[r], place[r]) ELSE None]
    /\ UNCHANGED <<schedules, message, lock, opened, req>>
-----------------------------------------------------------------------------
(* Scheduling. *)

LockAndCheck(c, r, op, slot) ==
    /\ get_round_for_update(r)
    /\ _assert_no_blocking_conflicts(slot, r)
    /\ Begin(c, [op |-> op, round |-> r, slot |-> slot, seen |-> Bookings])
    /\ lock' = [lock EXCEPT ![r] = c]
    /\ UNCHANGED <<round, schedules, message>>

schedule_interview_round(c, r, slot) ==
    /\ Live(r) /\ active(r) = {} /\ next_status(round[r].status, "schedule") # {}
    /\ Len(schedules[r]) < MaxSchedules
    /\ LockAndCheck(c, r, "schedule", slot)

reschedule_interview_round(c, r, slot) ==
    /\ Live(r) /\ round[r].status \in {"SCHEDULED", "CONFIRMED"} /\ active(r) # {}
    /\ Len(schedules[r]) < MaxSchedules
    /\ LockAndCheck(c, r, "reschedule", slot)

Booked(row, v) == [row EXCEPT !.status = "SCHEDULED", !.current = v]

CommitSchedule(c) ==
    /\ Running(c, "schedule")
    /\ LET q   == req[c]
           old == Len(schedules[q.round]) IN
       /\ schedules' = [schedules EXCEPT ![q.round] =
             Append(schedules[q.round], _schedule_from_payload(q.slot, q.seen))]
       /\ round' = [round EXCEPT ![q.round] = Booked(round[q.round], old + 1)]
    /\ End(c)
    /\ UNCHANGED message

VoidMessages(r, v, which) ==
    [m \in Messages |-> IF m[1] = r /\ m[2] = v /\ message[m] \in which THEN "VOIDED"
                              ELSE message[m]]

void_open_messages_for_schedule_Unsent(r, v) == VoidMessages(r, v, {"DRAFT", "READY"})

void_open_messages_for_schedule(r, v) ==
    VoidMessages(r, v, {"DRAFT", "READY", "RECORDED_SENT"})

ScheduleStatus(row, s) == [row EXCEPT !.status = s]

\* The schedules of a round once the active one has got status s.
CloseActive(r, s) ==
    [v \in 1..Len(schedules[r]) |->
        IF v \in active(r) THEN ScheduleStatus(schedules[r][v], s) ELSE schedules[r][v]]

Rebooked_StaysConfirmed(row, v) == [row EXCEPT !.current = v]

\* A confirmation is for one schedule_version.
Rebooked(row, v) == [row EXCEPT !.status = "SCHEDULED", !.current = v, !.confirmed = 0]

CommitReschedule(c) ==
    /\ Running(c, "reschedule")
    /\ LET q   == req[c]
           old == Len(schedules[q.round]) IN
       /\ message' = void_open_messages_for_schedule(q.round, old)
       /\ schedules' = [schedules EXCEPT ![q.round] =
             Append(CloseActive(q.round, "SUPERSEDED"), _schedule_from_payload(q.slot, q.seen))]
       /\ round' = [round EXCEPT ![q.round] = Rebooked(round[q.round], old + 1)]
    /\ End(c)
-----------------------------------------------------------------------------
(* Holding the interview: _status_action under the row's lock. *)

RoundStatus(row, s) == [row EXCEPT !.status = s]

_status_action(r, action) ==
    /\ get_round_for_update(r)
    /\ \E s \in next_status(round[r].status, action) :
          round' = [round EXCEPT ![r] = RoundStatus(round[r], s)]

start_interview_round(r) ==
    _status_action(r, "start") /\ UNCHANGED <<schedules, message, lock, opened, req>>

finish_interview_round(r) ==
    _status_action(r, "finish") /\ UNCHANGED <<schedules, message, lock, opened, req>>

\* Confirming the transcript, or completing without one.
CompleteRound(r) ==
    _status_action(r, "complete") /\ UNCHANGED <<schedules, message, lock, opened, req>>

\* The active schedule is cancelled; its invitations stay as they are.
cancel_interview_round(r) ==
    /\ _status_action(r, "cancel")
    /\ schedules' = [schedules EXCEPT ![r] = CloseActive(r, "CANCELLED")]
    /\ UNCHANGED <<message, lock, opened, req>>

end_interview_abnormally(c, r) ==
    /\ Live(r) /\ next_status(round[r].status, "end_abnormally") # {}
    /\ Begin(c, [op |-> "end", round |-> r])
    /\ UNCHANGED <<round, schedules, message, lock>>

\* FOR UPDATE returns the object of the probe: its old status passes the check again.
CommitEnd(c) ==
    /\ Running(c, "end")
    /\ get_round_for_update(req[c].round)
    /\ round' = [round EXCEPT ![req[c].round] =
                    RoundStatus(round[req[c].round], "ENDED_ABNORMALLY")]
    /\ End(c)
    /\ UNCHANGED <<schedules, message>>

\* A unique index refuses the insert, or the client goes away: the session rolls back.
Abandon(c) ==
    /\ ~Idle(c)
    /\ End(c)
    /\ UNCHANGED <<round, schedules, message>>
-----------------------------------------------------------------------------
(* Invitations.  An edited text needs to be sent again; any version of it may be recorded. *)

_assert_event_allowed(r, event) ==
    round[r].status = IF event = "cancellation" THEN "CANCELLED" ELSE "SCHEDULED"

_resolve_status(p, missing) == IF missing \/ p \notin WithEmail THEN "DRAFT" ELSE "READY"

\* About the active schedule, or the last one of a cancelled round; no message is replaced.
generate_invitations(r, event, missing) ==
    /\ get_round_for_update(r)
    /\ round[r].current # 0
    /\ _assert_event_allowed(r, event)
    /\ message' = [m \in Messages |->
          IF m[1] = r /\ m[2] = round[r].current /\ m[3] = event /\ message[m] = "none"
          THEN _resolve_status(m[4], missing) ELSE message[m]]
    /\ UNCHANGED <<round, schedules, lock, opened, req>>

Editable(m) == message[m] \notin {"none", "VOIDED"}

update_invitation(m) ==
    /\ Editable(m)
    /\ message' = [message EXCEPT ![m] = _resolve_status(m[4], FALSE)]
    /\ UNCHANGED <<round, schedules, lock, opened, req>>

record_sent(m) ==
    /\ message[m] \in {"READY", "RECORDED_SENT"}
    /\ message' = [message EXCEPT ![m] = "RECORDED_SENT"]
    /\ UNCHANGED <<round, schedules, lock, opened, req>>

Confirmed(row, s, v) == [row EXCEPT !.status = s, !.confirmed = v]

\* Messages that were not sent only ask for a summary.
confirm_invitation(r) ==
    /\ get_round_for_update(r) /\ active(r) # {}
    /\ \E s \in next_status(round[r].status, "confirm_invitation") :
          round' = [round EXCEPT ![r] = Confirmed(round[r], s, Max(active(r)))]
    /\ UNCHANGED <<schedules, message, lock, opened, req>>
-----------------------------------------------------------------------------
(* The system. *)

Init ==
    /\ round     = [r \in Rounds |-> None]
    /\ schedules = [r \in Rounds |-> <<>>]
    /\ message   = [m \in Messages |-> "none"]
    /\ lock      = [r \in Rounds |-> None]
    /\ opened    = 0
    /\ req       = [c \in Clients |-> None]

ClientStep(c) ==
    \/ \E seq \in Places \cup {next_sequence_no}, slot \in Slots \cup {None},
          k \in Keys : create_interview_round(c, seq, slot, k)
    \/ \E r \in Rounds, slot \in Slots :
          schedule_interview_round(c, r, slot) \/ reschedule_interview_round(c, r, slot)
    \/ \E r \in Rounds : end_interview_abnormally(c, r)
    \/ CommitCreate(c) \/ CommitSchedule(c) \/ CommitReschedule(c) \/ CommitEnd(c) \/ Abandon(c)

RoundStep(r) ==
    \/ start_interview_round(r) \/ finish_interview_round(r) \/ CompleteRound(r)
    \/ cancel_interview_round(r) \/ confirm_invitation(r)
    \/ \E event \in Events, missing \in BOOLEAN : generate_invitations(r, event, missing)

Next ==
    \/ \E c \in Clients : ClientStep(c)
    \/ \E r \in Rounds : RoundStep(r)
    \/ reorder_interview_rounds
    \/ \E m \in Messages : update_invitation(m) \/ record_sent(m)

Spec == Init /\ [][Next]_vars
-----------------------------------------------------------------------------
(* Properties. *)

\* Every row is one the tables can hold, and a locked row has a client whose handler locked it.
TypeOK ==
    /\ round \in [Rounds -> RoundRow \cup {None}]
    /\ \A r \in Rounds : /\ Len(schedules[r]) <= MaxSchedules
                         /\ \A v \in 1..Len(schedules[r]) : schedules[r][v] \in ScheduleRow
    /\ message \in [Messages -> MessageStatuses \cup {"none"}]
    /\ opened \in 0..MaxRequests
    /\ req \in [Clients -> Handler \cup {None}]
    /\ \A r \in Rounds : lock[r] # None =>
          \E op \in {"schedule", "reschedule"} : Running(lock[r], op) /\ req[lock[r]].round = r

\* Creates race for the next number and retries race for their key: two rounds of the
\* application never have one sequence number or one create key, before or after a reorder.
RoundsDistinct ==
    \A r, q \in Rounds : r # q /\ Live(r) /\ Live(q) =>
        /\ round[r].seq # round[q].seq
        /\ round[r].key = round[q].key => round[r].key = None

\* A round that is to be held has exactly one active schedule and it is the current one, a
\* draft has none, and what the candidate confirmed is that schedule: whatever rebooking,
\* confirming and ending were interleaved, nobody goes to a superseded time.
ScheduleMatchesStatus ==
    \A r \in Rounds : Live(r) =>
        /\ round[r].status \in {"SCHEDULED", "CONFIRMED", "IN_PROGRESS", "PENDING_TRANSCRIPT"} =>
              active(r) = {round[r].current}
        /\ round[r].status \in {"DRAFT", "CANCELLED"} => active(r) = {}
        /\ round[r].status = "CONFIRMED" => round[r].confirmed = round[r].current
        /\ round[r].status = "SCHEDULED" => round[r].confirmed = 0

\* An invitation that is not voided is about the round's current schedule, even when it was
\* edited or recorded as sent around a rebooking; a cancellation is only about a cancelled
\* round (which a stale abnormal end may since have marked).
InvitationsAreCurrent ==
    \A m \in Messages : message[m] \notin {"none", "VOIDED"} =>
        /\ m[2] = round[m[1]].current
        /\ m[3] = "cancellation" => round[m[1]].status \in {"CANCELLED", "ENDED_ABNORMALLY"}

\* Two active bookings of the candidate at one time never saw each other: an overlap is only
\* possible between requests that were open together, in any order of locks and commits.
OverlapOnlyInFlight ==
    \A a, b \in Bookings : a[1] # b[1] /\ SlotOf(a) = SlotOf(b) =>
        /\ a \notin schedules[b[1]][b[2]].seen
        /\ b \notin schedules[a[1]][a[2]].seen

\* A round that is over never becomes live again and keeps its place, and a completed or
\* cancelled one changes only by an abnormal end that had read it in progress.
TerminalForGood ==
    [][\A r \in Rounds : Live(r) /\ round[r].status \in Terminal =>
          /\ round'[r].status \in {round[r].status, "ENDED_ABNORMALLY"}
          /\ round'[r].seq = round[r].seq
          /\ round'[r] # round[r] => \E c \in Clients : Running(c, "end") /\ req[c].round = r]_vars
=============================================================================
