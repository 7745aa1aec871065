------------------------------ MODULE OfferMail ------------------------------
(***************************************************************************)
(* Offers and the mail worker: the rows of offers and offer_send_attempts  *)
(* of one application, the mail queue, the workers that run                *)
(* `_handle_mail_attempt` and the API calls that draft, confirm, retry,    *)
(* void and recover (backend/app/services/offers.py,                       *)
(* backend/app/workers/mail_tasks.py).                                     *)
(*                                                                         *)
(* One action is what a process does between two commits or two lock       *)
(* waits.  Row locks matter here: a mail worker holds the offer's lock     *)
(* from before provider.send to its last commit, and asks for the          *)
(* attempt's lock only then; a recovery and a duplicate delivery take the  *)
(* attempt's lock first and then wait for the offer's.  The locks are      *)
(* read off the program counters.                                          *)
(*                                                                         *)
(* A definition whose name ends in _Suffix is a faulty variant of a later  *)
(* one: some property below tells the two apart.                           *)
(*                                                                         *)
(* Left out: texts, recipients and hashes (a version is its number),       *)
(* audit rows, lock_version and idempotency keys (a request carries the    *)
(* values just read, others are refused without effect), the branches for  *)
(* a missing offer or version (foreign keys keep both), and the countdown  *)
(* of a delayed message.                                                   *)
(***************************************************************************)
EXTENDS Integers

CONSTANTS
    Offers,        \* rows that may be created in offers, all of one application
    Attempts,      \* rows that may be created in offer_send_attempts
    Workers,       \* Celery mail workers
    Admins,        \* API processes that run a stale recovery
    None,          \* SQL NULL
    MaxAuto,       \* MAIL_MAX_AUTO_ATTEMPTS
    MaxVersions,   \* bound: versions of one offer
    MaxSends,      \* bound: confirmed or manually retried sends
    MaxRecoveries, \* bound: stale recoveries
    MaxLosses,     \* bound: crashes and lost messages
    MaxStrays      \* bound: duplicated messages

ASSUME NoneIsNoRow   == None \notin Offers /\ None \notin Attempts
ASSUME BoundsAreNats == /\ MaxAuto \in Nat \ {0}
                        /\ MaxVersions \in Nat
                        /\ MaxSends \in Nat
                        /\ MaxRecoveries \in Nat
                        /\ MaxLosses \in Nat
                        /\ MaxStrays \in Nat

VARIABLES
    offer,        \* offers, with what is kept of the current version
    attempt,      \* offer_send_attempts
    open,         \* the application is in_progress and pending_offer
    mail,         \* messages in the mail queue, or about to be published, per attempt
    pc,           \* worker: idle, claimed, sending, accepted, refused, or duplicate
    on,           \* the attempt a worker handles
    holds,        \* the attempt a recovery has locked
    delivered,    \* mails a provider accepted, per offer
    unrecorded,   \* those of them whose worker died or was aborted before its commit
    sends, recovered, lost, strays,   \* how much of each bound is used
    aborted       \* mail workers aborted to break a deadlock

rowVars    == <<offer, attempt, open>>
workerVars == <<pc, on>>
mailVars   == <<delivered, unrecorded>>
counters   == <<sends, recovered, lost, strays, aborted>>
vars       == <<rowVars, mail, workerVars, holds, mailVars, counters>>

OfferRow == [status : {"absent", "draft", "ready", "sending", "sent", "failed", "voided"},
             version : Nat,       \* version_no of current_version_id
             frozen : BOOLEAN,    \* that version is frozen
             blank : BOOLEAN]     \* and its text is empty

AttemptRow == [status : {"absent", "pending", "running", "succeeded", "failed", "dead"},
               offer : Offers \cup {None},
               attempt_no : Nat,
               version : Nat,
               error_code : {"none", "console_error", "stale_send_attempt_recovered"},
               old : BOOLEAN]     \* started_at is STALE_SEND_ATTEMPT_MIN_AGE ago

NoOffer   == [status |-> "absent", version |-> 0, frozen |-> FALSE, blank |-> TRUE]
NoAttempt == [status |-> "absent", offer |-> None, attempt_no |-> 0, version |-> 0,
              error_code |-> "none", old |-> FALSE]

Live(a) == attempt[a].status \in {"pending", "running"}

-----------------------------------------------------------------------------
(* Row locks. *)

\* A worker keeps the offer's lock from LockOffer to its last commit.
HasOffer(w, o) ==
    /\ pc[w] \in {"sending", "accepted", "refused"}
    /\ attempt[on[w]].offer = o

OfferFree(o) == \A w \in Workers : ~HasOffer(w, o)

AttemptFree_NotByAdmin(a) == \A w \in Workers : ~(pc[w] = "duplicate" /\ on[w] = a)

\* A recovery and a duplicate delivery keep the attempt's lock.
AttemptFree(a) ==
    /\ \A w \in Workers : ~(pc[w] = "duplicate" /\ on[w] = a)
    /\ \A p \in Admins : holds[p] # a

-----------------------------------------------------------------------------
(* API calls that lock the offer, change it and commit. *)

DraftedRow(r, blank) ==
    [status |-> "draft", version |-> r.version + 1, frozen |-> FALSE, blank |-> blank]

\* At most one offer of the application is not voided.
create_offer(o) ==
    /\ open
    /\ offer[o].status = "absent"
    /\ \A other \in Offers : offer[other].status \in {"absent", "voided"}
    /\ offer' = [offer EXCEPT ![o] = DraftedRow(NoOffer, TRUE)]
    /\ UNCHANGED <<attempt, open, mail, workerVars, holds, mailVars, counters>>

update_offer_draft_Failed(o) ==
    /\ open
    /\ OfferFree(o)
    /\ offer[o].status \in {"draft", "ready", "failed"}
    /\ offer[o].version < MaxVersions
    /\ \E blank \in BOOLEAN :
          offer' = [offer EXCEPT ![o] = DraftedRow(offer[o], blank)]
    /\ UNCHANGED <<attempt, open, mail, workerVars, holds, mailVars, counters>>

\* Always a new version; a ready offer falls back to draft.
update_offer_draft(o) ==
    /\ open
    /\ OfferFree(o)
    /\ offer[o].status \in {"draft", "ready"}
    /\ offer[o].version < MaxVersions
    /\ \E blank \in BOOLEAN :
          offer' = [offer EXCEPT ![o] = DraftedRow(offer[o], blank)]
    /\ UNCHANGED <<attempt, open, mail, workerVars, holds, mailVars, counters>>

ReadyRow(r)          == [r EXCEPT !.status = "ready", !.frozen = TRUE]
SendingRow(r)        == [r EXCEPT !.status = "sending", !.frozen = TRUE]
OfferStatus(r, status) == [r EXCEPT !.status = status]

mark_offer_ready(o) ==
    /\ open
    /\ OfferFree(o)
    /\ offer[o].status = "draft"
    /\ ~offer[o].blank
    /\ offer' = [offer EXCEPT ![o] = ReadyRow(offer[o])]
    /\ UNCHANGED <<attempt, open, mail, workerVars, holds, mailVars, counters>>

void_offer_Sending(o) ==
    /\ OfferFree(o)
    /\ offer[o].status \in {"draft", "ready", "failed", "sending"}
    /\ offer' = [offer EXCEPT ![o] = OfferStatus(offer[o], "voided")]
    /\ UNCHANGED <<attempt, open, mail, workerVars, holds, mailVars, counters>>

void_offer(o) ==
    /\ OfferFree(o)
    /\ offer[o].status \in {"draft", "ready", "failed"}
    /\ offer' = [offer EXCEPT ![o] = OfferStatus(offer[o], "voided")]
    /\ UNCHANGED <<attempt, open, mail, workerVars, holds, mailVars, counters>>

NewAttempt(o, attempt_no, version) ==
    [status |-> "pending", offer |-> o, attempt_no |-> attempt_no,
     version |-> version, error_code |-> "none", old |-> FALSE]

\* INSERT an attempt, and publish it once committed.
AddAttempt(a, row) ==
    /\ attempt' = [attempt EXCEPT ![a] = row]
    /\ mail' = [mail EXCEPT ![a] = @ + 1]

StartSending(o, a) ==
    /\ open
    /\ OfferFree(o)
    /\ attempt[a].status = "absent"
    /\ sends < MaxSends
    /\ sends' = sends + 1
    /\ offer' = [offer EXCEPT ![o] = SendingRow(offer[o])]
    /\ AddAttempt(a, NewAttempt(o, 1, offer[o].version))
    /\ UNCHANGED <<open, workerVars, holds, mailVars, recovered, lost, strays, aborted>>

confirm_offer_send(o, a) ==
    /\ offer[o].status \in {"ready", "failed"}
    /\ StartSending(o, a)

retry_offer_send(o, a) ==
    /\ offer[o].status = "failed"
    /\ offer[o].frozen
    /\ StartSending(o, a)

\* The same request again: a user's attempt that is still pending is published again.
Redispatch(a) ==
    /\ attempt[a].status = "pending"
    /\ attempt[a].attempt_no = 1
    /\ strays < MaxStrays
    /\ strays' = strays + 1
    /\ mail' = [mail EXCEPT ![a] = @ + 1]
    /\ UNCHANGED <<rowVars, workerVars, holds, mailVars, sends, recovered, lost, aborted>>

\* resolve_close_application looks at no offer.
CloseApplication ==
    /\ open
    /\ open' = FALSE
    /\ UNCHANGED <<offer, attempt, mail, workerVars, holds, mailVars, counters>>

-----------------------------------------------------------------------------
(* Recovery: mark_stale_failed_offer_send_attempt. *)

AgedRow(r) == [r EXCEPT !.old = TRUE]

StaleAgeReached(a) ==
    /\ attempt[a].status = "running"
    /\ ~attempt[a].old
    /\ attempt' = [attempt EXCEPT ![a] = AgedRow(attempt[a])]
    /\ UNCHANGED <<offer, open, mail, workerVars, holds, mailVars, counters>>

\* Lock the attempt; the admin sends the started_at just read.
LockStaleAttempt(p, a) ==
    /\ holds[p] = None
    /\ recovered < MaxRecoveries
    /\ AttemptFree(a)
    /\ attempt[a].status = "running"
    /\ attempt[a].old
    /\ holds' = [holds EXCEPT ![p] = a]
    /\ UNCHANGED <<rowVars, mail, workerVars, mailVars, counters>>

DeadRow(r) == [r EXCEPT !.status = "dead",
                        !.error_code = "stale_send_attempt_recovered"]

\* Lock the offer: both rows are written, or the request is refused.
RecoverAttempt(p, a) ==
    LET o == attempt[a].offer
    IN  /\ holds[p] = a
        /\ OfferFree(o)
        /\ holds' = [holds EXCEPT ![p] = None]
        /\ \/ /\ offer[o].status = "sending"
              /\ attempt' = [attempt EXCEPT ![a] = DeadRow(attempt[a])]
              /\ offer' = [offer EXCEPT ![o] = OfferStatus(offer[o], "failed")]
              /\ recovered' = recovered + 1
           \/ /\ offer[o].status # "sending"
              /\ UNCHANGED <<offer, attempt, recovered>>
        /\ UNCHANGED <<open, mail, workerVars, mailVars, sends, lost, strays, aborted>>

-----------------------------------------------------------------------------
(* Queue. *)

LoseMail(a) ==
    /\ mail[a] > 0
    /\ lost < MaxLosses
    /\ mail' = [mail EXCEPT ![a] = @ - 1]
    /\ lost' = lost + 1
    /\ UNCHANGED <<rowVars, workerVars, holds, mailVars, sends, recovered, strays, aborted>>

DuplicateMail(a) ==
    /\ attempt[a].status # "absent"
    /\ strays < MaxStrays
    /\ mail' = [mail EXCEPT ![a] = @ + 1]
    /\ strays' = strays + 1
    /\ UNCHANGED <<rowVars, workerVars, holds, mailVars, sends, recovered, lost, aborted>>

-----------------------------------------------------------------------------
(* Worker: _handle_mail_attempt. *)

TakeMail_Empty(a) ==
    /\ AttemptFree(a)
    /\ mail' = [mail EXCEPT ![a] = @ - 1]

TakeMail(a) ==
    /\ mail[a] > 0
    /\ AttemptFree(a)
    /\ mail' = [mail EXCEPT ![a] = @ - 1]

\* The attempt is settled: a no-op.
SkipSettled(a) ==
    /\ TakeMail(a)
    /\ attempt[a].status \in {"succeeded", "failed", "dead"}
    /\ UNCHANGED <<rowVars, workerVars, holds, mailVars, counters>>

\* The attempt is running elsewhere: keep its lock and wait for the offer's.
LockDuplicate(w, a) ==
    /\ pc[w] = "idle"
    /\ TakeMail(a)
    /\ attempt[a].status = "running"
    /\ pc' = [pc EXCEPT ![w] = "duplicate"]
    /\ on' = [on EXCEPT ![w] = a]
    /\ UNCHANGED <<rowVars, holds, mailVars, counters>>

RunningRow(r) == [r EXCEPT !.status = "running", !.old = FALSE]

\* _claim_pending_attempt and the commit.
Claim(w, a) ==
    /\ pc[w] = "idle"
    /\ TakeMail(a)
    /\ attempt[a].status = "pending"
    /\ attempt' = [attempt EXCEPT ![a] = RunningRow(attempt[a])]
    /\ pc' = [pc EXCEPT ![w] = "claimed"]
    /\ on' = [on EXCEPT ![w] = a]
    /\ UNCHANGED <<offer, open, holds, mailVars, counters>>

Release(w) ==
    /\ pc' = [pc EXCEPT ![w] = "idle"]
    /\ on' = [on EXCEPT ![w] = None]

\* Nothing was written: the session rolls back.
DuplicateDone(w) ==
    /\ pc[w] = "duplicate"
    /\ OfferFree(attempt[on[w]].offer)
    /\ Release(w)
    /\ UNCHANGED <<rowVars, mail, holds, mailVars, counters>>

LockOffer_AnyStatus(w) ==
    /\ pc[w] = "claimed"
    /\ OfferFree(attempt[on[w]].offer)
    /\ pc' = [pc EXCEPT ![w] = "sending"]
    /\ UNCHANGED <<rowVars, mail, on, holds, mailVars, counters>>

\* The first read of the offer in this session, under its lock.
LockOffer(w) ==
    /\ pc[w] = "claimed"
    /\ OfferFree(attempt[on[w]].offer)
    /\ offer[attempt[on[w]].offer].status = "sending"
    /\ pc' = [pc EXCEPT ![w] = "sending"]
    /\ UNCHANGED <<rowVars, mail, on, holds, mailVars, counters>>

\* The offer is not being sent: return, and leave the attempt running.
SkippedStaleOwner(w) ==
    /\ pc[w] = "claimed"
    /\ OfferFree(attempt[on[w]].offer)
    /\ offer[attempt[on[w]].offer].status # "sending"
    /\ Release(w)
    /\ UNCHANGED <<rowVars, mail, holds, mailVars, counters>>

\* provider.send returns.
Deliver(w) ==
    /\ pc[w] = "sending"
    /\ \/ /\ pc' = [pc EXCEPT ![w] = "accepted"]
          /\ delivered' = [delivered EXCEPT ![attempt[on[w]].offer] = @ + 1]
       \/ /\ pc' = [pc EXCEPT ![w] = "refused"]
          /\ UNCHANGED delivered
    /\ UNCHANGED <<rowVars, mail, on, holds, unrecorded, counters>>

\* The session's copy of the attempt has no error, so error_code = None writes nothing.
SucceededRow(r) == [r EXCEPT !.status = "succeeded"]

FailedRow(r, status) == [r EXCEPT !.status = status, !.error_code = "console_error"]

\* _reassert_sending_ownership_for_terminal: the lock is taken, but the session still
\* holds the attempt as it claimed it, so the status it compares is always running;
\* its copy of the offer was read under the lock it keeps.
Owned(w, a) == on[w] = a /\ AttemptFree(a)

FinishSucceeded(w, a) ==
    LET o == attempt[a].offer
    IN  /\ pc[w] = "accepted"
        /\ Owned(w, a)
        /\ attempt' = [attempt EXCEPT ![a] = SucceededRow(attempt[a])]
        /\ offer' = [offer EXCEPT ![o] = OfferStatus(offer[o], "sent")]
        /\ Release(w)
        /\ UNCHANGED <<open, mail, holds, mailVars, counters>>

FinishRetried_NoEnqueue(w, a, next) ==
    /\ pc[w] = "refused"
    /\ Owned(w, a)
    /\ attempt[a].attempt_no < MaxAuto
    /\ attempt[next].status = "absent"
    /\ attempt' = [attempt EXCEPT
          ![a] = FailedRow(attempt[a], "failed"),
          ![next] = NewAttempt(attempt[a].offer, attempt[a].attempt_no + 1,
                               attempt[a].version)]
    /\ Release(w)
    /\ UNCHANGED <<offer, open, mail, holds, mailVars, counters>>

FinishRetried_Unbounded(w, a, next) ==
    /\ pc[w] = "refused"
    /\ Owned(w, a)
    /\ attempt[next].status = "absent"
    /\ attempt' = [attempt EXCEPT
          ![a] = FailedRow(attempt[a], "dead"),
          ![next] = NewAttempt(attempt[a].offer, attempt[a].attempt_no + 1,
                               attempt[a].version)]
    /\ mail' = [mail EXCEPT ![next] = @ + 1]
    /\ Release(w)
    /\ UNCHANGED <<offer, open, holds, mailVars, counters>>

\* The attempt failed, the next one of its cycle is inserted and published.
FinishRetried(w, a, next) ==
    /\ pc[w] = "refused"
    /\ Owned(w, a)
    /\ attempt[a].attempt_no < MaxAuto
    /\ attempt[next].status = "absent"
    /\ attempt' = [attempt EXCEPT
          ![a] = FailedRow(attempt[a], "failed"),
          ![next] = NewAttempt(attempt[a].offer, attempt[a].attempt_no + 1,
                               attempt[a].version)]
    /\ mail' = [mail EXCEPT ![next] = @ + 1]
    /\ Release(w)
    /\ UNCHANGED <<offer, open, holds, mailVars, counters>>

FinishDead_OfferKept(w, a) ==
    /\ pc[w] = "refused"
    /\ Owned(w, a)
    /\ attempt[a].attempt_no >= MaxAuto
    /\ attempt' = [attempt EXCEPT ![a] = FailedRow(attempt[a], "dead")]
    /\ Release(w)
    /\ UNCHANGED <<offer, open, mail, holds, mailVars, counters>>

FinishDead(w, a) ==
    LET o == attempt[a].offer
    IN  /\ pc[w] = "refused"
        /\ Owned(w, a)
        /\ attempt[a].attempt_no >= MaxAuto
        /\ attempt' = [attempt EXCEPT ![a] = FailedRow(attempt[a], "dead")]
        /\ offer' = [offer EXCEPT ![o] = OfferStatus(offer[o], "failed")]
        /\ Release(w)
        /\ UNCHANGED <<open, mail, holds, mailVars, counters>>

\* A worker that had its mail accepted goes away without its commit.
Forget(w) ==
    IF pc[w] = "accepted"
    THEN unrecorded' = [unrecorded EXCEPT ![attempt[on[w]].offer] = @ + 1]
    ELSE UNCHANGED unrecorded

Crash(w) ==
    /\ pc[w] # "idle"
    /\ lost < MaxLosses
    /\ lost' = lost + 1
    /\ Forget(w)
    /\ Release(w)
    /\ UNCHANGED <<rowVars, mail, holds, delivered, sends, recovered, strays, aborted>>

-----------------------------------------------------------------------------
(* Deadlock: w holds the offer and waits for the attempt, somebody holds the
   attempt and waits for the offer.  PostgreSQL aborts one of the two. *)

WaitsForAttempt(w) == pc[w] \in {"accepted", "refused"} /\ ~AttemptFree(on[w])

AbortSender(w) ==
    /\ WaitsForAttempt(w)
    /\ aborted' = aborted + 1
    /\ Forget(w)
    /\ Release(w)
    /\ UNCHANGED <<rowVars, mail, holds, delivered, sends, recovered, lost, strays>>

AbortRecovery(p) ==
    /\ \E w \in Workers : WaitsForAttempt(w) /\ on[w] = holds[p]
    /\ holds' = [holds EXCEPT ![p] = None]
    /\ UNCHANGED <<rowVars, mail, workerVars, mailVars, counters>>

AbortDuplicate(w) ==
    /\ pc[w] = "duplicate"
    /\ \E v \in Workers : WaitsForAttempt(v) /\ on[v] = on[w]
    /\ Release(w)
    /\ UNCHANGED <<rowVars, mail, holds, mailVars, counters>>

-----------------------------------------------------------------------------
Init ==
    /\ offer = [o \in Offers |-> NoOffer]
    /\ attempt = [a \in Attempts |-> NoAttempt]
    /\ open = TRUE
    /\ mail = [a \in Attempts |-> 0]
    /\ pc = [w \in Workers |-> "idle"]
    /\ on = [w \in Workers |-> None]
    /\ holds = [p \in Admins |-> None]
    /\ delivered = [o \in Offers |-> 0]
    /\ unrecorded = [o \in Offers |-> 0]
    /\ sends = 0
    /\ recovered = 0
    /\ lost = 0
    /\ strays = 0
    /\ aborted = 0

OfferStep(o) ==
    \/ create_offer(o) \/ update_offer_draft(o) \/ mark_offer_ready(o) \/ void_offer(o)
    \/ \E a \in Attempts : confirm_offer_send(o, a) \/ retry_offer_send(o, a)

AttemptStep(a) ==
    \/ Redispatch(a) \/ StaleAgeReached(a) \/ LoseMail(a) \/ DuplicateMail(a)
    \/ SkipSettled(a)
    \/ \E p \in Admins : LockStaleAttempt(p, a) \/ RecoverAttempt(p, a)

Finish(w) ==
    \E a \in Attempts :
        \/ FinishSucceeded(w, a) \/ FinishDead(w, a)
        \/ \E next \in Attempts : FinishRetried(w, a, next)

WorkerStep(w) ==
    \/ \E a \in Attempts : Claim(w, a) \/ LockDuplicate(w, a)
    \/ DuplicateDone(w) \/ LockOffer(w) \/ SkippedStaleOwner(w) \/ Deliver(w)
    \/ Finish(w) \/ Crash(w) \/ AbortSender(w) \/ AbortDuplicate(w)

Next ==
    \/ \E o \in Offers : OfferStep(o)
    \/ \E a \in Attempts : AttemptStep(a)
    \/ \E w \in Workers : WorkerStep(w)
    \/ \E p \in Admins : AbortRecovery(p)
    \/ CloseApplication

Spec == Init /\ [][Next]_vars

\* Celery delivers, processes go on and deadlocks are broken.  A row lock that is asked
\* for is granted in turn (PostgreSQL queues the waiters), so a worker that is ready to
\* finish is not overtaken for ever by recoveries that start again.
Fairness ==
    /\ \A a \in Attempts : WF_vars(\E w \in Workers : Claim(w, a))
    /\ \A w \in Workers :
          /\ WF_vars(LockOffer(w) \/ SkippedStaleOwner(w) \/ Deliver(w) \/ DuplicateDone(w))
          /\ SF_vars(Finish(w))
          /\ WF_vars(AbortSender(w) \/ AbortDuplicate(w)
                     \/ \E p \in Admins : AbortRecovery(p))
    /\ \A p \in Admins : WF_vars(\E a \in Attempts : RecoverAttempt(p, a))

FairSpec == Spec /\ Fairness

-----------------------------------------------------------------------------
(* Properties. *)

TypeOK ==
    /\ offer \in [Offers -> OfferRow]
    /\ attempt \in [Attempts -> AttemptRow]
    /\ open \in BOOLEAN
    /\ mail \in [Attempts -> Nat]
    /\ pc \in [Workers -> {"idle", "claimed", "sending", "accepted", "refused",
                          "duplicate"}]
    /\ on \in [Workers -> Attempts \cup {None}]
    /\ holds \in [Admins -> Attempts \cup {None}]
    /\ delivered \in [Offers -> Nat]
    /\ unrecorded \in [Offers -> Nat]
    /\ sends \in Nat /\ recovered \in Nat /\ lost \in Nat /\ strays \in Nat
    /\ aborted \in Nat

\* Every mail a provider accepted is accounted for: it is the one that made the offer
\* sent, or its worker is about to commit, or that worker was lost before it could.
\* So an offer is mailed twice only when a worker died between provider.send and its
\* commit, however many messages, late workers, recoveries and retries there are.
MailAccounted ==
    \A o \in Offers :
        delivered[o] = unrecorded[o]
                       + IF \/ offer[o].status = "sent"
                            \/ \E w \in Workers : HasOffer(w, o) /\ pc[w] = "accepted"
                         THEN 1 ELSE 0

\* What a worker mails is what was confirmed: an attempt names the current version of
\* its offer, which is frozen, has a text and stays so through failures and retries.
SentAsConfirmed ==
    \A a \in Attempts : attempt[a].status # "absent" =>
        LET o == attempt[a].offer
        IN  /\ offer[o].status \in {"sending", "sent", "failed", "voided"}
            /\ attempt[a].version = offer[o].version
            /\ offer[o].frozen /\ ~offer[o].blank

\* Until an admin recovers an attempt, an offer that is being sent has exactly one
\* attempt that is pending or running, and an offer that is not has none: nothing is
\* left behind that could send it again, and nothing is running beyond recovery.
OneLiveAttempt ==
    recovered = 0 =>
        \A o \in Offers :
            LET live == {a \in Attempts : Live(a) /\ attempt[a].offer = o}
            IN  /\ offer[o].status = "sending" => live # {}
                /\ offer[o].status # "sending" => live = {}
                /\ \A a, b \in live : a = b

\* As long as no message was lost, a pending attempt has a message.
PendingHasMail ==
    lost = 0 => \A a \in Attempts : attempt[a].status = "pending" => mail[a] > 0

\* The attempts of an offer form chains of at most MAIL_MAX_AUTO_ATTEMPTS: a later one
\* of a chain exists only after one before it failed, never after the last one.
RetryChains ==
    \A a \in Attempts : attempt[a].status # "absent" =>
        /\ attempt[a].attempt_no \in 1..MaxAuto
        /\ attempt[a].status = "failed" => attempt[a].attempt_no < MaxAuto
        /\ attempt[a].attempt_no > 1 =>
              \E b \in Attempts :
                  /\ attempt[b].status = "failed"
                  /\ attempt[b].offer = attempt[a].offer
                  /\ attempt[b].attempt_no = attempt[a].attempt_no - 1

\* Two rows, locked in opposite orders by worker and recovery, are never changed by
\* both: an attempt and an offer locked for a recovery stay as they were read.
LockedStaysRunning ==
    \A p \in Admins : holds[p] # None =>
        attempt[holds[p]].status = "running" /\ attempt[holds[p]].old

PhaseOf(status) == IF status = "absent" THEN "none" ELSE status

Lifecycle == INSTANCE OfferLifecycle WITH
    phase <- [o \in Offers |-> PhaseOf(offer[o].status)],
    edition <- [o \in Offers |-> offer[o].version]

\* Attempts, workers, recoveries and locks implement the promised lifecycle: sent and
\* voided are final, a late worker neither reverts a sent offer nor revives a failed
\* one, and a text never changes once it was confirmed.
ImplementsLifecycle == Lifecycle!Spec

\* "only one side writes the terminal state when a recovery races a late worker"
\* (docs/superpowers/specs/2026-08-20-offer-console-delivery-design.md, 5.8): an
\* attempt that a recovery marked dead stays dead.
RecoveredStaysDead ==
    \A a \in Attempts :
        attempt[a].error_code = "stale_send_attempt_recovered" => attempt[a].status = "dead"

\* An offer that is being sent is decided, unless a worker was aborted on the way.
EventuallyDecided ==
    \A o \in Offers :
        offer[o].status = "sending" ~> (offer[o].status \in {"sent", "failed"} \/ aborted > 0)
=============================================================================
