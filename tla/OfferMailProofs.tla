--------------------------- MODULE OfferMailProofs ---------------------------
(***************************************************************************)
(* OfferMail for every set of offers, attempts, workers and admins: types, *)
(* the exclusive offer lock, the account of every mail, the offer's        *)
(* lifecycle and its texts, and the chains of attempts with their messages.*)
(***************************************************************************)
EXTENDS OfferMail, TLAPS

\* A row names an offer, a busy worker a row.
RowsInv ==
    /\ \A a \in Attempts : attempt[a].status # "absent" => attempt[a].offer \in Offers
    /\ \A w \in Workers :
          pc[w] # "idle" => on[w] \in Attempts /\ attempt[on[w]].status # "absent"

\* The offer's lock has one holder, and the offer waits for it.
LocksInv ==
    \A w \in Workers, o \in Offers : HasOffer(w, o) =>
        /\ offer[o].status = "sending"
        /\ \A v \in Workers : HasOffer(v, o) => v = w

\* What no step does: a row is never deleted, its offer and its version never change.
AttemptsKept ==
    \A a \in Attempts : attempt[a].status # "absent" =>
        /\ attempt'[a].status # "absent"
        /\ attempt'[a].offer = attempt[a].offer
        /\ attempt'[a].version = attempt[a].version

-----------------------------------------------------------------------------
(* Columns of the row operators. *)

LEMMA OfferColumns ==
    /\ NoOffer \in OfferRow
    /\ \A r \in OfferRow :
          /\ r.version \in Nat
          /\ \A blank \in BOOLEAN :
                /\ DraftedRow(r, blank) \in OfferRow
                /\ DraftedRow(r, blank).status = "draft"
                /\ DraftedRow(r, blank).version = r.version + 1
          /\ /\ ReadyRow(r) \in OfferRow /\ ReadyRow(r).status = "ready"
             /\ ReadyRow(r).version = r.version /\ ReadyRow(r).frozen
             /\ ReadyRow(r).blank = r.blank
          /\ /\ SendingRow(r) \in OfferRow /\ SendingRow(r).status = "sending"
             /\ SendingRow(r).version = r.version /\ SendingRow(r).frozen
             /\ SendingRow(r).blank = r.blank
          /\ \A status \in {"sent", "failed", "voided"} :
                /\ OfferStatus(r, status) \in OfferRow
                /\ OfferStatus(r, status).status = status
                /\ OfferStatus(r, status).version = r.version
                /\ OfferStatus(r, status).frozen = r.frozen
                /\ OfferStatus(r, status).blank = r.blank
<1>1. NoOffer \in OfferRow
  BY DEF OfferRow, NoOffer
<1>2. ASSUME NEW r \in OfferRow PROVE r.version \in Nat
  BY DEF OfferRow
<1>3. ASSUME NEW r \in OfferRow, NEW blank \in BOOLEAN
      PROVE  /\ DraftedRow(r, blank) \in OfferRow
             /\ DraftedRow(r, blank).status = "draft"
             /\ DraftedRow(r, blank).version = r.version + 1
  <2>1. \A n \in Nat : n + 1 \in Nat
    OBVIOUS
  <2> QED
    BY <1>2, <2>1 DEF OfferRow, DraftedRow
<1>4. ASSUME NEW r \in OfferRow
      PROVE  /\ ReadyRow(r) \in OfferRow /\ ReadyRow(r).status = "ready"
             /\ ReadyRow(r).version = r.version /\ ReadyRow(r).frozen
             /\ ReadyRow(r).blank = r.blank
  BY DEF OfferRow, ReadyRow
<1>5. ASSUME NEW r \in OfferRow
      PROVE  /\ SendingRow(r) \in OfferRow /\ SendingRow(r).status = "sending"
             /\ SendingRow(r).version = r.version /\ SendingRow(r).frozen
             /\ SendingRow(r).blank = r.blank
  BY DEF OfferRow, SendingRow
<1>6. ASSUME NEW r \in OfferRow, NEW status \in {"sent", "failed", "voided"}
      PROVE  /\ OfferStatus(r, status) \in OfferRow
             /\ OfferStatus(r, status).status = status
             /\ OfferStatus(r, status).version = r.version
             /\ OfferStatus(r, status).frozen = r.frozen
             /\ OfferStatus(r, status).blank = r.blank
  BY DEF OfferRow, OfferStatus
<1> QED
  BY <1>1, <1>2, <1>3, <1>4, <1>5, <1>6

\* A row operator that keeps an attempt's identity.
SameAttempt(r, kept) ==
    /\ kept \in AttemptRow
    /\ kept.offer = r.offer
    /\ kept.version = r.version
    /\ kept.attempt_no = r.attempt_no

LEMMA AttemptColumns ==
    /\ NoAttempt \in AttemptRow
    /\ \A r \in AttemptRow :
          /\ r.offer \in Offers \cup {None} /\ r.attempt_no \in Nat /\ r.version \in Nat
          /\ SameAttempt(r, AgedRow(r)) /\ AgedRow(r).status = r.status /\ AgedRow(r).old
          /\ SameAttempt(r, DeadRow(r)) /\ DeadRow(r).status = "dead"
          /\ SameAttempt(r, RunningRow(r)) /\ RunningRow(r).status = "running"
          /\ SameAttempt(r, SucceededRow(r)) /\ SucceededRow(r).status = "succeeded"
          /\ \A status \in {"failed", "dead"} :
                SameAttempt(r, FailedRow(r, status)) /\ FailedRow(r, status).status = status
    /\ \A o \in Offers \cup {None}, n \in Nat, version \in Nat :
          /\ NewAttempt(o, n, version) \in AttemptRow
          /\ NewAttempt(o, n, version).status = "pending"
          /\ NewAttempt(o, n, version).offer = o
          /\ NewAttempt(o, n, version).version = version
          /\ NewAttempt(o, n, version).attempt_no = n
<1>1. NoAttempt \in AttemptRow
  BY DEF AttemptRow, NoAttempt
<1>2. ASSUME NEW r \in AttemptRow
      PROVE  r.offer \in Offers \cup {None} /\ r.attempt_no \in Nat /\ r.version \in Nat
  BY DEF AttemptRow
<1>3. ASSUME NEW r \in AttemptRow
      PROVE  SameAttempt(r, AgedRow(r)) /\ AgedRow(r).status = r.status /\ AgedRow(r).old
  BY DEF AttemptRow, AgedRow, SameAttempt
<1>4. ASSUME NEW r \in AttemptRow PROVE SameAttempt(r, DeadRow(r)) /\ DeadRow(r).status = "dead"
  BY DEF AttemptRow, DeadRow, SameAttempt
<1>5. ASSUME NEW r \in AttemptRow
      PROVE  SameAttempt(r, RunningRow(r)) /\ RunningRow(r).status = "running"
  BY DEF AttemptRow, RunningRow, SameAttempt
<1>6. ASSUME NEW r \in AttemptRow
      PROVE  SameAttempt(r, SucceededRow(r)) /\ SucceededRow(r).status = "succeeded"
  BY DEF AttemptRow, SucceededRow, SameAttempt
<1>7. ASSUME NEW r \in AttemptRow, NEW status \in {"failed", "dead"}
      PROVE  SameAttempt(r, FailedRow(r, status)) /\ FailedRow(r, status).status = status
  BY DEF AttemptRow, FailedRow, SameAttempt
<1>8. ASSUME NEW o \in Offers \cup {None}, NEW n \in Nat, NEW version \in Nat
      PROVE  /\ NewAttempt(o, n, version) \in AttemptRow
             /\ NewAttempt(o, n, version).status = "pending"
             /\ NewAttempt(o, n, version).offer = o
             /\ NewAttempt(o, n, version).version = version
             /\ NewAttempt(o, n, version).attempt_no = n
  BY DEF AttemptRow, NewAttempt
<1> QED
  BY <1>1, <1>2, <1>3, <1>4, <1>5, <1>6, <1>7, <1>8

-----------------------------------------------------------------------------
(* Types. *)

LEMMA OfferStepTypes ==
    ASSUME TypeOK, NEW o \in Offers, OfferStep(o)
    PROVE  TypeOK'
<1>0. offer \in [Offers -> OfferRow] /\ offer[o] \in OfferRow /\ offer[o].version \in Nat
      /\ attempt \in [Attempts -> AttemptRow] /\ mail \in [Attempts -> Nat] /\ sends \in Nat
  BY OfferColumns, AttemptColumns DEF TypeOK
<1> USE DEF workerVars, mailVars, counters
<1>1. CASE create_offer(o)
  BY <1>0, <1>1, OfferColumns DEF create_offer, TypeOK
<1>2. CASE update_offer_draft(o)
  BY <1>0, <1>2, OfferColumns DEF update_offer_draft, TypeOK
<1>3. CASE mark_offer_ready(o)
  BY <1>0, <1>3, OfferColumns DEF mark_offer_ready, TypeOK
<1>4. CASE void_offer(o)
  BY <1>0, <1>4, OfferColumns DEF void_offer, TypeOK
<1>5. ASSUME NEW a \in Attempts, StartSending(o, a) PROVE TypeOK'
  <2>1. NewAttempt(o, 1, offer[o].version) \in AttemptRow /\ SendingRow(offer[o]) \in OfferRow
    BY <1>0, OfferColumns, AttemptColumns
  <2>2. attempt' \in [Attempts -> AttemptRow] /\ mail' \in [Attempts -> Nat]
    BY <1>0, <1>5, <2>1 DEF StartSending, AddAttempt
  <2>3. offer' \in [Offers -> OfferRow] /\ sends' \in Nat
    BY <1>0, <1>5, <2>1 DEF StartSending
  <2> QED
    BY <1>5, <2>2, <2>3 DEF StartSending, TypeOK
<1> QED
  BY <1>1, <1>2, <1>3, <1>4, <1>5 DEF OfferStep, confirm_offer_send, retry_offer_send

LEMMA AttemptStepTypes ==
    ASSUME TypeOK, NEW a \in Attempts, AttemptStep(a)
    PROVE  TypeOK'
<1>0. /\ attempt \in [Attempts -> AttemptRow] /\ attempt[a] \in AttemptRow
      /\ offer \in [Offers -> OfferRow] /\ mail \in [Attempts -> Nat]
      /\ holds \in [Admins -> Attempts \cup {None}]
  BY DEF TypeOK
<1> USE DEF rowVars, workerVars, mailVars, counters
<1>1. CASE Redispatch(a)
  BY <1>0, <1>1 DEF Redispatch, TypeOK
<1>2. CASE StaleAgeReached(a)
  BY <1>0, <1>2, AttemptColumns DEF StaleAgeReached, SameAttempt, TypeOK
<1>3. CASE LoseMail(a)
  BY <1>0, <1>3 DEF LoseMail, TypeOK
<1>4. CASE DuplicateMail(a)
  BY <1>0, <1>4 DEF DuplicateMail, TypeOK
<1>5. CASE SkipSettled(a)
  BY <1>0, <1>5 DEF SkipSettled, TakeMail, TypeOK
<1>6. ASSUME NEW p \in Admins, LockStaleAttempt(p, a) PROVE TypeOK'
  BY <1>0, <1>6 DEF LockStaleAttempt, TypeOK
<1>7. ASSUME NEW p \in Admins, RecoverAttempt(p, a) PROVE TypeOK'
  <2>1. holds' \in [Admins -> Attempts \cup {None}]
    BY <1>0, <1>7 DEF RecoverAttempt
  <2>2. attempt' \in [Attempts -> AttemptRow]
    <3>1. attempt' = attempt \/ attempt' = [attempt EXCEPT ![a] = DeadRow(attempt[a])]
      BY <1>7 DEF RecoverAttempt
    <3>2. DeadRow(attempt[a]) \in AttemptRow
      BY <1>0, AttemptColumns DEF SameAttempt
    <3> QED
      BY <1>0, <3>1, <3>2
  <2>3. offer' \in [Offers -> OfferRow]
    <3> DEFINE o == attempt[a].offer
    <3>1. offer' = offer \/ offer' = [offer EXCEPT ![o] = OfferStatus(offer[o], "failed")]
      BY <1>7 DEF RecoverAttempt
    <3>2. o \in Offers => OfferStatus(offer[o], "failed") \in OfferRow
      BY <1>0, OfferColumns
    <3> HIDE DEF o
    <3> QED
      BY <1>0, <3>1, <3>2
  <2>4. recovered' \in Nat
    BY <1>7 DEF RecoverAttempt, TypeOK
  <2> QED
    BY <1>7, <2>1, <2>2, <2>3, <2>4 DEF RecoverAttempt, TypeOK
<1> QED
  BY <1>1, <1>2, <1>3, <1>4, <1>5, <1>6, <1>7 DEF AttemptStep

LEMMA FinishTypes ==
    ASSUME TypeOK, NEW w \in Workers, NEW a \in Attempts,
           \/ FinishSucceeded(w, a) \/ FinishDead(w, a)
           \/ \E next \in Attempts : FinishRetried(w, a, next)
    PROVE  TypeOK'
<1> DEFINE o == attempt[a].offer
<1>0. /\ attempt \in [Attempts -> AttemptRow] /\ attempt[a] \in AttemptRow
      /\ offer \in [Offers -> OfferRow] /\ mail \in [Attempts -> Nat]
      /\ o \in Offers \cup {None} /\ attempt[a].attempt_no \in Nat
      /\ attempt[a].version \in Nat
  BY OfferColumns, AttemptColumns DEF TypeOK
<1>1. /\ pc' \in [Workers -> {"idle", "claimed", "sending", "accepted", "refused", "duplicate"}]
      /\ on' \in [Workers -> Attempts \cup {None}]
  BY DEF FinishSucceeded, FinishDead, FinishRetried, Release, TypeOK
<1>2. \A status \in {"sent", "failed"} :
         [offer EXCEPT ![o] = OfferStatus(offer[o], status)] \in [Offers -> OfferRow]
  <2>1. \A status \in {"sent", "failed"} :
           o \in Offers => OfferStatus(offer[o], status) \in OfferRow
    BY <1>0, OfferColumns
  <2> HIDE DEF o
  <2> QED
    BY <1>0, <2>1
<1> USE DEF mailVars, counters
<1>3. CASE FinishSucceeded(w, a)
  <2>1. attempt' \in [Attempts -> AttemptRow] /\ offer' \in [Offers -> OfferRow]
    BY <1>0, <1>2, <1>3, AttemptColumns DEF FinishSucceeded, SameAttempt
  <2> QED
    BY <1>1, <1>3, <2>1 DEF FinishSucceeded, TypeOK
<1>4. CASE FinishDead(w, a)
  <2>1. attempt' \in [Attempts -> AttemptRow] /\ offer' \in [Offers -> OfferRow]
    BY <1>0, <1>2, <1>4, AttemptColumns DEF FinishDead, SameAttempt
  <2> QED
    BY <1>1, <1>4, <2>1 DEF FinishDead, TypeOK
<1>5. ASSUME NEW next \in Attempts, FinishRetried(w, a, next) PROVE TypeOK'
  <2> DEFINE failed == FailedRow(attempt[a], "failed")
             new    == NewAttempt(o, attempt[a].attempt_no + 1, attempt[a].version)
  <2>1. attempt[a].attempt_no + 1 \in Nat
    BY <1>0
  <2>2. failed \in AttemptRow
    BY <1>0, AttemptColumns DEF SameAttempt
  <2>6. new \in AttemptRow
    BY <1>0, <2>1, AttemptColumns
  <2>3. attempt' = [attempt EXCEPT ![a] = failed, ![next] = new]
    BY <1>5 DEF FinishRetried
  <2> HIDE DEF failed, new
  <2>4. attempt' \in [Attempts -> AttemptRow]
    BY <1>0, <2>2, <2>3, <2>6
  <2>5. mail' \in [Attempts -> Nat]
    BY <1>0, <1>5 DEF FinishRetried
  <2> QED
    BY <1>1, <1>5, <2>4, <2>5 DEF FinishRetried, TypeOK
<1> QED
  BY <1>3, <1>4, <1>5

LEMMA WorkerStepTypes ==
    ASSUME TypeOK, NEW w \in Workers, WorkerStep(w)
    PROVE  TypeOK'
<1>0. /\ attempt \in [Attempts -> AttemptRow] /\ mail \in [Attempts -> Nat]
      /\ pc \in [Workers -> {"idle", "claimed", "sending", "accepted", "refused", "duplicate"}]
      /\ on \in [Workers -> Attempts \cup {None}]
      /\ delivered \in [Offers -> Nat] /\ unrecorded \in [Offers -> Nat]
  BY DEF TypeOK
<1> USE DEF rowVars, mailVars, counters
<1>1. ASSUME NEW a \in Attempts, Claim(w, a) PROVE TypeOK'
  <2>1. attempt' \in [Attempts -> AttemptRow] /\ mail' \in [Attempts -> Nat]
    BY <1>0, <1>1, AttemptColumns DEF Claim, TakeMail, SameAttempt
  <2> QED
    BY <1>0, <1>1, <2>1 DEF Claim, TypeOK
<1>2. ASSUME NEW a \in Attempts, LockDuplicate(w, a) PROVE TypeOK'
  BY <1>0, <1>2 DEF LockDuplicate, TakeMail, TypeOK
<1>3. CASE DuplicateDone(w) \/ SkippedStaleOwner(w) \/ AbortDuplicate(w)
  BY <1>0, <1>3 DEF DuplicateDone, SkippedStaleOwner, AbortDuplicate, Release, TypeOK
<1>4. CASE LockOffer(w)
  BY <1>0, <1>4 DEF LockOffer, TypeOK
<1>5. CASE Deliver(w)
  BY <1>0, <1>5 DEF Deliver, TypeOK
<1>6. CASE Finish(w)
  BY <1>6, FinishTypes DEF Finish
<1>7. CASE Crash(w) \/ AbortSender(w)
  <2>1. unrecorded' \in [Offers -> Nat]
    BY <1>0, <1>7 DEF Crash, AbortSender, Forget
  <2> QED
    BY <1>0, <1>7, <2>1 DEF Crash, AbortSender, Release, TypeOK
<1> QED
  BY <1>1, <1>2, <1>3, <1>4, <1>5, <1>6, <1>7 DEF WorkerStep

\* Every variable of OfferMail keeps its type.
THEOREM MailTypeCorrect == Spec => []TypeOK
<1>1. Init => TypeOK
  BY OfferColumns, AttemptColumns DEF Init, TypeOK
<1>2. TypeOK /\ [Next]_vars => TypeOK'
  <2> SUFFICES ASSUME TypeOK, [Next]_vars PROVE TypeOK'
    OBVIOUS
  <2>1. ASSUME NEW p \in Admins, AbortRecovery(p) PROVE TypeOK'
    BY <2>1 DEF AbortRecovery, TypeOK, rowVars, workerVars, mailVars, counters
  <2>2. CASE CloseApplication
    BY <2>2 DEF CloseApplication, TypeOK, workerVars, mailVars, counters
  <2>3. CASE UNCHANGED vars
    BY <2>3 DEF vars, TypeOK, rowVars, workerVars, mailVars, counters
  <2> QED
    BY <2>1, <2>2, <2>3, OfferStepTypes, AttemptStepTypes, WorkerStepTypes DEF Next
<1> QED
  BY <1>1, <1>2, PTL DEF Spec

-----------------------------------------------------------------------------
(* Locks.  A recovery's attempt stays as it was read, an attempt stays with its offer,
   and the offer's lock has one holder.  What is proved of a step of a worker or of an
   API call goes through two frame lemmas: LocksKept for steps that leave every worker
   where it is, LocksMoved for a step of one worker. *)

HoldsInv ==
    /\ LockedStaysRunning
    /\ \A p, q \in Admins : holds[p] # None /\ holds[p] = holds[q] => p = q

LocksIInv == TypeOK /\ HoldsInv /\ RowsInv /\ LocksInv

\* An offer that is not locked by a worker may change, but neither to nor from "sent".
FreeOffersChange ==
    \A o \in Offers :
        \/ offer'[o].status = offer[o].status
        \/ OfferFree(o) /\ offer[o].status # "sent" /\ offer'[o].status # "sent"

NewRowsNameOffers ==
    \A a \in Attempts : attempt[a].status = "absent" /\ attempt'[a].status # "absent" =>
        attempt'[a].offer \in Offers

LEMMA LocksKept ==
    ASSUME TypeOK, RowsInv, LocksInv, AttemptsKept, NewRowsNameOffers, FreeOffersChange,
           pc' = pc, on' = on
    PROVE  /\ RowsInv' /\ LocksInv'
           /\ \A w \in Workers, o \in Offers : HasOffer(w, o)' <=> HasOffer(w, o)
<1>1. RowsInv'
  BY DEF RowsInv, AttemptsKept, NewRowsNameOffers
<1>2. ASSUME NEW w \in Workers, NEW o \in Offers PROVE HasOffer(w, o)' <=> HasOffer(w, o)
  <2>1. CASE pc[w] = "idle"
    BY <2>1 DEF HasOffer
  <2>2. CASE pc[w] # "idle"
    <3>1. attempt'[on[w]].offer = attempt[on[w]].offer
      BY <2>2 DEF RowsInv, AttemptsKept
    <3> QED
      BY <3>1 DEF HasOffer
  <2> QED
    BY <2>1, <2>2
<1>3. LocksInv'
  <2> SUFFICES ASSUME NEW w \in Workers, NEW o \in Offers, HasOffer(w, o)'
               PROVE  /\ offer'[o].status = "sending"
                      /\ \A v \in Workers : HasOffer(v, o)' => v = w
    BY DEF LocksInv
  <2>1. HasOffer(w, o)
    BY <1>2
  <2>2. offer'[o].status = offer[o].status
    BY <2>1 DEF FreeOffersChange, OfferFree
  <2> QED
    BY <1>2, <2>1, <2>2 DEF LocksInv
<1> QED
  BY <1>1, <1>2, <1>3

\* What a step of worker w may do to locks: it may change an offer it locked if it gives
\* the lock back, and what it holds afterwards was its own or free.
Moves(w) ==
    /\ \A v \in Workers : v # w => pc'[v] = pc[v] /\ on'[v] = on[v]
    /\ pc'[w] # "idle" => on'[w] \in Attempts /\ attempt'[on'[w]].status # "absent"
    /\ \A o \in Offers :
          /\ offer'[o].status = offer[o].status \/ (HasOffer(w, o) /\ ~HasOffer(w, o)')
          /\ HasOffer(w, o)' => /\ HasOffer(w, o) \/ OfferFree(o)
                                /\ offer[o].status = "sending"

LEMMA LocksMoved ==
    ASSUME TypeOK, RowsInv, LocksInv, AttemptsKept, NewRowsNameOffers,
           NEW w \in Workers, Moves(w)
    PROVE  /\ RowsInv' /\ LocksInv'
           /\ \A v \in Workers, o \in Offers : v # w => (HasOffer(v, o)' <=> HasOffer(v, o))
<1>1. RowsInv'
  <2>1. ASSUME NEW v \in Workers, pc'[v] # "idle"
        PROVE  on'[v] \in Attempts /\ attempt'[on'[v]].status # "absent"
    BY <2>1 DEF RowsInv, AttemptsKept, Moves
  <2>2. ASSUME NEW a \in Attempts, attempt'[a].status # "absent"
        PROVE  attempt'[a].offer \in Offers
    BY <2>2 DEF RowsInv, AttemptsKept, NewRowsNameOffers
  <2> QED
    BY <2>1, <2>2 DEF RowsInv
<1>2. ASSUME NEW v \in Workers, v # w, NEW o \in Offers
      PROVE  HasOffer(v, o)' <=> HasOffer(v, o)
  <2>0. pc'[v] = pc[v] /\ on'[v] = on[v]
    BY <1>2 DEF Moves
  <2>1. CASE pc[v] = "idle"
    BY <2>0, <2>1 DEF HasOffer
  <2>2. CASE pc[v] # "idle"
    <3>1. attempt'[on[v]].offer = attempt[on[v]].offer
      BY <2>2 DEF RowsInv, AttemptsKept
    <3> QED
      BY <2>0, <3>1 DEF HasOffer
  <2> QED
    BY <2>1, <2>2
<1>3. ASSUME NEW v \in Workers, NEW o \in Offers, HasOffer(v, o)'
      PROVE  /\ offer'[o].status = "sending"
             /\ \A u \in Workers : HasOffer(u, o)' => u = v
  <2>1. CASE v = w
    <3>1. offer'[o].status = "sending"
      BY <1>3, <2>1 DEF Moves
    <3>2. \A u \in Workers : u # w => ~HasOffer(u, o)
      BY <1>3, <2>1 DEF Moves, OfferFree, LocksInv
    <3> QED
      BY <1>2, <2>1, <3>1, <3>2
  <2>2. CASE v # w
    <3>1. HasOffer(v, o)
      BY <1>2, <1>3, <2>2
    <3>2. ~HasOffer(w, o) /\ ~OfferFree(o) /\ offer[o].status = "sending"
      BY <2>2, <3>1 DEF LocksInv, OfferFree
    <3>3. ~HasOffer(w, o)' /\ offer'[o].status = offer[o].status
      BY <3>2 DEF Moves
    <3> QED
      BY <1>2, <2>2, <3>1, <3>2, <3>3 DEF LocksInv
  <2> QED
    BY <2>1, <2>2
<1> QED
  BY <1>1, <1>2, <1>3 DEF LocksInv

LEMMA OfferStepLocks ==
    ASSUME LocksIInv, NEW o \in Offers, OfferStep(o)
    PROVE  /\ AttemptsKept /\ NewRowsNameOffers /\ FreeOffersChange /\ HoldsInv'
           /\ pc' = pc /\ on' = on /\ holds' = holds
           /\ delivered' = delivered /\ unrecorded' = unrecorded
<1>0. /\ offer \in [Offers -> OfferRow] /\ offer[o] \in OfferRow /\ offer[o].version \in Nat
      /\ attempt \in [Attempts -> AttemptRow] /\ holds \in [Admins -> Attempts \cup {None}]
  BY OfferColumns DEF LocksIInv, TypeOK
<1> USE DEF workerVars, mailVars, counters
<1>1. /\ pc' = pc /\ on' = on /\ holds' = holds
      /\ delivered' = delivered /\ unrecorded' = unrecorded
  BY DEF OfferStep, create_offer, update_offer_draft, mark_offer_ready, void_offer,
         confirm_offer_send, retry_offer_send, StartSending
<1>2. FreeOffersChange
  <2>1. CASE create_offer(o)
    <3>1. OfferFree(o)
      BY <2>1 DEF LocksIInv, LocksInv, OfferFree, create_offer
    <3>2. NoOffer \in OfferRow /\ offer[o].status = "absent"
      BY <2>1, OfferColumns DEF create_offer
    <3>3. DraftedRow(NoOffer, TRUE).status = "draft"
      BY <3>2, OfferColumns
    <3>4. /\ offer'[o] = DraftedRow(NoOffer, TRUE)
          /\ \A p \in Offers : p # o => offer'[p] = offer[p]
      BY <1>0, <2>1 DEF create_offer
    <3> QED
      BY <3>1, <3>2, <3>3, <3>4 DEF FreeOffersChange
  <2>2. CASE update_offer_draft(o)
    BY <1>0, <2>2, OfferColumns DEF update_offer_draft, FreeOffersChange
  <2>3. CASE mark_offer_ready(o)
    BY <1>0, <2>3, OfferColumns DEF mark_offer_ready, FreeOffersChange
  <2>4. CASE void_offer(o)
    BY <1>0, <2>4, OfferColumns DEF void_offer, FreeOffersChange
  <2>5. ASSUME NEW a \in Attempts, confirm_offer_send(o, a) \/ retry_offer_send(o, a)
        PROVE  FreeOffersChange
    BY <1>0, <2>5, OfferColumns
       DEF confirm_offer_send, retry_offer_send, StartSending, FreeOffersChange
  <2> QED
    BY <2>1, <2>2, <2>3, <2>4, <2>5 DEF OfferStep
<1>3. \/ attempt' = attempt
      \/ \E a \in Attempts : attempt[a].status = "absent" /\ AddAttempt(a, NewAttempt(o, 1, offer[o].version))
  BY DEF OfferStep, create_offer, update_offer_draft, mark_offer_ready, void_offer,
         confirm_offer_send, retry_offer_send, StartSending
<1>4. CASE attempt' = attempt
  <2>1. AttemptsKept /\ NewRowsNameOffers
    BY <1>4 DEF AttemptsKept, NewRowsNameOffers
  <2>2. HoldsInv'
    BY <1>1, <1>4 DEF HoldsInv, LockedStaysRunning, LocksIInv
  <2> QED
    BY <1>1, <1>2, <2>1, <2>2
<1>5. ASSUME NEW a \in Attempts, attempt[a].status = "absent",
             AddAttempt(a, NewAttempt(o, 1, offer[o].version))
      PROVE  AttemptsKept /\ NewRowsNameOffers /\ HoldsInv'
  <2>1. /\ NewAttempt(o, 1, offer[o].version).status = "pending"
        /\ NewAttempt(o, 1, offer[o].version).offer = o
    BY <1>0, AttemptColumns
  <2>2. /\ attempt'[a] = NewAttempt(o, 1, offer[o].version)
        /\ \A b \in Attempts : b # a => attempt'[b] = attempt[b]
    BY <1>0, <1>5 DEF AddAttempt
  <2>3. AttemptsKept /\ NewRowsNameOffers
    BY <1>5, <2>1, <2>2 DEF AttemptsKept, NewRowsNameOffers
  <2>4. HoldsInv'
    BY <1>0, <1>1, <1>5, <2>2 DEF HoldsInv, LockedStaysRunning, LocksIInv
  <2> QED
    BY <2>3, <2>4
<1> QED
  BY <1>1, <1>2, <1>3, <1>4, <1>5

LEMMA AttemptStepLocks ==
    ASSUME LocksIInv, NEW a \in Attempts, AttemptStep(a)
    PROVE  /\ AttemptsKept /\ NewRowsNameOffers /\ FreeOffersChange /\ HoldsInv'
           /\ pc' = pc /\ on' = on
           /\ delivered' = delivered /\ unrecorded' = unrecorded
<1>0. /\ attempt \in [Attempts -> AttemptRow] /\ attempt[a] \in AttemptRow
      /\ offer \in [Offers -> OfferRow] /\ holds \in [Admins -> Attempts \cup {None}]
  BY DEF LocksIInv, TypeOK
<1> USE DEF rowVars, workerVars, mailVars, counters
<1>1. /\ pc' = pc /\ on' = on
      /\ delivered' = delivered /\ unrecorded' = unrecorded
  BY DEF AttemptStep, Redispatch, StaleAgeReached, LoseMail, DuplicateMail, SkipSettled,
         LockStaleAttempt, RecoverAttempt
<1>2. CASE Redispatch(a) \/ LoseMail(a) \/ DuplicateMail(a) \/ SkipSettled(a)
  <2>1. attempt' = attempt /\ offer' = offer /\ holds' = holds
    BY <1>2 DEF Redispatch, LoseMail, DuplicateMail, SkipSettled
  <2> QED
    BY <1>1, <2>1 DEF AttemptsKept, NewRowsNameOffers, FreeOffersChange, HoldsInv,
                      LockedStaysRunning, LocksIInv
<1>3. CASE StaleAgeReached(a)
  <2>1. /\ offer' = offer /\ holds' = holds
        /\ attempt'[a] = AgedRow(attempt[a])
        /\ \A b \in Attempts : b # a => attempt'[b] = attempt[b]
    BY <1>0, <1>3 DEF StaleAgeReached
  <2>4. /\ AgedRow(attempt[a]).offer = attempt[a].offer
        /\ AgedRow(attempt[a]).version = attempt[a].version
        /\ AgedRow(attempt[a]).status = attempt[a].status
        /\ AgedRow(attempt[a]).old
    BY <1>0, AttemptColumns DEF SameAttempt
  <2>2. AttemptsKept /\ NewRowsNameOffers /\ FreeOffersChange
    BY <2>1, <2>4 DEF AttemptsKept, NewRowsNameOffers, FreeOffersChange
  <2>3. HoldsInv'
    <3>1. \A b \in Attempts : attempt[b].status = "running" /\ attempt[b].old =>
             attempt'[b].status = "running" /\ attempt'[b].old
      BY <2>1, <2>4
    <3> QED
      BY <1>0, <2>1, <3>1 DEF HoldsInv, LockedStaysRunning, LocksIInv
  <2> QED
    BY <1>1, <2>2, <2>3
<1>4. ASSUME NEW p \in Admins, LockStaleAttempt(p, a)
      PROVE  AttemptsKept /\ NewRowsNameOffers /\ FreeOffersChange /\ HoldsInv'
  <2>1. attempt' = attempt /\ offer' = offer
    BY <1>4 DEF LockStaleAttempt
  <2>2. HoldsInv'
    BY <1>0, <1>4, <2>1, NoneIsNoRow
       DEF LockStaleAttempt, AttemptFree, HoldsInv, LockedStaysRunning, LocksIInv
  <2> QED
    BY <2>1, <2>2 DEF AttemptsKept, NewRowsNameOffers, FreeOffersChange
<1>5. ASSUME NEW p \in Admins, RecoverAttempt(p, a)
      PROVE  AttemptsKept /\ NewRowsNameOffers /\ FreeOffersChange /\ HoldsInv'
  <2> DEFINE o == attempt[a].offer
  <2>1. attempt[a].status = "running" /\ a # None /\ holds[p] = a
    BY <1>5, NoneIsNoRow DEF LocksIInv, HoldsInv, LockedStaysRunning, RecoverAttempt
  <2>2. o \in Offers
    BY <2>1 DEF LocksIInv, RowsInv
  <2>3. /\ attempt'[a] \in {attempt[a], DeadRow(attempt[a])}
        /\ \A b \in Attempts : b # a => attempt'[b] = attempt[b]
    BY <1>0, <1>5 DEF RecoverAttempt
  <2>4. AttemptsKept /\ NewRowsNameOffers
    BY <1>0, <2>1, <2>3, AttemptColumns DEF AttemptsKept, NewRowsNameOffers, SameAttempt
  <2>5. /\ \A q \in Admins : q # p => holds'[q] = holds[q]
        /\ holds'[p] = None
    BY <1>0, <1>5 DEF RecoverAttempt
  <2>6. HoldsInv'
    <3>1. ASSUME NEW q \in Admins, holds'[q] # None
          PROVE  q # p /\ holds'[q] = holds[q] /\ holds[q] \in Attempts /\ holds[q] # a
      BY <1>0, <2>1, <2>5, <3>1 DEF LocksIInv, HoldsInv
    <3> QED
      BY <2>3, <3>1 DEF LocksIInv, HoldsInv, LockedStaysRunning
  <2>7. FreeOffersChange
    <3>1. OfferStatus(offer[o], "failed").status = "failed"
      BY <1>0, <2>2, OfferColumns
    <3>2. /\ OfferFree(o)
          /\ \/ offer' = offer
             \/ offer[o].status = "sending"
                /\ offer' = [offer EXCEPT ![o] = OfferStatus(offer[o], "failed")]
      BY <1>5 DEF RecoverAttempt
    <3> HIDE DEF o
    <3> QED
      BY <1>0, <2>2, <3>1, <3>2 DEF FreeOffersChange
  <2> QED
    BY <2>4, <2>6, <2>7
<1> QED
  BY <1>1, <1>2, <1>3, <1>4, <1>5 DEF AttemptStep

\* The step that ends a send, whatever the provider answered.
LEMMA FinishLocks ==
    ASSUME LocksIInv, NEW w \in Workers, Finish(w)
    PROVE  AttemptsKept /\ NewRowsNameOffers /\ HoldsInv' /\ Moves(w)
<1> PICK a \in Attempts : \/ FinishSucceeded(w, a) \/ FinishDead(w, a)
                          \/ \E next \in Attempts : FinishRetried(w, a, next)
  BY DEF Finish
<1> DEFINE o == attempt[a].offer
<1>0. /\ attempt \in [Attempts -> AttemptRow] /\ attempt[a] \in AttemptRow
      /\ attempt[a].attempt_no \in Nat /\ attempt[a].version \in Nat
      /\ offer \in [Offers -> OfferRow] /\ holds \in [Admins -> Attempts \cup {None}]
      /\ pc \in [Workers -> {"idle", "claimed", "sending", "accepted", "refused", "duplicate"}]
      /\ on \in [Workers -> Attempts \cup {None}]
  BY AttemptColumns DEF LocksIInv, TypeOK
<1>1. /\ on[w] = a /\ AttemptFree(a) /\ pc[w] \in {"accepted", "refused"}
      /\ holds' = holds /\ Release(w)
  BY DEF FinishSucceeded, FinishDead, FinishRetried, Owned
<1>2. attempt[a].status # "absent" /\ o \in Offers /\ HasOffer(w, o) /\ offer[o] \in OfferRow
  BY <1>0, <1>1 DEF LocksIInv, RowsInv, HasOffer
<1> DEFINE Closed ==
      /\ attempt'[a].status # "absent" /\ attempt'[a].offer = o
      /\ attempt'[a].version = attempt[a].version
      /\ \A b \in Attempts : b # a => \/ attempt'[b] = attempt[b]
                                      \/ /\ attempt[b].status = "absent"
                                         /\ attempt'[b].status = "pending"
                                         /\ attempt'[b].offer = o
<1>3. Closed
  <2>1. CASE FinishSucceeded(w, a) \/ FinishDead(w, a)
    <3>1. \E row \in {SucceededRow(attempt[a]), FailedRow(attempt[a], "dead")} :
             attempt' = [attempt EXCEPT ![a] = row]
      BY <2>1 DEF FinishSucceeded, FinishDead
    <3>2. \A row \in {SucceededRow(attempt[a]), FailedRow(attempt[a], "dead")} :
             row.status # "absent" /\ row.offer = o /\ row.version = attempt[a].version
      BY <1>0, AttemptColumns DEF SameAttempt
    <3> QED
      BY <1>0, <3>1, <3>2
  <2>2. ASSUME NEW next \in Attempts, FinishRetried(w, a, next) PROVE Closed
    <3> DEFINE failed == FailedRow(attempt[a], "failed")
               new    == NewAttempt(o, attempt[a].attempt_no + 1, attempt[a].version)
    <3>1. attempt' = [attempt EXCEPT ![a] = failed, ![next] = new] /\ attempt[next].status = "absent"
      BY <2>2 DEF FinishRetried
    <3>2. failed.status = "failed" /\ failed.offer = o /\ failed.version = attempt[a].version
      <4>1. attempt[a] \in AttemptRow /\ "failed" \in {"failed", "dead"}
        BY <1>0
      <4> QED
        BY ONLY <4>1, AttemptColumns DEF SameAttempt
    <3>3. new.status = "pending" /\ new.offer = o
      BY DEF NewAttempt
    <3>4. next # a
      BY <1>2, <3>1
    <3> HIDE DEF failed, new
    <3>5. /\ attempt'[a] = failed /\ attempt'[next] = new
          /\ \A b \in Attempts : b # a /\ b # next => attempt'[b] = attempt[b]
      BY <1>0, <3>1, <3>4
    <3> QED
      BY <3>1, <3>2, <3>3, <3>4, <3>5
  <2> QED
    BY <2>1, <2>2
<1>4. /\ pc'[w] = "idle"
      /\ \A v \in Workers : v # w => pc'[v] = pc[v] /\ on'[v] = on[v]
  BY <1>0, <1>1 DEF Release
<1>5. \A p \in Offers : p # o => offer'[p] = offer[p]
  BY <1>0 DEF FinishSucceeded, FinishDead, FinishRetried
<1>6. AttemptsKept /\ NewRowsNameOffers
  BY <1>2, <1>3 DEF AttemptsKept, NewRowsNameOffers
<1>7. HoldsInv'
  <2>1. \A p \in Admins : holds[p] # a
    BY <1>1 DEF AttemptFree
  <2>2. \A p \in Admins : holds[p] # None => attempt'[holds[p]] = attempt[holds[p]]
    BY <1>0, <1>3, <2>1 DEF LocksIInv, HoldsInv, LockedStaysRunning
  <2> QED
    BY <1>1, <2>2 DEF LocksIInv, HoldsInv, LockedStaysRunning
<1>8. Moves(w)
  <2>1. \A p \in Offers : ~HasOffer(w, p)'
    BY <1>4 DEF HasOffer
  <2> QED
    BY <1>2, <1>4, <1>5, <2>1 DEF Moves
<1> QED
  BY <1>6, <1>7, <1>8

LEMMA WorkerStepLocks ==
    ASSUME LocksIInv, NEW w \in Workers, WorkerStep(w)
    PROVE  AttemptsKept /\ NewRowsNameOffers /\ HoldsInv' /\ Moves(w)
<1>0. /\ attempt \in [Attempts -> AttemptRow] /\ holds \in [Admins -> Attempts \cup {None}]
      /\ pc \in [Workers -> {"idle", "claimed", "sending", "accepted", "refused", "duplicate"}]
      /\ on \in [Workers -> Attempts \cup {None}]
  BY DEF LocksIInv, TypeOK
<1> USE DEF rowVars, mailVars, counters
<1>1. ASSUME NEW a \in Attempts, Claim(w, a)
      PROVE  AttemptsKept /\ NewRowsNameOffers /\ HoldsInv' /\ Moves(w)
  <2>1. attempt[a] \in AttemptRow /\ AttemptFree(a) /\ attempt[a].status = "pending"
    BY <1>0, <1>1 DEF Claim, TakeMail
  <2>2. /\ attempt'[a] = RunningRow(attempt[a])
        /\ \A b \in Attempts : b # a => attempt'[b] = attempt[b]
        /\ offer' = offer /\ holds' = holds
    BY <1>0, <1>1 DEF Claim
  <2>3. /\ pc'[w] = "claimed" /\ on'[w] = a
        /\ \A v \in Workers : v # w => pc'[v] = pc[v] /\ on'[v] = on[v]
    BY <1>0, <1>1 DEF Claim
  <2>4. /\ RunningRow(attempt[a]).status = "running"
        /\ RunningRow(attempt[a]).offer = attempt[a].offer
        /\ RunningRow(attempt[a]).version = attempt[a].version
    BY <2>1, AttemptColumns DEF SameAttempt
  <2>5. AttemptsKept /\ NewRowsNameOffers
    BY <2>1, <2>2, <2>4 DEF AttemptsKept, NewRowsNameOffers
  <2>6. HoldsInv'
    <3>1. \A p \in Admins : holds[p] # None => attempt'[holds[p]] = attempt[holds[p]]
      BY <1>0, <2>1, <2>2 DEF AttemptFree
    <3> QED
      BY <2>2, <3>1 DEF LocksIInv, HoldsInv, LockedStaysRunning
  <2>7. Moves(w)
    <3>1. \A o \in Offers : ~HasOffer(w, o)'
      BY <2>3 DEF HasOffer
    <3> QED
      BY <2>2, <2>3, <2>4, <3>1 DEF Moves
  <2> QED
    BY <2>5, <2>6, <2>7
<1>2. ASSUME attempt' = attempt, holds' = holds
      PROVE  AttemptsKept /\ NewRowsNameOffers /\ HoldsInv'
  <2>1. HoldsInv'
    BY <1>2 DEF LocksIInv, HoldsInv, LockedStaysRunning
  <2> QED
    BY <1>2, <2>1 DEF AttemptsKept, NewRowsNameOffers
<1>3. ASSUME NEW a \in Attempts, LockDuplicate(w, a)
      PROVE  AttemptsKept /\ NewRowsNameOffers /\ HoldsInv' /\ Moves(w)
  <2>1. /\ attempt' = attempt /\ offer' = offer /\ holds' = holds
        /\ pc'[w] = "duplicate" /\ on'[w] = a /\ attempt[a].status = "running"
        /\ \A v \in Workers : v # w => pc'[v] = pc[v] /\ on'[v] = on[v]
    BY <1>0, <1>3 DEF LockDuplicate
  <2>2. \A o \in Offers : ~HasOffer(w, o)'
    BY <2>1 DEF HasOffer
  <2> QED
    BY <1>2, <2>1, <2>2 DEF Moves
<1>4. CASE LockOffer(w)
  <2>1. /\ attempt' = attempt /\ offer' = offer /\ holds' = holds
        /\ pc[w] = "claimed" /\ pc'[w] = "sending" /\ on' = on
        /\ \A v \in Workers : v # w => pc'[v] = pc[v]
    BY <1>0, <1>4 DEF LockOffer
  <2>2. \A o \in Offers : HasOffer(w, o)' => OfferFree(o) /\ offer[o].status = "sending"
    BY <1>4, <2>1 DEF LockOffer, HasOffer
  <2>3. on'[w] \in Attempts /\ attempt'[on'[w]].status # "absent"
    BY <2>1 DEF LocksIInv, RowsInv
  <2> QED
    BY <1>2, <2>1, <2>2, <2>3 DEF Moves
<1>5. CASE Deliver(w)
  <2>1. /\ attempt' = attempt /\ offer' = offer /\ holds' = holds
        /\ pc[w] = "sending" /\ pc'[w] \in {"accepted", "refused"} /\ on' = on
        /\ \A v \in Workers : v # w => pc'[v] = pc[v]
    BY <1>0, <1>5 DEF Deliver
  <2>2. \A o \in Offers : HasOffer(w, o)' => HasOffer(w, o)
    BY <2>1 DEF HasOffer
  <2>3. on'[w] \in Attempts /\ attempt'[on'[w]].status # "absent"
    BY <2>1 DEF LocksIInv, RowsInv
  <2> QED
    BY <1>2, <2>1, <2>2, <2>3 DEF Moves, LocksIInv, LocksInv
<1>6. CASE \/ DuplicateDone(w) \/ SkippedStaleOwner(w) \/ AbortDuplicate(w)
           \/ Crash(w) \/ AbortSender(w)
  <2>1. attempt' = attempt /\ offer' = offer /\ holds' = holds /\ Release(w)
    BY <1>6 DEF DuplicateDone, SkippedStaleOwner, AbortDuplicate, Crash, AbortSender
  <2>2. /\ pc'[w] = "idle"
        /\ \A v \in Workers : v # w => pc'[v] = pc[v] /\ on'[v] = on[v]
    BY <1>0, <2>1 DEF Release
  <2>3. \A o \in Offers : ~HasOffer(w, o)'
    BY <2>2 DEF HasOffer
  <2> QED
    BY <1>2, <2>1, <2>2, <2>3 DEF Moves
<1> QED
  BY <1>1, <1>3, <1>4, <1>5, <1>6, FinishLocks DEF WorkerStep

LEMMA StepLocks ==
    ASSUME LocksIInv, [Next]_vars
    PROVE  RowsInv' /\ LocksInv' /\ HoldsInv'
<1>0. TypeOK /\ RowsInv /\ LocksInv /\ HoldsInv
  BY DEF LocksIInv
<1>1. ASSUME NEW o \in Offers, OfferStep(o) PROVE RowsInv' /\ LocksInv' /\ HoldsInv'
  BY <1>0, <1>1, OfferStepLocks, LocksKept
<1>2. ASSUME NEW a \in Attempts, AttemptStep(a) PROVE RowsInv' /\ LocksInv' /\ HoldsInv'
  BY <1>0, <1>2, AttemptStepLocks, LocksKept
<1>3. ASSUME NEW w \in Workers, WorkerStep(w) PROVE RowsInv' /\ LocksInv' /\ HoldsInv'
  BY <1>0, <1>3, WorkerStepLocks, LocksMoved
<1>4. ASSUME offer' = offer, attempt' = attempt, pc' = pc, on' = on,
             holds' = holds \/ \E p \in Admins : holds' = [holds EXCEPT ![p] = None]
      PROVE  RowsInv' /\ LocksInv' /\ HoldsInv'
  <2>1. AttemptsKept /\ NewRowsNameOffers /\ FreeOffersChange
    BY <1>4 DEF AttemptsKept, NewRowsNameOffers, FreeOffersChange
  <2>2. HoldsInv'
    <3>1. \A q \in Admins : holds'[q] # None => holds'[q] = holds[q]
      BY <1>0, <1>4 DEF TypeOK
    <3> QED
      BY <1>0, <1>4, <3>1 DEF HoldsInv, LockedStaysRunning
  <2> QED
    BY <1>0, <1>4, <2>1, <2>2, LocksKept
<1>5. CASE (\E p \in Admins : AbortRecovery(p)) \/ CloseApplication \/ UNCHANGED vars
  BY <1>4, <1>5 DEF AbortRecovery, CloseApplication, vars, rowVars, workerVars
<1> QED
  BY <1>1, <1>2, <1>3, <1>5 DEF Next

LEMMA LocksInvariant == Spec => []LocksIInv
<1>1. Init => RowsInv /\ LocksInv /\ HoldsInv
  <2> SUFFICES ASSUME Init PROVE RowsInv /\ LocksInv /\ HoldsInv
    OBVIOUS
  <2>1. /\ \A a \in Attempts : attempt[a].status = "absent"
        /\ \A w \in Workers : pc[w] = "idle"
        /\ \A p \in Admins : holds[p] = None
    BY DEF Init, NoAttempt
  <2> QED
    BY <2>1 DEF RowsInv, LocksInv, HoldsInv, LockedStaysRunning, HasOffer
<1>2. LocksIInv /\ [Next]_vars /\ TypeOK' => LocksIInv'
  BY StepLocks DEF LocksIInv
<1> QED
  BY <1>1, <1>2, MailTypeCorrect, PTL DEF Spec, LocksIInv

\* An attempt locked for a recovery stays running and old until the recovery writes it.
THEOREM RecoveryReadsTrue == Spec => []LockedStaysRunning
BY LocksInvariant, PTL DEF LocksIInv, HoldsInv

-----------------------------------------------------------------------------
(* The account of mails. *)

Sending(w, o) == HasOffer(w, o) /\ pc[w] = "accepted"

Balance(o) ==
    delivered[o] = unrecorded[o]
                   + IF offer[o].status = "sent" \/ \E w \in Workers : Sending(w, o)
                     THEN 1 ELSE 0

LEMMA MailAccountedIsBalance == MailAccounted <=> \A o \in Offers : Balance(o)
BY DEF MailAccounted, Balance, Sending

\* No worker moves.
LEMMA BalanceKept ==
    ASSUME LocksIInv, FreeOffersChange, pc' = pc,
           \A w \in Workers, o \in Offers : HasOffer(w, o)' <=> HasOffer(w, o),
           delivered' = delivered, unrecorded' = unrecorded,
           NEW o \in Offers, Balance(o)
    PROVE  Balance(o)'
<1>1. offer'[o].status = "sent" <=> offer[o].status = "sent"
  BY DEF FreeOffersChange
<1>2. \A w \in Workers : Sending(w, o)' <=> Sending(w, o)
  BY DEF Sending
<1> QED
  BY <1>1, <1>2 DEF Balance

\* Worker w moves; only what it holds matters to what it changes.
LEMMA BalanceMoved ==
    ASSUME LocksIInv, NEW w \in Workers, Moves(w),
           \A v \in Workers, o \in Offers : v # w => (HasOffer(v, o)' <=> HasOffer(v, o)),
           NEW o \in Offers, Balance(o),
           \/ /\ Sending(w, o)' <=> Sending(w, o)
              /\ delivered'[o] = delivered[o] /\ unrecorded'[o] = unrecorded[o]
              /\ offer'[o].status = "sent" => offer[o].status = "sent"
              /\ offer[o].status = "sent" => offer'[o].status = "sent"
           \/ /\ HasOffer(w, o) /\ ~Sending(w, o) /\ Sending(w, o)'
              /\ delivered'[o] = delivered[o] + 1 /\ unrecorded'[o] = unrecorded[o]
           \/ /\ Sending(w, o) /\ ~Sending(w, o)' /\ offer'[o].status = "sent"
              /\ delivered'[o] = delivered[o] /\ unrecorded'[o] = unrecorded[o]
           \/ /\ Sending(w, o) /\ ~Sending(w, o)' /\ offer'[o].status # "sent"
              /\ delivered'[o] = delivered[o] /\ unrecorded'[o] = unrecorded[o] + 1
    PROVE  Balance(o)'
<1>0. delivered[o] \in Nat /\ unrecorded[o] \in Nat
  BY DEF LocksIInv, TypeOK
<1>1. \A v \in Workers : v # w => (Sending(v, o)' <=> Sending(v, o))
  BY DEF Sending, Moves
<1>2. ASSUME HasOffer(w, o)
      PROVE  /\ offer[o].status # "sent"
             /\ \A v \in Workers : v # w => ~Sending(v, o)
  BY <1>2 DEF LocksIInv, LocksInv, Sending
<1>3. CASE Sending(w, o)' <=> Sending(w, o)
  BY <1>1, <1>2, <1>3 DEF Balance, Sending
<1>4. CASE HasOffer(w, o) /\ ~Sending(w, o) /\ Sending(w, o)'
  BY <1>0, <1>2, <1>4 DEF Balance
<1>5. CASE Sending(w, o) /\ ~Sending(w, o)'
  <2>1. \A v \in Workers : ~Sending(v, o)'
    BY <1>1, <1>2, <1>5 DEF Sending
  <2> QED
    BY <1>0, <1>2, <1>5, <2>1 DEF Balance, Sending
<1> QED
  BY <1>3, <1>4, <1>5

LEMMA BalanceOfWorkerStep ==
    ASSUME LocksIInv, NEW w \in Workers, WorkerStep(w), NEW o \in Offers, Balance(o)
    PROVE  Balance(o)'
<1>0. /\ offer \in [Offers -> OfferRow] /\ attempt \in [Attempts -> AttemptRow]
      /\ pc \in [Workers -> {"idle", "claimed", "sending", "accepted", "refused", "duplicate"}]
      /\ delivered \in [Offers -> Nat] /\ unrecorded \in [Offers -> Nat]
  BY DEF LocksIInv, TypeOK
<1>1. /\ Moves(w)
      /\ \A v \in Workers, p \in Offers : v # w => (HasOffer(v, p)' <=> HasOffer(v, p))
  BY WorkerStepLocks, LocksMoved DEF LocksIInv
<1>2. ASSUME pc[w] # "accepted", pc'[w] # "accepted",
             delivered' = delivered, unrecorded' = unrecorded,
             offer'[o].status = "sent" <=> offer[o].status = "sent"
      PROVE  Balance(o)'
  BY <1>1, <1>2, BalanceMoved DEF Sending
<1> USE DEF rowVars, mailVars, counters
<1>3. CASE \E a \in Attempts : Claim(w, a) \/ LockDuplicate(w, a)
  BY <1>0, <1>2, <1>3 DEF Claim, LockDuplicate
<1>4. CASE LockOffer(w) \/ DuplicateDone(w) \/ SkippedStaleOwner(w) \/ AbortDuplicate(w)
  BY <1>0, <1>2, <1>4 DEF LockOffer, DuplicateDone, SkippedStaleOwner, AbortDuplicate, Release
<1>5. CASE Deliver(w)
  <2>1. /\ pc[w] = "sending" /\ pc'[w] \in {"accepted", "refused"}
        /\ on' = on /\ attempt' = attempt /\ offer' = offer /\ unrecorded' = unrecorded
    BY <1>0, <1>5 DEF Deliver
  <2>2. ~Sending(w, o) /\ (HasOffer(w, o)' <=> HasOffer(w, o))
    BY <2>1 DEF Sending, HasOffer
  <2>3. CASE pc'[w] = "refused"
    BY <1>0, <1>2, <1>5, <2>1, <2>3 DEF Deliver
  <2>4. CASE pc'[w] = "accepted" /\ HasOffer(w, o)
    <3>1. delivered'[o] = delivered[o] + 1
      BY <1>0, <1>5, <2>1, <2>4 DEF Deliver, HasOffer
    <3>2. Sending(w, o)'
      BY <2>2, <2>4 DEF Sending
    <3> QED
      BY <1>1, <2>1, <2>2, <2>4, <3>1, <3>2, BalanceMoved
  <2>5. CASE ~HasOffer(w, o)
    <3>1. delivered'[o] = delivered[o]
      BY <1>0, <1>5, <2>1, <2>5 DEF Deliver, HasOffer
    <3>2. ~Sending(w, o)'
      BY <2>2, <2>5 DEF Sending
    <3> QED
      BY <1>1, <2>1, <2>2, <3>1, <3>2, BalanceMoved
  <2> QED
    BY <2>1, <2>3, <2>4, <2>5
<1>6. ASSUME NEW a \in Attempts, FinishSucceeded(w, a) PROVE Balance(o)'
  <2>1. /\ pc[w] = "accepted" /\ on[w] = a /\ pc'[w] = "idle"
        /\ delivered' = delivered /\ unrecorded' = unrecorded
        /\ offer' = [offer EXCEPT ![attempt[a].offer] =
                                  OfferStatus(offer[attempt[a].offer], "sent")]
    BY <1>0, <1>6 DEF FinishSucceeded, Owned, Release
  <2>2. ~Sending(w, o)'
    BY <2>1 DEF Sending
  <2>3. CASE HasOffer(w, o)
    <3>1. attempt[a].offer = o /\ Sending(w, o)
      BY <2>1, <2>3 DEF HasOffer, Sending
    <3>2. offer'[o].status = "sent"
      BY <1>0, <2>1, <3>1, OfferColumns
    <3> QED
      BY <1>1, <2>1, <2>2, <3>1, <3>2, BalanceMoved
  <2>4. CASE ~HasOffer(w, o)
    <3>1. attempt[a].offer # o /\ ~Sending(w, o)
      BY <2>1, <2>4 DEF HasOffer, Sending
    <3>2. offer'[o] = offer[o]
      BY <1>0, <2>1, <3>1
    <3> QED
      BY <1>1, <2>1, <2>2, <3>1, <3>2, BalanceMoved
  <2> QED
    BY <2>3, <2>4
<1>7. ASSUME NEW a \in Attempts, FinishDead(w, a) \/ \E next \in Attempts : FinishRetried(w, a, next)
      PROVE  Balance(o)'
  <2>1. /\ pc[w] = "refused" /\ on[w] = a /\ pc'[w] = "idle"
        /\ delivered' = delivered /\ unrecorded' = unrecorded
        /\ \/ offer' = offer
           \/ offer' = [offer EXCEPT ![attempt[a].offer] =
                                     OfferStatus(offer[attempt[a].offer], "failed")]
    BY <1>0, <1>7 DEF FinishDead, FinishRetried, Owned, Release
  <2>2. offer'[o].status = "sent" <=> offer[o].status = "sent"
    <3>1. CASE attempt[a].offer = o
      <4>1. HasOffer(w, o)
        BY <2>1, <3>1 DEF HasOffer
      <4>2. offer[o].status # "sent" /\ OfferStatus(offer[o], "failed").status = "failed"
        BY <1>0, <4>1, OfferColumns DEF LocksIInv, LocksInv
      <4> QED
        BY <1>0, <2>1, <3>1, <4>2
    <3>2. CASE attempt[a].offer # o
      BY <1>0, <2>1, <3>2
    <3> QED
      BY <3>1, <3>2
  <2> QED
    BY <1>2, <2>1, <2>2
<1>8. CASE Crash(w) \/ AbortSender(w)
  <2>1. /\ pc'[w] = "idle" /\ offer' = offer /\ delivered' = delivered /\ Forget(w)
    BY <1>0, <1>8 DEF Crash, AbortSender, Release
  <2>2. ~Sending(w, o)'
    BY <2>1 DEF Sending
  <2>3. CASE pc[w] # "accepted"
    BY <1>2, <2>1, <2>3 DEF Forget
  <2>4. CASE pc[w] = "accepted" /\ HasOffer(w, o)
    <3>1. unrecorded'[o] = unrecorded[o] + 1
      BY <1>0, <2>1, <2>4 DEF Forget, HasOffer
    <3>2. offer'[o].status # "sent"
      BY <2>1, <2>4 DEF LocksIInv, LocksInv
    <3> QED
      BY <1>1, <2>1, <2>2, <2>4, <3>1, <3>2, BalanceMoved DEF Sending
  <2>5. CASE pc[w] = "accepted" /\ ~HasOffer(w, o)
    <3>1. unrecorded'[o] = unrecorded[o]
      BY <1>0, <2>1, <2>5 DEF Forget, HasOffer
    <3>2. ~Sending(w, o)
      BY <2>5 DEF Sending
    <3> QED
      BY <1>1, <2>1, <2>2, <3>1, <3>2, BalanceMoved
  <2> QED
    BY <2>3, <2>4, <2>5
<1> QED
  BY <1>3, <1>4, <1>5, <1>6, <1>7, <1>8 DEF WorkerStep, Finish

\* Every mail that a provider accepted is the one that made its offer sent, or is about
\* to be recorded, or lost its worker before the commit.
THEOREM MailsAccounted == Spec => []MailAccounted
<1>1. Init => MailAccounted
  <2> SUFFICES ASSUME Init, NEW o \in Offers PROVE Balance(o)
    BY MailAccountedIsBalance
  <2>1. /\ offer[o].status # "sent" /\ delivered[o] = 0 /\ unrecorded[o] = 0
        /\ \A w \in Workers : pc[w] = "idle"
    BY DEF Init, NoOffer
  <2> QED
    BY <2>1 DEF Balance, Sending
<1>2. LocksIInv /\ MailAccounted /\ [Next]_vars => MailAccounted'
  <2> SUFFICES ASSUME LocksIInv, MailAccounted, [Next]_vars, NEW o \in Offers
               PROVE  Balance(o)'
    BY MailAccountedIsBalance DEF MailAccounted, Balance, Sending
  <2>0. Balance(o) /\ TypeOK /\ RowsInv /\ LocksInv
    BY MailAccountedIsBalance DEF LocksIInv
  <2>1. ASSUME NEW p \in Offers, OfferStep(p) PROVE Balance(o)'
    BY <2>0, <2>1, OfferStepLocks, LocksKept, BalanceKept
  <2>2. ASSUME NEW a \in Attempts, AttemptStep(a) PROVE Balance(o)'
    BY <2>0, <2>2, AttemptStepLocks, LocksKept, BalanceKept
  <2>3. ASSUME NEW w \in Workers, WorkerStep(w) PROVE Balance(o)'
    BY <2>0, <2>3, BalanceOfWorkerStep
  <2>4. CASE (\E p \in Admins : AbortRecovery(p)) \/ CloseApplication \/ UNCHANGED vars
    <3>1. /\ offer' = offer /\ attempt' = attempt /\ pc' = pc /\ on' = on
          /\ delivered' = delivered /\ unrecorded' = unrecorded
      BY <2>4 DEF AbortRecovery, CloseApplication, vars, rowVars, workerVars, mailVars
    <3> QED
      BY <2>0, <3>1 DEF Balance, Sending, HasOffer
  <2> QED
    BY <2>1, <2>2, <2>3, <2>4 DEF Next
<1> QED
  BY <1>1, <1>2, LocksInvariant, PTL DEF Spec

-----------------------------------------------------------------------------
(* The moves of an offer. *)

Texts ==
    \A o \in Offers :
        /\ offer[o].status = "absent" => offer[o].version = 0
        /\ offer[o].status \in {"ready", "sending", "sent", "failed"} =>
              offer[o].frozen /\ ~offer[o].blank

SameText(r, row) == row.version = r.version /\ row.frozen = r.frozen /\ row.blank = r.blank

\* What a step may do to the row of an offer.
OfferMove(r, row) ==
    \/ /\ r.status \in {"absent", "draft", "ready"}
       /\ row.status = "draft" /\ row.version = r.version + 1
    \/ /\ r.status = "draft" /\ row.status = "ready"
       /\ row.version = r.version /\ row.frozen /\ ~row.blank
    \/ /\ r.status \in {"ready", "failed"} /\ row.status = "sending"
       /\ row.version = r.version /\ row.frozen /\ row.blank = r.blank
    \/ /\ r.status = "sending" /\ row.status \in {"sent", "failed"} /\ SameText(r, row)
    \/ /\ r.status \in {"draft", "ready", "failed"} /\ row.status = "voided"
       /\ SameText(r, row)

OffersMove ==
    \/ offer' = offer
    \/ \E o \in Offers, row \in OfferRow :
          offer' = [offer EXCEPT ![o] = row] /\ OfferMove(offer[o], row)

LEMMA OneOfferMoves ==
    ASSUME NEW o \in Offers, NEW row \in OfferRow,
           offer' = [offer EXCEPT ![o] = row], OfferMove(offer[o], row)
    PROVE  OffersMove
  BY DEF OffersMove

LEMMA OfferStepMoves ==
    ASSUME LocksIInv, Texts, NEW o \in Offers, OfferStep(o)
    PROVE  OffersMove
<1>0. offer \in [Offers -> OfferRow] /\ offer[o] \in OfferRow
  BY DEF LocksIInv, TypeOK
<1>1. CASE create_offer(o)
  <2>1. /\ DraftedRow(NoOffer, TRUE) \in OfferRow
        /\ DraftedRow(NoOffer, TRUE).status = "draft"
        /\ DraftedRow(NoOffer, TRUE).version = NoOffer.version + 1
    BY OfferColumns
  <2>2. NoOffer.version = 0 /\ offer[o].version = 0 /\ offer[o].status = "absent"
    BY <1>1 DEF NoOffer, Texts, create_offer
  <2>3. OfferMove(offer[o], DraftedRow(NoOffer, TRUE))
    BY <2>1, <2>2 DEF OfferMove
  <2> QED
    BY <1>1, <2>1, <2>3, OneOfferMoves DEF create_offer
<1>2. CASE update_offer_draft(o)
  <2>1. PICK blank \in BOOLEAN : offer' = [offer EXCEPT ![o] = DraftedRow(offer[o], blank)]
    BY <1>2 DEF update_offer_draft
  <2>2. DraftedRow(offer[o], blank) \in OfferRow /\ OfferMove(offer[o], DraftedRow(offer[o], blank))
    BY <1>0, <1>2, OfferColumns DEF update_offer_draft, OfferMove
  <2> QED
    BY <2>1, <2>2, OneOfferMoves
<1>3. CASE mark_offer_ready(o)
  <2>1. ReadyRow(offer[o]) \in OfferRow /\ OfferMove(offer[o], ReadyRow(offer[o]))
    BY <1>0, <1>3, OfferColumns DEF mark_offer_ready, OfferMove
  <2> QED
    BY <1>3, <2>1, OneOfferMoves DEF mark_offer_ready
<1>4. CASE void_offer(o)
  <2>1. /\ OfferStatus(offer[o], "voided") \in OfferRow
        /\ OfferMove(offer[o], OfferStatus(offer[o], "voided"))
    BY <1>0, <1>4, OfferColumns DEF void_offer, OfferMove, SameText
  <2> QED
    BY <1>4, <2>1, OneOfferMoves DEF void_offer
<1>5. ASSUME NEW a \in Attempts, confirm_offer_send(o, a) \/ retry_offer_send(o, a)
      PROVE  OffersMove
  <2>1. SendingRow(offer[o]) \in OfferRow /\ OfferMove(offer[o], SendingRow(offer[o]))
    BY <1>0, <1>5, OfferColumns DEF confirm_offer_send, retry_offer_send, OfferMove
  <2> QED
    BY <1>5, <2>1, OneOfferMoves DEF confirm_offer_send, retry_offer_send, StartSending
<1> QED
  BY <1>1, <1>2, <1>3, <1>4, <1>5 DEF OfferStep

\* A settled send moves an offer that is being sent.
LEMMA SettledMoves ==
    ASSUME LocksIInv, NEW o \in Offers, offer[o].status = "sending",
           NEW status \in {"sent", "failed"},
           offer' = [offer EXCEPT ![o] = OfferStatus(offer[o], status)]
    PROVE  OffersMove
<1>1. offer[o] \in OfferRow
  BY DEF LocksIInv, TypeOK
<1>2. OfferStatus(offer[o], status) \in OfferRow /\ OfferMove(offer[o], OfferStatus(offer[o], status))
  BY <1>1, OfferColumns DEF OfferMove, SameText
<1> QED
  BY <1>2, OneOfferMoves

\* The row and the offer of an attempt that a worker is about to settle.
LEMMA FinishOwns ==
    ASSUME LocksIInv, NEW w \in Workers, NEW a \in Attempts, on[w] = a,
           pc[w] \in {"accepted", "refused"}
    PROVE  /\ attempt[a] \in AttemptRow /\ attempt[a].status # "absent"
           /\ attempt[a].offer \in Offers /\ offer[attempt[a].offer].status = "sending"
<1>1. attempt[a].status # "absent" /\ attempt[a].offer \in Offers
  BY DEF LocksIInv, RowsInv
<1>2. HasOffer(w, attempt[a].offer)
  BY <1>1 DEF HasOffer
<1> QED
  BY <1>1, <1>2 DEF LocksIInv, LocksInv, TypeOK

LEMMA StepMoves ==
    ASSUME LocksIInv, Texts, [Next]_vars
    PROVE  OffersMove
<1>1. ASSUME NEW o \in Offers, OfferStep(o) PROVE OffersMove
  BY <1>1, OfferStepMoves
<1>2. ASSUME NEW a \in Attempts, AttemptStep(a) PROVE OffersMove
  <2>1. ASSUME NEW p \in Admins, RecoverAttempt(p, a) PROVE OffersMove
    <3> DEFINE o == attempt[a].offer
    <3>1. a # None /\ holds[p] = a
      BY <2>1, NoneIsNoRow DEF RecoverAttempt
    <3>2. o \in Offers
      BY <3>1 DEF LocksIInv, HoldsInv, LockedStaysRunning, RowsInv
    <3>3. \/ offer' = offer
          \/ /\ offer[o].status = "sending"
             /\ offer' = [offer EXCEPT ![o] = OfferStatus(offer[o], "failed")]
      BY <2>1 DEF RecoverAttempt
    <3> HIDE DEF o
    <3> QED
      BY <3>2, <3>3, SettledMoves DEF OffersMove
  <2>2. (\E p \in Admins : RecoverAttempt(p, a)) \/ offer' = offer
    BY <1>2 DEF AttemptStep, Redispatch, StaleAgeReached, LoseMail, DuplicateMail, SkipSettled,
       LockStaleAttempt, rowVars
  <2> QED
    BY <2>1, <2>2 DEF OffersMove
<1>3. ASSUME NEW w \in Workers, WorkerStep(w) PROVE OffersMove
  <2>1. ASSUME NEW a \in Attempts, FinishSucceeded(w, a) \/ FinishDead(w, a) PROVE OffersMove
    <3> DEFINE o == attempt[a].offer
    <3>1. on[w] = a /\ pc[w] \in {"accepted", "refused"}
      BY <2>1 DEF FinishSucceeded, FinishDead, Owned
    <3>2. o \in Offers /\ offer[o].status = "sending"
      BY <3>1, FinishOwns
    <3>3. \E status \in {"sent", "failed"} :
             offer' = [offer EXCEPT ![o] = OfferStatus(offer[o], status)]
      BY <2>1 DEF FinishSucceeded, FinishDead
    <3> HIDE DEF o
    <3> QED
      BY <3>2, <3>3, SettledMoves
  <2>2. \/ \E a \in Attempts : FinishSucceeded(w, a) \/ FinishDead(w, a)
        \/ offer' = offer
    BY <1>3 DEF WorkerStep, Finish, FinishRetried, Claim, LockDuplicate, DuplicateDone, LockOffer,
       SkippedStaleOwner, Deliver, Crash, AbortSender, AbortDuplicate, rowVars
  <2> QED
    BY <2>1, <2>2 DEF OffersMove
<1>4. CASE (\E p \in Admins : AbortRecovery(p)) \/ CloseApplication \/ UNCHANGED vars
  BY <1>4 DEF AbortRecovery, CloseApplication, vars, rowVars, OffersMove
<1> QED
  BY <1>1, <1>2, <1>3, <1>4 DEF Next

LEMMA TextsKept ==
    ASSUME TypeOK, Texts, OffersMove
    PROVE  Texts'
<1>1. CASE offer' = offer
  BY <1>1 DEF Texts
<1>2. ASSUME NEW o \in Offers, NEW row \in OfferRow,
             offer' = [offer EXCEPT ![o] = row], OfferMove(offer[o], row)
      PROVE  Texts'
  <2>1. /\ offer'[o] = row
        /\ \A p \in Offers : p # o => offer'[p] = offer[p]
    BY <1>2 DEF TypeOK
  <2>2. /\ row.status # "absent"
        /\ row.status \in {"ready", "sending", "sent", "failed"} => row.frozen /\ ~row.blank
    BY <1>2 DEF OfferMove, SameText, Texts
  <2> QED
    BY <2>1, <2>2 DEF Texts
<1> QED
  BY <1>1, <1>2 DEF OffersMove

LEMMA TextsInvariant == Spec => []Texts
<1>1. Init => Texts
  <2>1. NoOffer.status = "absent" /\ NoOffer.version = 0
    BY DEF NoOffer
  <2>2. Init => \A o \in Offers : offer[o] = NoOffer
    BY DEF Init
  <2> QED
    BY <2>1, <2>2 DEF Texts
<1>2. LocksIInv /\ Texts /\ [Next]_vars => Texts'
  BY StepMoves, TextsKept DEF LocksIInv
<1> QED
  BY <1>1, <1>2, LocksInvariant, PTL DEF Spec

\* Attempts, workers, recoveries and locks implement the lifecycle that is promised of
\* an offer: sent and voided are final, and a text is not changed once confirmed.
THEOREM OfferLifecycleImplemented == Spec => ImplementsLifecycle
<1>1. Init => Lifecycle!Init
  BY DEF Init, Lifecycle!Init, NoOffer, PhaseOf
<1>2. ASSUME TypeOK, OffersMove PROVE [Lifecycle!Next]_(Lifecycle!offerVars)
  <2>1. CASE offer' = offer
    BY <2>1 DEF Lifecycle!offerVars
  <2>2. ASSUME NEW o \in Offers, NEW row \in OfferRow,
               offer' = [offer EXCEPT ![o] = row], OfferMove(offer[o], row)
        PROVE  Lifecycle!Next
    <3>1. /\ offer'[o] = row /\ offer' \in [Offers -> OfferRow]
          /\ \A p \in Offers : p # o => offer'[p] = offer[p]
      BY <1>2, <2>2 DEF TypeOK
    <3>2. ASSUME NEW from, PhaseOf(offer[o].status) \in from
          PROVE  Lifecycle!Move(o, from, PhaseOf(row.status))
      BY <3>1, <3>2 DEF Lifecycle!Move
    <3>3. row.version = offer[o].version => UNCHANGED [p \in Offers |-> offer[p].version]
      BY <3>1
    <3>4. /\ row.status # "absent"
          /\ PhaseOf(row.status) = row.status
      BY <2>2 DEF OfferMove, PhaseOf
    <3>5. CASE /\ offer[o].status \in {"absent", "draft", "ready"}
               /\ row.status = "draft" /\ row.version = offer[o].version + 1
      <4>1. Lifecycle!Move(o, {"none", "draft", "ready"}, "draft")
        BY <3>2, <3>4, <3>5 DEF PhaseOf
      <4>2. [p \in Offers |-> offer'[p].version] =
               [[p \in Offers |-> offer[p].version] EXCEPT ![o] = offer[o].version + 1]
        BY <3>1, <3>5
      <4>3. Lifecycle!Draft(o)
        BY <4>1, <4>2 DEF Lifecycle!Draft
      <4> QED
        BY <4>3 DEF Lifecycle!Next
    <3>6. CASE offer[o].status = "draft" /\ row.status = "ready" /\ row.version = offer[o].version
      <4>1. Lifecycle!MarkReady(o)
        BY <3>2, <3>3, <3>4, <3>6 DEF Lifecycle!MarkReady, PhaseOf
      <4> QED
        BY <4>1 DEF Lifecycle!Next
    <3>7. CASE /\ offer[o].status \in {"ready", "failed"} /\ row.status = "sending"
               /\ row.version = offer[o].version
      <4>1. Lifecycle!Send(o)
        BY <3>2, <3>3, <3>4, <3>7 DEF Lifecycle!Send, PhaseOf
      <4> QED
        BY <4>1 DEF Lifecycle!Next
    <3>8. CASE /\ offer[o].status = "sending" /\ row.status \in {"sent", "failed"}
               /\ row.version = offer[o].version
      <4>1. Lifecycle!Succeed(o) \/ Lifecycle!Fail(o)
        BY <3>2, <3>3, <3>4, <3>8 DEF Lifecycle!Succeed, Lifecycle!Fail, PhaseOf
      <4> QED
        BY <4>1 DEF Lifecycle!Next
    <3>9. CASE /\ offer[o].status \in {"draft", "ready", "failed"} /\ row.status = "voided"
               /\ row.version = offer[o].version
      <4>1. Lifecycle!Void(o)
        BY <3>2, <3>3, <3>4, <3>9 DEF Lifecycle!Void, PhaseOf
      <4> QED
        BY <4>1 DEF Lifecycle!Next
    <3> QED
      BY <2>2, <3>5, <3>6, <3>7, <3>8, <3>9 DEF OfferMove, SameText
  <2> QED
    BY <1>2, <2>1, <2>2 DEF OffersMove
<1>3. LocksIInv /\ Texts /\ [Next]_vars => [Lifecycle!Next]_(Lifecycle!offerVars)
  BY <1>2, StepMoves DEF LocksIInv
<1> QED
  BY <1>1, <1>3, LocksInvariant, TextsInvariant, PTL DEF Spec, ImplementsLifecycle, Lifecycle!Spec

-----------------------------------------------------------------------------
(* What was confirmed is what is sent.  An attempt names a version of an offer that can
   no longer be drafted: OffersMove leaves the text of such an offer alone. *)

Confirmed(row, r) ==
    /\ row.status \in {"sending", "sent", "failed", "voided"}
    /\ r.version = row.version
    /\ row.frozen /\ ~row.blank

\* A new attempt is of the version that is current after the step.
NewRowsConfirmed ==
    \A a \in Attempts : attempt[a].status = "absent" /\ attempt'[a].status # "absent" =>
        attempt'[a].offer \in Offers /\ Confirmed(offer'[attempt'[a].offer], attempt'[a])

LEMMA ConfirmedKept ==
    ASSUME TypeOK, RowsInv, SentAsConfirmed, OffersMove, AttemptsKept, NewRowsConfirmed
    PROVE  SentAsConfirmed'
<1>1. ASSUME NEW o \in Offers, NEW r, Confirmed(offer[o], r)
      PROVE  Confirmed(offer'[o], r)
  <2>1. CASE offer' = offer
    BY <1>1, <2>1
  <2>2. ASSUME NEW p \in Offers, NEW row \in OfferRow,
               offer' = [offer EXCEPT ![p] = row], OfferMove(offer[p], row)
        PROVE  Confirmed(offer'[o], r)
    <3>1. offer'[p] = row /\ (o # p => offer'[o] = offer[o])
      BY <2>2 DEF TypeOK
    <3> QED
      BY <1>1, <2>2, <3>1 DEF Confirmed, OfferMove, SameText
  <2> QED
    BY <2>1, <2>2 DEF OffersMove
<1> SUFFICES ASSUME NEW a \in Attempts, attempt'[a].status # "absent"
             PROVE  Confirmed(offer'[attempt'[a].offer], attempt'[a])
  BY DEF SentAsConfirmed, Confirmed
<1>2. CASE attempt[a].status = "absent"
  BY <1>2 DEF NewRowsConfirmed
<1>3. CASE attempt[a].status # "absent"
  <2>1. /\ attempt'[a].offer = attempt[a].offer /\ attempt'[a].version = attempt[a].version
        /\ attempt[a].offer \in Offers
    BY <1>3 DEF AttemptsKept, RowsInv
  <2>2. Confirmed(offer[attempt[a].offer], attempt[a])
    BY <1>3 DEF SentAsConfirmed, Confirmed
  <2>3. Confirmed(offer'[attempt[a].offer], attempt[a])
    BY <1>1, <2>1, <2>2
  <2> QED
    BY <2>1, <2>3 DEF Confirmed
<1> QED
  BY <1>2, <1>3

LEMMA StartConfirmed ==
    ASSUME LocksIInv, Texts, NEW o \in Offers, NEW a \in Attempts, StartSending(o, a),
           offer[o].status \in {"ready", "failed"}
    PROVE  NewRowsConfirmed
<1> DEFINE new == NewAttempt(o, 1, offer[o].version)
<1>0. /\ offer \in [Offers -> OfferRow] /\ offer[o] \in OfferRow /\ offer[o].version \in Nat
      /\ attempt \in [Attempts -> AttemptRow]
  BY OfferColumns DEF LocksIInv, TypeOK
<1>1. new.offer = o /\ new.version = offer[o].version
  BY <1>0, AttemptColumns
<1>2. offer'[o] = SendingRow(offer[o])
  BY <1>0 DEF StartSending
<1> HIDE DEF new
<1>3. Confirmed(offer'[o], new)
  BY <1>0, <1>1, <1>2, OfferColumns DEF Confirmed, Texts
<1>4. attempt' = [attempt EXCEPT ![a] = new]
  BY DEF StartSending, AddAttempt, new
<1>5. /\ attempt'[a] = new
      /\ \A b \in Attempts : b # a => attempt'[b] = attempt[b]
  BY <1>0, <1>4
<1> QED
  BY <1>1, <1>3, <1>5 DEF NewRowsConfirmed

LEMMA RetryConfirmed ==
    ASSUME LocksIInv, SentAsConfirmed, NEW w \in Workers, NEW a \in Attempts,
           NEW next \in Attempts, FinishRetried(w, a, next)
    PROVE  NewRowsConfirmed
<1> DEFINE o == attempt[a].offer
           failed == FailedRow(attempt[a], "failed")
           new == NewAttempt(o, attempt[a].attempt_no + 1, attempt[a].version)
<1>1. /\ on[w] = a /\ pc[w] = "refused" /\ attempt[next].status = "absent" /\ offer' = offer
      /\ attempt' = [attempt EXCEPT ![a] = failed, ![next] = new]
  BY DEF FinishRetried, Owned
<1>2. attempt[a] \in AttemptRow /\ attempt[a].status # "absent" /\ o \in Offers
  BY <1>1, FinishOwns
<1>3. new.offer = o /\ new.version = attempt[a].version
  BY DEF NewAttempt
<1>4. Confirmed(offer'[o], new)
  BY <1>1, <1>2, <1>3 DEF Confirmed, SentAsConfirmed
<1> HIDE DEF failed, new, o
<1>5. /\ attempt'[next] = new
      /\ \A b \in Attempts : b # a /\ b # next => attempt'[b] = attempt[b]
  BY <1>1, <1>2 DEF LocksIInv, TypeOK
<1> QED
  BY <1>2, <1>3, <1>4, <1>5 DEF NewRowsConfirmed

LEMMA StepConfirmed ==
    ASSUME LocksIInv, Texts, SentAsConfirmed, [Next]_vars
    PROVE  AttemptsKept /\ NewRowsConfirmed
<1> DEFINE Kept == attempt' = attempt \/ \E a \in Attempts : attempt[a].status # "absent"
                                            /\ \E row : attempt' = [attempt EXCEPT ![a] = row]
<1>0. attempt \in [Attempts -> AttemptRow]
  BY DEF LocksIInv, TypeOK
<1>1. ASSUME Kept PROVE NewRowsConfirmed
  <2>1. CASE attempt' = attempt
    BY <2>1 DEF NewRowsConfirmed
  <2>2. ASSUME NEW a \in Attempts, attempt[a].status # "absent", NEW row,
               attempt' = [attempt EXCEPT ![a] = row]
        PROVE  NewRowsConfirmed
    BY <1>0, <2>2 DEF NewRowsConfirmed
  <2> QED
    BY <1>1, <2>1, <2>2
<1>2. ASSUME NEW o \in Offers, OfferStep(o) PROVE AttemptsKept /\ NewRowsConfirmed
  <2>1. AttemptsKept
    BY <1>2, OfferStepLocks
  <2>2. CASE \E a \in Attempts : confirm_offer_send(o, a) \/ retry_offer_send(o, a)
    BY <2>1, <2>2, StartConfirmed DEF confirm_offer_send, retry_offer_send
  <2>3. CASE create_offer(o) \/ update_offer_draft(o) \/ mark_offer_ready(o) \/ void_offer(o)
    BY <1>1, <2>1, <2>3 DEF create_offer, update_offer_draft, mark_offer_ready, void_offer
  <2> QED
    BY <1>2, <2>2, <2>3 DEF OfferStep
<1>3. ASSUME NEW a \in Attempts, AttemptStep(a) PROVE AttemptsKept /\ NewRowsConfirmed
  <2>1. AttemptsKept
    BY <1>3, AttemptStepLocks
  <2>2. CASE StaleAgeReached(a)
    BY <1>1, <2>1, <2>2 DEF StaleAgeReached
  <2>3. ASSUME NEW p \in Admins, RecoverAttempt(p, a) PROVE Kept
    <3>1. attempt[a].status = "running"
      BY <2>3, NoneIsNoRow DEF RecoverAttempt, LocksIInv, HoldsInv, LockedStaysRunning
    <3> QED
      BY <2>3, <3>1 DEF RecoverAttempt
  <2>4. CASE attempt' = attempt
    BY <1>1, <2>1, <2>4
  <2> QED
    BY <1>1, <1>3, <2>1, <2>2, <2>3, <2>4
       DEF AttemptStep, Redispatch, LoseMail, DuplicateMail, SkipSettled, LockStaleAttempt, rowVars
<1>4. ASSUME NEW w \in Workers, WorkerStep(w) PROVE AttemptsKept /\ NewRowsConfirmed
  <2>1. AttemptsKept
    BY <1>4, WorkerStepLocks
  <2>2. ASSUME NEW a \in Attempts, FinishSucceeded(w, a) \/ FinishDead(w, a) PROVE Kept
    <3>1. on[w] = a /\ pc[w] \in {"accepted", "refused"}
      BY <2>2 DEF FinishSucceeded, FinishDead, Owned
    <3>2. attempt[a].status # "absent"
      BY <3>1, FinishOwns
    <3> QED
      BY <2>2, <3>2 DEF FinishSucceeded, FinishDead
  <2>3. ASSUME NEW a \in Attempts, Claim(w, a) PROVE Kept
    BY <2>3 DEF Claim
  <2>4. CASE attempt' = attempt
    BY <1>1, <2>1, <2>4
  <2>5. CASE \E a, next \in Attempts : FinishRetried(w, a, next)
    BY <2>1, <2>5, RetryConfirmed
  <2> HIDE DEF Kept
  <2>6. \/ \E a \in Attempts : FinishSucceeded(w, a) \/ FinishDead(w, a) \/ Claim(w, a)
        \/ \E a, next \in Attempts : FinishRetried(w, a, next)
        \/ attempt' = attempt
    BY <1>4 DEF WorkerStep, Finish, LockDuplicate, DuplicateDone, LockOffer,
       SkippedStaleOwner, Deliver, Crash, AbortSender, AbortDuplicate, rowVars
  <2> QED
    BY <1>1, <2>1, <2>2, <2>3, <2>4, <2>5, <2>6
<1>5. CASE (\E p \in Admins : AbortRecovery(p)) \/ CloseApplication \/ UNCHANGED vars
  <2>1. attempt' = attempt
    BY <1>5 DEF AbortRecovery, CloseApplication, vars, rowVars
  <2> QED
    BY <1>1, <2>1 DEF AttemptsKept
<1> QED
  BY <1>2, <1>3, <1>4, <1>5 DEF Next

\* What a worker mails is what was confirmed, through failures, retries and recoveries.
THEOREM ConfirmedIsSent == Spec => []SentAsConfirmed
<1>1. Init => SentAsConfirmed
  BY DEF Init, SentAsConfirmed, NoAttempt
<1>2. LocksIInv /\ Texts /\ SentAsConfirmed /\ [Next]_vars => SentAsConfirmed'
  BY StepMoves, StepConfirmed, ConfirmedKept DEF LocksIInv
<1> QED
  BY <1>1, <1>2, LocksInvariant, TextsInvariant, PTL DEF Spec

-----------------------------------------------------------------------------
(* Who handles an attempt.  A worker claims a pending attempt, so two never handle the
   same one, and only a recovery can settle it under its hands. *)

Busy(w) == pc[w] \in {"claimed", "sending", "accepted", "refused"}

Owners ==
    \A w \in Workers : Busy(w) =>
        /\ attempt[on[w]].status \in {"running", "dead"}
        /\ recovered = 0 => attempt[on[w]].status = "running"
        /\ \A v \in Workers : Busy(v) /\ on[v] = on[w] => v = w

LEMMA OwnersKept ==
    ASSUME Owners, recovered' = 0 => recovered = 0,
           \A w \in Workers : Busy(w)' => /\ Busy(w) /\ on'[w] = on[w]
                                          /\ attempt'[on[w]].status = attempt[on[w]].status
    PROVE  Owners'
  BY DEF Owners

LEMMA OwnersOfOfferStep ==
    ASSUME LocksIInv, Owners, NEW o \in Offers, OfferStep(o)
    PROVE  Owners'
<1>1. pc' = pc /\ on' = on /\ recovered' = recovered
  BY DEF OfferStep, create_offer, update_offer_draft, mark_offer_ready, void_offer,
         confirm_offer_send, retry_offer_send, StartSending, workerVars, counters
<1>2. \/ attempt' = attempt
      \/ \E a \in Attempts : \E row : /\ attempt[a].status = "absent"
                                      /\ attempt' = [attempt EXCEPT ![a] = row]
  BY DEF OfferStep, create_offer, update_offer_draft, mark_offer_ready, void_offer,
         confirm_offer_send, retry_offer_send, StartSending, AddAttempt
<1>3. \A w \in Workers : Busy(w) => attempt'[on[w]].status = attempt[on[w]].status
  <2>1. CASE attempt' = attempt
    BY <2>1
  <2>2. ASSUME NEW a \in Attempts, NEW row, attempt[a].status = "absent",
               attempt' = [attempt EXCEPT ![a] = row], NEW w \in Workers, Busy(w)
        PROVE  attempt'[on[w]].status = attempt[on[w]].status
    <3>1. on[w] \in Attempts /\ on[w] # a
      BY <2>2 DEF Owners, Busy, LocksIInv, RowsInv
    <3> QED
      BY <2>2, <3>1 DEF LocksIInv, TypeOK
  <2> QED
    BY <1>2, <2>1, <2>2
<1> QED
  BY <1>1, <1>3, OwnersKept DEF Busy

LEMMA OwnersOfAttemptStep ==
    ASSUME LocksIInv, Owners, NEW a \in Attempts, AttemptStep(a)
    PROVE  Owners'
<1>0. attempt \in [Attempts -> AttemptRow] /\ attempt[a] \in AttemptRow /\ recovered \in Nat
  BY DEF LocksIInv, TypeOK
<1>1. pc' = pc /\ on' = on
  BY AttemptStepLocks
<1>2. CASE Redispatch(a) \/ LoseMail(a) \/ DuplicateMail(a) \/ SkipSettled(a)
           \/ \E p \in Admins : LockStaleAttempt(p, a)
  <2>1. attempt' = attempt /\ recovered' = recovered
    BY <1>2 DEF Redispatch, LoseMail, DuplicateMail, SkipSettled, LockStaleAttempt, rowVars, counters
  <2> QED
    BY <1>1, <2>1, OwnersKept DEF Busy
<1>3. CASE StaleAgeReached(a)
  <2>1. attempt' = [attempt EXCEPT ![a] = AgedRow(attempt[a])] /\ recovered' = recovered
    BY <1>3 DEF StaleAgeReached, counters
  <2>2. AgedRow(attempt[a]).status = attempt[a].status
    BY <1>0, AttemptColumns
  <2>3. \A b \in Attempts : attempt'[b].status = attempt[b].status
    BY <1>0, <2>1, <2>2
  <2> QED
    BY <1>1, <2>1, <2>3, OwnersKept DEF Busy, LocksIInv, RowsInv
<1>4. ASSUME NEW p \in Admins, RecoverAttempt(p, a) PROVE Owners'
  <2>1. CASE attempt' = attempt /\ recovered' = recovered
    BY <1>1, <2>1, OwnersKept DEF Busy
  <2>2. CASE attempt' = [attempt EXCEPT ![a] = DeadRow(attempt[a])] /\ recovered' = recovered + 1
    <3>1. DeadRow(attempt[a]).status = "dead" /\ recovered' # 0
      BY <1>0, <2>2, AttemptColumns
    <3>2. \A b \in Attempts : attempt'[b].status \in {attempt[b].status, "dead"}
      BY <1>0, <2>2, <3>1
    <3>3. \A w \in Workers : Busy(w) => on[w] \in Attempts
      BY DEF Busy, LocksIInv, RowsInv
    <3> QED
      BY <1>1, <3>1, <3>2, <3>3 DEF Owners, Busy
  <2> QED
    BY <1>4, <2>1, <2>2 DEF RecoverAttempt
<1> QED
  BY <1>2, <1>3, <1>4 DEF AttemptStep

LEMMA OwnersOfFinish ==
    ASSUME LocksIInv, Owners, NEW w \in Workers, Finish(w)
    PROVE  Owners'
<1>1. PICK a \in Attempts : \/ FinishSucceeded(w, a) \/ FinishDead(w, a)
                            \/ \E next \in Attempts : FinishRetried(w, a, next)
  BY DEF Finish
<1>2. /\ on[w] = a /\ Busy(w) /\ Release(w) /\ recovered' = recovered
  BY <1>1 DEF FinishSucceeded, FinishDead, FinishRetried, Owned, Busy, counters
<1>3. /\ ~Busy(w)'
      /\ \A v \in Workers : v # w => pc'[v] = pc[v] /\ on'[v] = on[v]
  BY <1>2 DEF Release, Busy, LocksIInv, TypeOK
<1>4. \A b \in Attempts : b # a /\ attempt[b].status # "absent" => attempt'[b] = attempt[b]
  BY <1>1 DEF FinishSucceeded, FinishDead, FinishRetried, LocksIInv, TypeOK
<1>5. ASSUME NEW v \in Workers, Busy(v)'
      PROVE  /\ Busy(v) /\ on'[v] = on[v]
             /\ attempt'[on[v]].status = attempt[on[v]].status
  <2>1. v # w
    BY <1>3, <1>5
  <2>2. Busy(v) /\ on'[v] = on[v]
    BY <1>3, <1>5, <2>1 DEF Busy
  <2>3. on[v] # a /\ on[v] \in Attempts /\ attempt[on[v]].status # "absent"
    BY <1>2, <2>1, <2>2 DEF Owners, Busy, LocksIInv, RowsInv
  <2> QED
    BY <1>4, <2>2, <2>3
<1> QED
  BY <1>2, <1>5, OwnersKept

LEMMA OwnersOfWorkerStep ==
    ASSUME LocksIInv, Owners, NEW w \in Workers, WorkerStep(w)
    PROVE  Owners'
<1>0. /\ attempt \in [Attempts -> AttemptRow] /\ on \in [Workers -> Attempts \cup {None}]
      /\ pc \in [Workers -> {"idle", "claimed", "sending", "accepted", "refused", "duplicate"}]
  BY DEF LocksIInv, TypeOK
<1> USE DEF rowVars, mailVars, counters
<1>1. ASSUME NEW a \in Attempts, Claim(w, a) PROVE Owners'
  <2>1. /\ attempt'[a] = RunningRow(attempt[a]) /\ attempt[a].status = "pending"
        /\ \A b \in Attempts : b # a => attempt'[b] = attempt[b]
        /\ pc'[w] = "claimed" /\ on'[w] = a /\ pc[w] = "idle" /\ recovered' = recovered
        /\ \A v \in Workers : v # w => pc'[v] = pc[v] /\ on'[v] = on[v]
    BY <1>0, <1>1 DEF Claim
  <2>2. attempt'[a].status = "running"
    BY <1>0, <2>1, AttemptColumns
  <2>3. ASSUME NEW v \in Workers, v # w, Busy(v)
        PROVE  on[v] \in Attempts /\ on[v] # a /\ attempt'[on[v]] = attempt[on[v]]
    BY <2>1, <2>3 DEF Owners, Busy, LocksIInv, RowsInv
  <2>4. \A v \in Workers : v # w => (Busy(v)' <=> Busy(v))
    BY <2>1 DEF Busy
  <2>5. ASSUME NEW v \in Workers, Busy(v)'
        PROVE  /\ attempt'[on'[v]].status \in {"running", "dead"}
               /\ recovered' = 0 => attempt'[on'[v]].status = "running"
               /\ \A u \in Workers : Busy(u)' /\ on'[u] = on'[v] => u = v
    <3>1. CASE v = w
      BY <2>1, <2>2, <2>3, <2>4, <3>1
    <3>2. CASE v # w
      BY <2>1, <2>3, <2>4, <2>5, <3>2 DEF Owners
    <3> QED
      BY <3>1, <3>2
  <2> QED
    BY <2>5 DEF Owners
<1>2. CASE \/ LockOffer(w) \/ Deliver(w)
           \/ \E a \in Attempts : LockDuplicate(w, a)
  <2>1. /\ attempt' = attempt /\ recovered' = recovered
        /\ \A v \in Workers : Busy(v)' => Busy(v) /\ on'[v] = on[v]
    BY <1>0, <1>2 DEF LockOffer, Deliver, LockDuplicate, Busy
  <2> QED
    BY <2>1, OwnersKept
<1>3. CASE \/ DuplicateDone(w) \/ SkippedStaleOwner(w) \/ AbortDuplicate(w)
           \/ Crash(w) \/ AbortSender(w)
  <2>1. attempt' = attempt /\ recovered' = recovered /\ Release(w)
    BY <1>3 DEF DuplicateDone, SkippedStaleOwner, AbortDuplicate, Crash, AbortSender
  <2>2. \A v \in Workers : Busy(v)' => Busy(v) /\ on'[v] = on[v]
    BY <1>0, <2>1 DEF Release, Busy
  <2> QED
    BY <2>1, <2>2, OwnersKept
<1> QED
  BY <1>1, <1>2, <1>3, OwnersOfFinish DEF WorkerStep

LEMMA OwnersInvariant == Spec => []Owners
<1>1. Init => Owners
  BY DEF Init, Owners, Busy
<1>2. ASSUME LocksIInv, Owners, [Next]_vars PROVE Owners'
  <2>1. CASE (\E p \in Admins : AbortRecovery(p)) \/ CloseApplication \/ UNCHANGED vars
    <3>1. pc' = pc /\ on' = on /\ attempt' = attempt /\ recovered' = recovered
      BY <2>1 DEF AbortRecovery, CloseApplication, vars, rowVars, workerVars, counters
    <3> QED
      BY <1>2, <3>1, OwnersKept DEF Busy
  <2> QED
    BY <1>2, <2>1, OwnersOfOfferStep, OwnersOfAttemptStep, OwnersOfWorkerStep DEF Next
<1>3. LocksIInv /\ Owners /\ [Next]_vars => Owners'
  BY <1>2
<1> QED
  BY <1>1, <1>3, LocksInvariant, PTL DEF Spec

-----------------------------------------------------------------------------
(* The moves of the attempts: what a step may do to them, and to the offers that are
   being sent. *)

SendingBy(o) == offer[o].status = "sending"

SendingSame == \A o \in Offers : SendingBy(o)' <=> SendingBy(o)

OnlyRow(a, row) ==
    /\ row \in AttemptRow
    /\ attempt'[a] = row
    /\ \A b \in Attempts : b # a => attempt'[b] = attempt[b]

Touched(a, row) ==
    /\ OnlyRow(a, row) /\ SendingSame /\ SameAttempt(attempt[a], row)
    /\ attempt[a].status \in {"pending", "running"} /\ row.status \in {attempt[a].status, "running"}

Recovered(a, row) ==
    /\ OnlyRow(a, row) /\ SameAttempt(attempt[a], row) /\ recovered' # 0
    /\ attempt[a].status = "running" /\ row.status = "dead"

Started(o, a, row) ==
    /\ OnlyRow(a, row) /\ attempt[a].status = "absent"
    /\ row.status = "pending" /\ row.offer = o /\ row.attempt_no = 1
    /\ ~SendingBy(o) /\ SendingBy(o)'
    /\ \A p \in Offers : p # o => (SendingBy(p)' <=> SendingBy(p))

\* An attempt that a worker handles, whose offer it has locked.
Handled(a) ==
    /\ attempt[a].status \in {"running", "dead"}
    /\ recovered = 0 => attempt[a].status = "running"
    /\ attempt[a].offer \in Offers /\ SendingBy(attempt[a].offer)

Settled(a, row) ==
    /\ OnlyRow(a, row) /\ SameAttempt(attempt[a], row) /\ Handled(a)
    /\ row.status \in {"succeeded", "dead"}
    /\ \A p \in Offers : SendingBy(p)' <=> SendingBy(p) /\ p # attempt[a].offer

Retried(a, next, failed, new) ==
    /\ failed \in AttemptRow /\ new \in AttemptRow
    /\ attempt'[a] = failed /\ attempt'[next] = new
    /\ \A b \in Attempts : b # a /\ b # next => attempt'[b] = attempt[b]
    /\ Handled(a) /\ attempt[next].status = "absent" /\ SendingSame
    /\ SameAttempt(attempt[a], failed) /\ failed.status = "failed"
    /\ attempt[a].attempt_no < MaxAuto
    /\ new.status = "pending" /\ new.offer = attempt[a].offer
    /\ new.attempt_no = attempt[a].attempt_no + 1

AttemptsMove ==
    /\ recovered' = 0 => recovered = 0
    /\ \/ attempt' = attempt /\ SendingSame
       \/ \E a \in Attempts, row \in AttemptRow :
              Touched(a, row) \/ Recovered(a, row) \/ Settled(a, row)
       \/ \E o \in Offers, a \in Attempts, row \in AttemptRow : Started(o, a, row)
       \/ \E a, next \in Attempts, failed, new \in AttemptRow : Retried(a, next, failed, new)

LEMMA OfferStepSends ==
    ASSUME LocksIInv, NEW o \in Offers, OfferStep(o)
    PROVE  AttemptsMove
<1>0. /\ offer \in [Offers -> OfferRow] /\ offer[o] \in OfferRow /\ offer[o].version \in Nat
      /\ attempt \in [Attempts -> AttemptRow]
  BY OfferColumns DEF LocksIInv, TypeOK
<1>1. recovered' = recovered
  BY DEF OfferStep, create_offer, update_offer_draft, mark_offer_ready, void_offer,
         confirm_offer_send, retry_offer_send, StartSending, counters
<1>2. ASSUME NEW row, attempt' = attempt, offer' = [offer EXCEPT ![o] = row],
             row.status # "sending", offer[o].status # "sending"
      PROVE  AttemptsMove
    BY <1>0, <1>1, <1>2 DEF AttemptsMove, SendingSame, SendingBy
<1>3. CASE create_offer(o)
  <2>1. DraftedRow(NoOffer, TRUE).status = "draft"
    BY OfferColumns
  <2> QED
    BY <1>2, <1>3, <2>1 DEF create_offer
<1>4. CASE update_offer_draft(o)
  <2>1. PICK blank \in BOOLEAN : offer' = [offer EXCEPT ![o] = DraftedRow(offer[o], blank)]
    BY <1>4 DEF update_offer_draft
  <2>2. DraftedRow(offer[o], blank).status = "draft"
    BY <1>0, OfferColumns
  <2> QED
    BY <1>2, <1>4, <2>1, <2>2 DEF update_offer_draft
<1>5. CASE mark_offer_ready(o)
  <2>1. ReadyRow(offer[o]).status = "ready"
    BY <1>0, OfferColumns
  <2> QED
    BY <1>2, <1>5, <2>1 DEF mark_offer_ready
<1>6. CASE void_offer(o)
  <2>1. OfferStatus(offer[o], "voided").status = "voided"
    BY <1>0, OfferColumns
  <2> QED
    BY <1>2, <1>6, <2>1 DEF void_offer
<1>7. ASSUME NEW a \in Attempts, StartSending(o, a), offer[o].status # "sending"
      PROVE  AttemptsMove
  <2> DEFINE new == NewAttempt(o, 1, offer[o].version)
  <2>1. /\ new \in AttemptRow /\ new.status = "pending" /\ new.offer = o /\ new.attempt_no = 1
    BY <1>0, AttemptColumns
  <2>2. /\ attempt[a].status = "absent" /\ attempt' = [attempt EXCEPT ![a] = new]
        /\ offer' = [offer EXCEPT ![o] = SendingRow(offer[o])]
    BY <1>7 DEF StartSending, AddAttempt
  <2> HIDE DEF new
  <2>3. OnlyRow(a, new)
    BY <1>0, <2>1, <2>2 DEF OnlyRow
  <2>4. /\ ~SendingBy(o) /\ SendingBy(o)'
        /\ \A p \in Offers : p # o => (SendingBy(p)' <=> SendingBy(p))
    BY <1>0, <1>7, <2>2, OfferColumns DEF SendingBy
  <2>5. Started(o, a, new)
    BY <2>1, <2>2, <2>3, <2>4 DEF Started
  <2> QED
    BY <1>1, <2>1, <2>5 DEF AttemptsMove
<1> QED
  BY <1>3, <1>4, <1>5, <1>6, <1>7 DEF OfferStep, confirm_offer_send, retry_offer_send

LEMMA AttemptStepSends ==
    ASSUME LocksIInv, NEW a \in Attempts, AttemptStep(a)
    PROVE  AttemptsMove
<1>0. /\ attempt \in [Attempts -> AttemptRow] /\ attempt[a] \in AttemptRow /\ recovered \in Nat
  BY DEF LocksIInv, TypeOK
<1>1. CASE Redispatch(a) \/ LoseMail(a) \/ DuplicateMail(a) \/ SkipSettled(a)
           \/ \E p \in Admins : LockStaleAttempt(p, a)
  <2>1. attempt' = attempt /\ offer' = offer /\ recovered' = recovered
    BY <1>1 DEF Redispatch, LoseMail, DuplicateMail, SkipSettled, LockStaleAttempt, rowVars, counters
  <2> QED
    BY <2>1 DEF AttemptsMove, SendingSame, SendingBy
<1>2. CASE StaleAgeReached(a)
  <2> DEFINE row == AgedRow(attempt[a])
  <2>1. /\ attempt' = [attempt EXCEPT ![a] = row] /\ recovered' = recovered /\ offer' = offer
        /\ attempt[a].status = "running"
    BY <1>2 DEF StaleAgeReached, counters
  <2>2. row \in AttemptRow /\ SameAttempt(attempt[a], row) /\ row.status = attempt[a].status
    BY <1>0, AttemptColumns DEF SameAttempt
  <2> HIDE DEF row
  <2>3. Touched(a, row)
    BY <1>0, <2>1, <2>2 DEF Touched, OnlyRow, SendingSame, SendingBy
  <2> QED
    BY <2>1, <2>2, <2>3 DEF AttemptsMove
<1>3. ASSUME NEW p \in Admins, RecoverAttempt(p, a) PROVE AttemptsMove
  <2>1. CASE attempt' = attempt /\ offer' = offer /\ recovered' = recovered
    BY <2>1 DEF AttemptsMove, SendingSame, SendingBy
  <2>2. CASE attempt' = [attempt EXCEPT ![a] = DeadRow(attempt[a])] /\ recovered' = recovered + 1
    <3> DEFINE row == DeadRow(attempt[a])
    <3>1. row \in AttemptRow /\ SameAttempt(attempt[a], row) /\ row.status = "dead"
      BY <1>0, AttemptColumns DEF SameAttempt
    <3>2. attempt[a].status = "running"
      BY <1>3, NoneIsNoRow DEF RecoverAttempt, LocksIInv, HoldsInv, LockedStaysRunning
    <3> HIDE DEF row
    <3>3. Recovered(a, row)
      BY <1>0, <2>2, <3>1, <3>2 DEF Recovered, OnlyRow, row
    <3>4. recovered' # 0
      BY <1>0, <2>2
    <3> QED
      BY <3>1, <3>3, <3>4 DEF AttemptsMove
  <2> QED
    BY <1>3, <2>1, <2>2 DEF RecoverAttempt
<1> QED
  BY <1>1, <1>2, <1>3 DEF AttemptStep

LEMMA FinishSends ==
    ASSUME LocksIInv, Owners, NEW w \in Workers, Finish(w)
    PROVE  AttemptsMove
<1>1. PICK a \in Attempts : \/ FinishSucceeded(w, a) \/ FinishDead(w, a)
                            \/ \E next \in Attempts : FinishRetried(w, a, next)
  BY DEF Finish
<1>2. on[w] = a /\ pc[w] \in {"accepted", "refused"} /\ recovered' = recovered
  BY <1>1 DEF FinishSucceeded, FinishDead, FinishRetried, Owned, counters
<1>3. attempt[a] \in AttemptRow /\ attempt[a].offer \in Offers /\ Handled(a)
  <2>1. attempt[a] \in AttemptRow /\ attempt[a].offer \in Offers /\ SendingBy(attempt[a].offer)
    BY <1>2, FinishOwns DEF SendingBy
  <2> QED
    BY <1>2, <2>1 DEF Owners, Busy, Handled
<1>4. /\ attempt \in [Attempts -> AttemptRow] /\ offer \in [Offers -> OfferRow]
      /\ attempt[a].attempt_no \in Nat
  BY <1>3, AttemptColumns DEF LocksIInv, TypeOK
<1>5. ASSUME NEW row \in AttemptRow, SameAttempt(attempt[a], row), row.status \in {"succeeded", "dead"},
             attempt' = [attempt EXCEPT ![a] = row], NEW status \in {"sent", "failed"},
             offer' = [offer EXCEPT ![attempt[a].offer] =
                                    OfferStatus(offer[attempt[a].offer], status)]
      PROVE  AttemptsMove
  <2> DEFINE o == attempt[a].offer
  <2>1. offer[o] \in OfferRow /\ o \in Offers
    BY <1>3, <1>4
  <2>2. OfferStatus(offer[o], status).status = status
    BY <2>1, OfferColumns
  <2>3. /\ offer'[o].status = status
        /\ \A p \in Offers : p # o => offer'[p] = offer[p]
    BY <1>4, <1>5, <2>1, <2>2
  <2>4. Settled(a, row)
    BY <1>3, <1>4, <1>5, <2>3 DEF Settled, OnlyRow, SendingBy
  <2> QED
    BY <1>2, <2>4 DEF AttemptsMove
<1>6. CASE FinishSucceeded(w, a)
  <2>1. /\ SucceededRow(attempt[a]) \in AttemptRow /\ SameAttempt(attempt[a], SucceededRow(attempt[a]))
        /\ SucceededRow(attempt[a]).status = "succeeded"
    BY <1>3, AttemptColumns DEF SameAttempt
  <2> QED
    BY <1>5, <1>6, <2>1 DEF FinishSucceeded
<1>7. CASE FinishDead(w, a)
  <2>1. /\ FailedRow(attempt[a], "dead") \in AttemptRow
        /\ SameAttempt(attempt[a], FailedRow(attempt[a], "dead"))
        /\ FailedRow(attempt[a], "dead").status = "dead"
    BY <1>3, AttemptColumns DEF SameAttempt
  <2> QED
    BY <1>5, <1>7, <2>1 DEF FinishDead
<1>8. ASSUME NEW next \in Attempts, FinishRetried(w, a, next) PROVE AttemptsMove
  <2> DEFINE failed == FailedRow(attempt[a], "failed")
             new == NewAttempt(attempt[a].offer, attempt[a].attempt_no + 1, attempt[a].version)
  <2>1. /\ attempt' = [attempt EXCEPT ![a] = failed, ![next] = new] /\ offer' = offer
        /\ attempt[next].status = "absent" /\ attempt[a].attempt_no < MaxAuto
    BY <1>8 DEF FinishRetried
  <2>2. failed \in AttemptRow /\ SameAttempt(attempt[a], failed) /\ failed.status = "failed"
    <3>1. "failed" \in {"failed", "dead"}
      OBVIOUS
    <3> QED
      BY <1>3, <3>1, AttemptColumns DEF SameAttempt
  <2>3. /\ new \in AttemptRow /\ new.status = "pending" /\ new.offer = attempt[a].offer
        /\ new.attempt_no = attempt[a].attempt_no + 1
    <3>1. /\ attempt[a].attempt_no + 1 \in Nat /\ attempt[a].version \in Nat
          /\ attempt[a].offer \in Offers \cup {None}
      BY <1>3, <1>4, AttemptColumns
    <3>2. new \in AttemptRow
      BY <3>1, AttemptColumns
    <3> QED
      BY <3>2 DEF NewAttempt
  <2> HIDE DEF failed, new
  <2>4. next # a
    BY <1>3, <2>1 DEF Handled
  <2>5. Retried(a, next, failed, new)
    BY <1>3, <1>4, <2>1, <2>2, <2>3, <2>4 DEF Retried, SendingSame, SendingBy
  <2> QED
    BY <1>2, <2>2, <2>3, <2>5 DEF AttemptsMove
<1> QED
  BY <1>1, <1>6, <1>7, <1>8

LEMMA StepSends ==
    ASSUME LocksIInv, Owners, [Next]_vars
    PROVE  AttemptsMove
<1>0. attempt \in [Attempts -> AttemptRow]
  BY DEF LocksIInv, TypeOK
<1>1. ASSUME NEW w \in Workers, NEW a \in Attempts, Claim(w, a) PROVE AttemptsMove
  <2> DEFINE row == RunningRow(attempt[a])
  <2>1. /\ attempt' = [attempt EXCEPT ![a] = row] /\ recovered' = recovered /\ offer' = offer
        /\ attempt[a].status = "pending"
    BY <1>1 DEF Claim, counters
  <2>2. row \in AttemptRow /\ SameAttempt(attempt[a], row) /\ row.status = "running"
    BY <1>0, AttemptColumns DEF SameAttempt
  <2> HIDE DEF row
  <2>3. Touched(a, row)
    BY <1>0, <2>1, <2>2 DEF Touched, OnlyRow, SendingSame, SendingBy
  <2> QED
    BY <2>1, <2>2, <2>3 DEF AttemptsMove
<1>2. CASE attempt' = attempt /\ offer' = offer /\ recovered' = recovered
  BY <1>2 DEF AttemptsMove, SendingSame, SendingBy
<1>3. ASSUME NEW w \in Workers, WorkerStep(w) PROVE AttemptsMove
  <2>1. \/ \E a \in Attempts : Claim(w, a)
        \/ Finish(w)
        \/ attempt' = attempt /\ offer' = offer /\ recovered' = recovered
    BY <1>3 DEF WorkerStep, LockDuplicate, DuplicateDone, LockOffer, SkippedStaleOwner, Deliver,
       Crash, AbortSender, AbortDuplicate, rowVars, counters
  <2> QED
    BY <1>1, <1>2, <1>3, <2>1, FinishSends
<1>4. CASE (\E p \in Admins : AbortRecovery(p)) \/ CloseApplication \/ UNCHANGED vars
  BY <1>2, <1>4 DEF AbortRecovery, CloseApplication, vars, rowVars, counters
<1> QED
  BY <1>3, <1>4, OfferStepSends, AttemptStepSends DEF Next

\* The attempts of an offer form chains: a failed attempt stays failed.
LEMMA ChainsKept ==
    ASSUME TypeOK, RetryChains, AttemptsMove
    PROVE  RetryChains'
<1>0. MaxAuto \in Nat \ {0} /\ \A a \in Attempts : attempt[a].attempt_no \in Nat
  BY BoundsAreNats DEF TypeOK, AttemptRow
<1>1. ASSUME NEW a \in Attempts, NEW row \in AttemptRow, OnlyRow(a, row),
             attempt[a].status \notin {"absent", "failed"}, row.status # "failed",
             SameAttempt(attempt[a], row)
      PROVE  RetryChains'
  <2>1. \A b \in Attempts : attempt[b].status = "failed" => attempt'[b] = attempt[b]
    BY <1>1 DEF OnlyRow
  <2>2. \A b \in Attempts : attempt'[b].status # "absent" =>
           /\ attempt[b].status # "absent"
           /\ attempt'[b].offer = attempt[b].offer /\ attempt'[b].attempt_no = attempt[b].attempt_no
           /\ attempt'[b].status = "failed" => attempt[b].status = "failed"
    BY <1>1 DEF OnlyRow, SameAttempt
  <2> QED
    BY <2>1, <2>2 DEF RetryChains
<1>2. ASSUME NEW o \in Offers, NEW a \in Attempts, NEW row \in AttemptRow, Started(o, a, row)
      PROVE  RetryChains'
  <2>1. /\ attempt'[a] = row /\ row.attempt_no = 1 /\ row.status = "pending"
        /\ attempt[a].status = "absent"
        /\ \A b \in Attempts : b # a => attempt'[b] = attempt[b]
    BY <1>2 DEF Started, OnlyRow
  <2>2. \A b \in Attempts : attempt[b].status = "failed" => attempt'[b] = attempt[b]
    BY <2>1
  <2> QED
    BY <1>0, <2>1, <2>2 DEF RetryChains
<1>3. ASSUME NEW a \in Attempts, NEW next \in Attempts, NEW failed \in AttemptRow,
             NEW new \in AttemptRow, Retried(a, next, failed, new)
      PROVE  RetryChains'
  <2>1. /\ attempt'[a] = failed /\ attempt'[next] = new
        /\ \A b \in Attempts : b # a /\ b # next => attempt'[b] = attempt[b]
        /\ attempt[a].status \in {"running", "dead"} /\ attempt[next].status = "absent"
        /\ failed.status = "failed" /\ failed.offer = attempt[a].offer
        /\ failed.attempt_no = attempt[a].attempt_no /\ attempt[a].attempt_no < MaxAuto
        /\ new.status = "pending" /\ new.offer = attempt[a].offer
        /\ new.attempt_no = attempt[a].attempt_no + 1
    BY <1>3 DEF Retried, Handled, SameAttempt
  <2>2. \A b \in Attempts : attempt[b].status = "failed" => attempt'[b] = attempt[b]
    BY <2>1
  <2>3. /\ attempt[a].attempt_no \in 1..MaxAuto /\ attempt[a].attempt_no \in Nat
        /\ attempt[a].attempt_no + 1 \in 1..MaxAuto
        /\ attempt[a].attempt_no + 1 - 1 = attempt[a].attempt_no
    BY <1>0, <2>1 DEF RetryChains
  <2>4. ASSUME NEW c \in Attempts, attempt'[c].status # "absent"
        PROVE  /\ attempt'[c].attempt_no \in 1..MaxAuto
               /\ attempt'[c].status = "failed" => attempt'[c].attempt_no < MaxAuto
               /\ attempt'[c].attempt_no > 1 =>
                     \E b \in Attempts : /\ attempt'[b].status = "failed"
                                         /\ attempt'[b].offer = attempt'[c].offer
                                         /\ attempt'[b].attempt_no = attempt'[c].attempt_no - 1
    <3>1. CASE c = next
      BY <2>1, <2>3, <3>1
    <3>2. CASE c # next
      <4>1. /\ attempt[c].status # "absent" /\ attempt'[c].offer = attempt[c].offer
            /\ attempt'[c].attempt_no = attempt[c].attempt_no
            /\ attempt'[c].status = "failed" => attempt[c].status = "failed" \/ c = a
        BY <2>1, <2>4, <3>2
      <4>2. attempt[c].attempt_no > 1 =>
               \E b \in Attempts : /\ attempt[b].status = "failed"
                                   /\ attempt[b].offer = attempt[c].offer
                                   /\ attempt[b].attempt_no = attempt[c].attempt_no - 1
        BY <4>1 DEF RetryChains
      <4>3. attempt[c].attempt_no \in 1..MaxAuto
            /\ (attempt[c].status = "failed" => attempt[c].attempt_no < MaxAuto)
        BY <4>1 DEF RetryChains
      <4> QED
        BY <2>1, <2>2, <4>1, <4>2, <4>3
    <3> QED
      BY <3>1, <3>2
  <2> QED
    BY <2>4 DEF RetryChains
<1>4. CASE attempt' = attempt
  BY <1>4 DEF RetryChains
<1> QED
  BY <1>1, <1>2, <1>3, <1>4 DEF AttemptsMove, Touched, Recovered, Settled, Handled

\* The attempts of an offer form chains of at most MAIL_MAX_AUTO_ATTEMPTS.
THEOREM ChainsBounded == Spec => []RetryChains
<1>1. Init => RetryChains
  BY DEF Init, RetryChains, NoAttempt
<1>2. LocksIInv /\ Owners /\ RetryChains /\ [Next]_vars => RetryChains'
  BY StepSends, ChainsKept DEF LocksIInv
<1> QED
  BY <1>1, <1>2, LocksInvariant, OwnersInvariant, PTL DEF Spec

-----------------------------------------------------------------------------
(* One live attempt. *)

OneLive ==
    /\ \A o \in Offers : SendingBy(o) => \E a \in Attempts : Live(a) /\ attempt[a].offer = o
    /\ \A a \in Attempts : Live(a) => SendingBy(attempt[a].offer)
    /\ \A a, b \in Attempts :
          Live(a) /\ Live(b) /\ attempt[a].offer = attempt[b].offer => a = b

LEMMA OneLiveIs ==
    ASSUME RowsInv
    PROVE  OneLiveAttempt <=> (recovered = 0 => OneLive)
<1>1. \A a \in Attempts : Live(a) => attempt[a].offer \in Offers
  BY DEF Live, RowsInv
<1> QED
  BY <1>1 DEF OneLiveAttempt, OneLive, SendingBy

LEMMA OneLiveKept ==
    ASSUME TypeOK, RowsInv, recovered = 0, recovered' = 0, OneLive, AttemptsMove
    PROVE  OneLive'
<1>0. \A a \in Attempts : Live(a) => attempt[a].offer \in Offers
  BY DEF Live, RowsInv
<1>1. ASSUME SendingSame,
             \A a \in Attempts : /\ Live(a)' <=> Live(a)
                                 /\ Live(a) => attempt'[a].offer = attempt[a].offer
      PROVE  OneLive'
  <2>1. ASSUME NEW o \in Offers, SendingBy(o)'
        PROVE  \E a \in Attempts : Live(a)' /\ attempt'[a].offer = o
    BY <1>1, <2>1 DEF OneLive, SendingSame, SendingBy, Live
  <2>2. ASSUME NEW a \in Attempts, Live(a)' PROVE SendingBy(attempt[a].offer)'
    <3>1. Live(a) /\ attempt'[a].offer = attempt[a].offer /\ attempt[a].offer \in Offers
      BY <1>0, <1>1, <2>2 DEF Live
    <3>2. SendingBy(attempt[a].offer)
      BY <3>1 DEF OneLive
    <3> QED
      BY <1>1, <3>1, <3>2 DEF SendingSame, SendingBy
  <2>3. ASSUME NEW a \in Attempts, NEW b \in Attempts, Live(a)', Live(b)',
               attempt'[a].offer = attempt'[b].offer
        PROVE  a = b
    BY <1>1, <2>3 DEF OneLive, Live
  <2> QED
    BY <2>1, <2>2, <2>3 DEF OneLive
<1>2. CASE attempt' = attempt /\ SendingSame
  BY <1>1, <1>2 DEF Live
<1>3. ASSUME NEW a \in Attempts, NEW row \in AttemptRow, Touched(a, row)
      PROVE  OneLive'
  <2>1. \A b \in Attempts : /\ Live(b)' <=> Live(b)
                            /\ Live(b) => attempt'[b].offer = attempt[b].offer
    BY <1>3 DEF Touched, OnlyRow, SameAttempt, Live
  <2> QED
    BY <1>1, <1>3, <2>1 DEF Touched
<1>4. ASSUME NEW o \in Offers, NEW a \in Attempts, NEW row \in AttemptRow, Started(o, a, row)
      PROVE  OneLive'
  <2>1. /\ Live(a)' /\ ~Live(a) /\ attempt'[a].offer = o
        /\ \A b \in Attempts : b # a => (Live(b)' <=> Live(b)) /\ attempt'[b] = attempt[b]
        /\ ~SendingBy(o) /\ SendingBy(o)'
        /\ \A p \in Offers : p # o => (SendingBy(p)' <=> SendingBy(p))
    BY <1>4 DEF Started, OnlyRow, Live
  <2>2. \A b \in Attempts : Live(b) => attempt[b].offer # o
    BY <2>1 DEF OneLive
  <2> QED
    BY <1>0, <2>1, <2>2 DEF OneLive
<1>5. ASSUME NEW a \in Attempts, NEW row \in AttemptRow, Settled(a, row)
      PROVE  OneLive'
  <2>1. /\ Live(a) /\ ~Live(a)'
        /\ \A b \in Attempts : b # a => (Live(b)' <=> Live(b)) /\ attempt'[b] = attempt[b]
        /\ \A p \in Offers : SendingBy(p)' <=> SendingBy(p) /\ p # attempt[a].offer
    BY <1>5 DEF Settled, OnlyRow, Handled, Live
  <2>2. \A b \in Attempts : b # a /\ Live(b) => attempt[b].offer # attempt[a].offer
    BY <2>1 DEF OneLive
  <2> QED
    BY <1>0, <2>1, <2>2 DEF OneLive
<1>6. ASSUME NEW a \in Attempts, NEW next \in Attempts, NEW failed \in AttemptRow,
             NEW new \in AttemptRow, Retried(a, next, failed, new)
      PROVE  OneLive'
  <2>1. /\ Live(a) /\ ~Live(a)' /\ ~Live(next) /\ Live(next)' /\ a # next
        /\ attempt'[next].offer = attempt[a].offer
        /\ \A b \in Attempts : b # a /\ b # next => (Live(b)' <=> Live(b)) /\ attempt'[b] = attempt[b]
        /\ SendingSame
    BY <1>6 DEF Retried, Handled, Live
  <2> QED
    BY <1>0, <2>1 DEF OneLive, SendingSame
<1> QED
  BY <1>2, <1>3, <1>4, <1>5, <1>6 DEF AttemptsMove, Recovered

\* Until an admin recovers an attempt, an offer being sent has exactly one attempt that
\* is pending or running, and no other offer has any.
THEOREM OneAttemptLives == Spec => []OneLiveAttempt
<1>1. Init => OneLiveAttempt
  <2>1. NoOffer.status = "absent" /\ NoAttempt.status = "absent"
    BY DEF NoOffer, NoAttempt
  <2>2. Init => /\ \A o \in Offers : offer[o] = NoOffer
                /\ \A a \in Attempts : attempt[a] = NoAttempt
    BY DEF Init
  <2> QED
    BY <2>1, <2>2 DEF OneLiveAttempt, Live
<1>2. ASSUME LocksIInv, LocksIInv', Owners, OneLiveAttempt, [Next]_vars PROVE OneLiveAttempt'
  <2>1. AttemptsMove
    BY <1>2, StepSends
  <2>2. recovered' = 0 => OneLive'
    BY <1>2, <2>1, OneLiveIs, OneLiveKept DEF LocksIInv, AttemptsMove
  <2>3. RowsInv' => (OneLiveAttempt' <=> (recovered' = 0 => OneLive'))
    <3>1. RowsInv' => \A a \in Attempts : Live(a)' => attempt'[a].offer \in Offers
      BY DEF Live, RowsInv
    <3> QED
      BY <3>1 DEF OneLiveAttempt, OneLive, SendingBy
  <2> QED
    BY <1>2, <2>2, <2>3 DEF LocksIInv
<1>3. LocksIInv /\ LocksIInv' /\ Owners /\ OneLiveAttempt /\ [Next]_vars => OneLiveAttempt'
  BY <1>2
<1> QED
  BY <1>1, <1>3, LocksInvariant, OwnersInvariant, PTL DEF Spec

-----------------------------------------------------------------------------
(* Every pending attempt has a message. *)

\* A step that makes no attempt pending and takes no message from a pending one.
LEMMA PendingKept ==
    ASSUME PendingHasMail, lost' = 0 => lost = 0,
           lost' = 0 => \A a \in Attempts : attempt'[a].status = "pending" =>
              mail'[a] > 0 \/ (attempt[a].status = "pending" /\ (mail[a] > 0 => mail'[a] > 0))
    PROVE  PendingHasMail'
  BY DEF PendingHasMail

LEMMA TakenFromSettled ==
    ASSUME TypeOK, NEW a \in Attempts, TakeMail(a), NEW b \in Attempts, b # a
    PROVE  mail'[b] = mail[b]
  BY DEF TakeMail, TypeOK

LEMMA StartHasMail ==
    ASSUME TypeOK, PendingHasMail, NEW a \in Attempts, NEW row, AddAttempt(a, row), lost' = lost
    PROVE  PendingHasMail'
<1>1. mail \in [Attempts -> Nat] /\ attempt \in [Attempts -> AttemptRow]
  BY DEF TypeOK
<1>2. /\ mail'[a] = mail[a] + 1 /\ mail[a] \in Nat
      /\ \A b \in Attempts : b # a => mail'[b] = mail[b] /\ attempt'[b] = attempt[b]
  BY <1>1 DEF AddAttempt
<1> QED
  BY <1>2, PendingKept

LEMMA AttemptStepHasMail ==
    ASSUME LocksIInv, PendingHasMail, NEW a \in Attempts, AttemptStep(a)
    PROVE  PendingHasMail'
<1>0. /\ mail \in [Attempts -> Nat] /\ attempt \in [Attempts -> AttemptRow] /\ lost \in Nat
      /\ attempt[a] \in AttemptRow
  BY DEF LocksIInv, TypeOK
<1> USE DEF rowVars, mailVars, counters
<1>1. CASE Redispatch(a) \/ DuplicateMail(a)
  <2>1. /\ attempt' = attempt /\ lost' = lost
        /\ \A b \in Attempts : mail[b] > 0 => mail'[b] > 0
    BY <1>0, <1>1 DEF Redispatch, DuplicateMail
  <2> QED
    BY <2>1, PendingKept
<1>2. CASE LoseMail(a)
  BY <1>0, <1>2 DEF LoseMail, PendingHasMail
<1>3. CASE SkipSettled(a)
  <2>1. attempt' = attempt /\ lost' = lost /\ attempt[a].status # "pending" /\ TakeMail(a)
    BY <1>3 DEF SkipSettled
  <2>2. \A b \in Attempts : b # a => mail'[b] = mail[b]
    BY <2>1, TakenFromSettled DEF LocksIInv
  <2> QED
    BY <2>1, <2>2, PendingKept
<1>4. CASE StaleAgeReached(a)
  <2>1. /\ lost' = lost /\ mail' = mail /\ attempt[a].status = "running"
        /\ attempt' = [attempt EXCEPT ![a] = AgedRow(attempt[a])]
    BY <1>4 DEF StaleAgeReached
  <2>2. \A b \in Attempts : attempt'[b].status = "pending" => attempt[b].status = "pending"
    BY <1>0, <2>1, AttemptColumns
  <2> QED
    BY <2>1, <2>2, PendingKept
<1>5. ASSUME NEW p \in Admins, LockStaleAttempt(p, a) \/ RecoverAttempt(p, a) PROVE PendingHasMail'
  <2>1. lost' = lost /\ mail' = mail
    BY <1>5 DEF LockStaleAttempt, RecoverAttempt
  <2>2. \A b \in Attempts : attempt'[b].status = "pending" => attempt[b].status = "pending"
    <3>1. attempt' = attempt \/ attempt' = [attempt EXCEPT ![a] = DeadRow(attempt[a])]
      BY <1>5 DEF LockStaleAttempt, RecoverAttempt
    <3>2. DeadRow(attempt[a]).status = "dead"
      BY <1>0, AttemptColumns
    <3> QED
      BY <1>0, <3>1, <3>2
  <2> QED
    BY <2>1, <2>2, PendingKept
<1> QED
  BY <1>1, <1>2, <1>3, <1>4, <1>5 DEF AttemptStep

LEMMA WorkerStepHasMail ==
    ASSUME LocksIInv, PendingHasMail, NEW w \in Workers, WorkerStep(w)
    PROVE  PendingHasMail'
<1>0. /\ mail \in [Attempts -> Nat] /\ attempt \in [Attempts -> AttemptRow] /\ lost \in Nat
  BY DEF LocksIInv, TypeOK
<1> USE DEF rowVars, mailVars, counters
<1>1. ASSUME NEW a \in Attempts, Claim(w, a) \/ LockDuplicate(w, a) PROVE PendingHasMail'
  <2>1. lost' = lost /\ TakeMail(a)
    BY <1>1 DEF Claim, LockDuplicate
  <2>2. \A b \in Attempts : b # a => mail'[b] = mail[b] /\ attempt'[b] = attempt[b]
    BY <1>0, <1>1, <2>1, TakenFromSettled DEF Claim, LockDuplicate, LocksIInv
  <2>3. attempt'[a].status # "pending"
    BY <1>0, <1>1, AttemptColumns DEF Claim, LockDuplicate
  <2> QED
    BY <2>1, <2>2, <2>3, PendingKept
<1>2. CASE mail' = mail /\ attempt' = attempt /\ (lost' = 0 => lost = 0)
  BY <1>2, PendingKept
<1>3. CASE Crash(w)
  BY <1>0, <1>2, <1>3 DEF Crash
<1>4. CASE \/ DuplicateDone(w) \/ LockOffer(w) \/ SkippedStaleOwner(w) \/ Deliver(w)
           \/ AbortSender(w) \/ AbortDuplicate(w)
  BY <1>2, <1>4 DEF DuplicateDone, LockOffer, SkippedStaleOwner, Deliver, AbortSender, AbortDuplicate
<1>5. ASSUME NEW a \in Attempts, FinishSucceeded(w, a) \/ FinishDead(w, a) PROVE PendingHasMail'
  <2>1. /\ mail' = mail /\ lost' = lost
        /\ \E row \in {SucceededRow(attempt[a]), FailedRow(attempt[a], "dead")} :
              attempt' = [attempt EXCEPT ![a] = row]
    BY <1>5 DEF FinishSucceeded, FinishDead
  <2>2. \A row \in {SucceededRow(attempt[a]), FailedRow(attempt[a], "dead")} : row.status # "pending"
    BY <1>0, AttemptColumns
  <2>3. \A b \in Attempts : attempt'[b].status = "pending" => attempt[b].status = "pending"
    BY <1>0, <2>1, <2>2
  <2> QED
    BY <2>1, <2>3, PendingKept
<1>6. ASSUME NEW a \in Attempts, NEW next \in Attempts, FinishRetried(w, a, next)
      PROVE  PendingHasMail'
  <2> DEFINE failed == FailedRow(attempt[a], "failed")
             new == NewAttempt(attempt[a].offer, attempt[a].attempt_no + 1, attempt[a].version)
  <2>1. /\ lost' = lost /\ mail' = [mail EXCEPT ![next] = mail[next] + 1]
        /\ attempt' = [attempt EXCEPT ![a] = failed, ![next] = new]
    BY <1>6 DEF FinishRetried
  <2>2. failed.status = "failed"
    BY <1>0, AttemptColumns
  <2> HIDE DEF failed, new
  <2>3. /\ mail'[next] > 0
        /\ \A b \in Attempts : b # next => mail'[b] = mail[b]
    BY <1>0, <2>1
  <2>4. \A b \in Attempts : b # next /\ attempt'[b].status = "pending" => attempt[b].status = "pending"
    BY <1>0, <2>1, <2>2
  <2> QED
    BY <2>1, <2>3, <2>4, PendingKept
<1> QED
  BY <1>1, <1>3, <1>4, <1>5, <1>6 DEF WorkerStep, Finish

\* As long as no message was lost, a pending attempt has a message.
THEOREM PendingMailed == Spec => []PendingHasMail
<1>1. Init => PendingHasMail
  BY DEF Init, PendingHasMail, NoAttempt
<1>2. ASSUME LocksIInv, PendingHasMail, [Next]_vars PROVE PendingHasMail'
  <2>1. CASE mail' = mail /\ attempt' = attempt /\ lost' = lost
    BY <1>2, <2>1, PendingKept
  <2>2. ASSUME NEW o \in Offers, OfferStep(o) PROVE PendingHasMail'
    <3>1. ASSUME NEW a \in Attempts, StartSending(o, a) PROVE PendingHasMail'
      BY <1>2, <3>1, StartHasMail DEF StartSending, LocksIInv
    <3> QED
      BY <2>1, <2>2, <3>1 DEF OfferStep, create_offer, update_offer_draft, mark_offer_ready,
         void_offer, confirm_offer_send, retry_offer_send, counters
  <2>3. CASE (\E p \in Admins : AbortRecovery(p)) \/ CloseApplication \/ UNCHANGED vars
    BY <2>1, <2>3 DEF AbortRecovery, CloseApplication, vars, rowVars, counters
  <2> QED
    BY <1>2, <2>2, <2>3, AttemptStepHasMail, WorkerStepHasMail DEF Next
<1>3. LocksIInv /\ PendingHasMail /\ [Next]_vars => PendingHasMail'
  BY <1>2
<1> QED
  BY <1>1, <1>3, LocksInvariant, PTL DEF Spec
=============================================================================
