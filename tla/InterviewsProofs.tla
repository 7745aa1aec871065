--------------------------- MODULE InterviewsProofs ---------------------------
(***************************************************************************)
(* Interviews for every set of rounds, clients, slots, keys and            *)
(* recipients.  The invariant that all the theorems rest on says what a    *)
(* request between its two steps may still rely on: the row it locked has  *)
(* not moved, and the calendar it read has only grown.                     *)
(***************************************************************************)
EXTENDS Interviews, FiniteSetTheorems, SequenceTheorems, WellFoundedInduction, TLAPS

Booking == {"schedule", "reschedule"}

\* Columns of the variables, those TypeOK leaves to the other conjuncts included.
Types ==
    /\ round \in [Rounds -> RoundRow \cup {None}]
    /\ schedules \in [Rounds -> Seq(ScheduleRow)]
    /\ message \in [Messages -> MessageStatuses \cup {"none"}]
    /\ lock \in [Rounds -> Clients \cup {None}]
    /\ opened \in 0..MaxRequests
    /\ req \in [Clients -> Handler \cup {None}]

\* The row lock of a round and the request that took it name each other.
Locks ==
    /\ \A r \in Rounds : lock[r] # None =>
          /\ \E op \in Booking : Running(lock[r], op)
          /\ req[lock[r]].round = r
    /\ \A c \in Clients, op \in Booking : Running(c, op) => lock[req[c].round] = c

Begun == {"IN_PROGRESS", "PENDING_TRANSCRIPT"} \cup Terminal

\* What a request checked in its first step and its second step relies on.
StillChecked(q) ==
    /\ q.op \in Booking \cup {"end"} => Live(q.round)
    /\ q.op \in Booking => Len(schedules[q.round]) < MaxSchedules
    /\ q.op = "schedule" => round[q.round].status = "DRAFT"
    /\ q.op = "reschedule" => round[q.round].status \in {"SCHEDULED", "CONFIRMED"}
    /\ q.op = "end" => round[q.round].status \in Begun

Checked == \A c \in Clients : ~Idle(c) => StillChecked(req[c])

\* A round and its schedules: the last schedule is the current one, none before it is active.
Shape(row, rows) ==
    /\ row.current = Len(rows)
    /\ \A v \in 1..Len(rows) : rows[v].status = "ACTIVE" => v = row.current
    /\ row.status = "DRAFT" => Len(rows) = 0 /\ row.confirmed = 0
    /\ row.status \in {"SCHEDULED", "CONFIRMED", "IN_PROGRESS", "PENDING_TRANSCRIPT"} =>
          row.current > 0 /\ rows[row.current].status = "ACTIVE"
    /\ row.status = "CANCELLED" => \A v \in 1..Len(rows) : rows[v].status # "ACTIVE"
    /\ row.status = "CONFIRMED" => row.confirmed = row.current
    /\ row.status = "SCHEDULED" => row.confirmed = 0

Shapes ==
    \A r \in Rounds :
        /\ Len(schedules[r]) <= MaxSchedules
        /\ ~Live(r) => Len(schedules[r]) = 0
        /\ Live(r) => Shape(round[r], schedules[r])

\* An open message is about a row that exists.
OpenMessages ==
    \A m \in Messages : message[m] \notin {"none", "VOIDED"} =>
        /\ Live(m[1])
        /\ m[2] = round[m[1]].current
        /\ m[3] = "cancellation" => round[m[1]].status \in {"CANCELLED", "ENDED_ABNORMALLY"}

\* A calendar that somebody read only names schedules that exist (so none that came later),
\* and none of them but those of round except is at the given time.
Free(calendar, seen, slot, except) ==
    \A b \in seen : /\ b[2] <= Len(calendar[b[1]])
                    /\ b[1] # except => calendar[b[1]][b[2]].slot # slot

FreeRequest(calendar, q) ==
    /\ q.op = "create" => Free(calendar, q.seen, q.slot, None)
    /\ q.op \in Booking => Free(calendar, q.seen, q.slot, q.round)

Calendars ==
    /\ \A r \in Rounds : \A v \in 1..Len(schedules[r]) :
          Free(schedules, schedules[r][v].seen, schedules[r][v].slot, r)
    /\ \A c \in Clients : ~Idle(c) => FreeRequest(schedules, req[c])

\* The inductive invariant.
Inv == Types /\ Locks /\ Checked /\ Shapes /\ OpenMessages /\ Calendars /\ RoundsDistinct
-----------------------------------------------------------------------------
(* Columns of the row operators. *)

LEMMA RowColumns ==
    ASSUME NEW row \in RoundRow
    PROVE  /\ row.status \in Statuses /\ row.seq \in Nat \ {0} /\ row.key \in Keys
           /\ row.current \in 0..MaxSchedules /\ row.confirmed \in 0..MaxSchedules
           /\ row # None
           /\ \A v \in 1..MaxSchedules :
                 /\ Booked(row, v) \in RoundRow /\ Booked(row, v).status = "SCHEDULED"
                 /\ Booked(row, v).current = v /\ Booked(row, v).confirmed = row.confirmed
                 /\ Booked(row, v).seq = row.seq /\ Booked(row, v).key = row.key
                 /\ Rebooked(row, v) \in RoundRow /\ Rebooked(row, v).status = "SCHEDULED"
                 /\ Rebooked(row, v).current = v /\ Rebooked(row, v).confirmed = 0
                 /\ Rebooked(row, v).seq = row.seq /\ Rebooked(row, v).key = row.key
           /\ \A s \in Statuses :
                 /\ RoundStatus(row, s) \in RoundRow /\ RoundStatus(row, s).status = s
                 /\ RoundStatus(row, s).current = row.current
                 /\ RoundStatus(row, s).confirmed = row.confirmed
                 /\ RoundStatus(row, s).seq = row.seq /\ RoundStatus(row, s).key = row.key
           /\ \A s \in Statuses, v \in 0..MaxSchedules :
                 /\ Confirmed(row, s, v) \in RoundRow /\ Confirmed(row, s, v).status = s
                 /\ Confirmed(row, s, v).current = row.current
                 /\ Confirmed(row, s, v).confirmed = v
                 /\ Confirmed(row, s, v).seq = row.seq /\ Confirmed(row, s, v).key = row.key
<1>0. /\ "SCHEDULED" \in Statuses /\ 0 \in 0..MaxSchedules
      /\ \A v \in 1..MaxSchedules : v \in 0..MaxSchedules
  BY BoundsAssumption DEF Statuses
<1>1. row.status \in Statuses /\ row.seq \in Nat \ {0} /\ row.key \in Keys
      /\ row.current \in 0..MaxSchedules /\ row.confirmed \in 0..MaxSchedules
  BY DEF RoundRow
<1>2. row # None
  BY NoneIsNoRow
<1>3. ASSUME NEW v \in 1..MaxSchedules
      PROVE  /\ Booked(row, v) \in RoundRow /\ Booked(row, v).status = "SCHEDULED"
             /\ Booked(row, v).current = v /\ Booked(row, v).confirmed = row.confirmed
             /\ Booked(row, v).seq = row.seq /\ Booked(row, v).key = row.key
  BY <1>0 DEF RoundRow, Booked
<1>4. ASSUME NEW v \in 1..MaxSchedules
      PROVE  /\ Rebooked(row, v) \in RoundRow /\ Rebooked(row, v).status = "SCHEDULED"
             /\ Rebooked(row, v).current = v /\ Rebooked(row, v).confirmed = 0
             /\ Rebooked(row, v).seq = row.seq /\ Rebooked(row, v).key = row.key
  BY <1>0 DEF RoundRow, Rebooked
<1>5. ASSUME NEW s \in Statuses
      PROVE  /\ RoundStatus(row, s) \in RoundRow /\ RoundStatus(row, s).status = s
             /\ RoundStatus(row, s).current = row.current
             /\ RoundStatus(row, s).confirmed = row.confirmed
             /\ RoundStatus(row, s).seq = row.seq /\ RoundStatus(row, s).key = row.key
  BY DEF RoundRow, RoundStatus
<1>6. ASSUME NEW s \in Statuses, NEW v \in 0..MaxSchedules
      PROVE  /\ Confirmed(row, s, v) \in RoundRow /\ Confirmed(row, s, v).status = s
             /\ Confirmed(row, s, v).current = row.current
             /\ Confirmed(row, s, v).confirmed = v
             /\ Confirmed(row, s, v).seq = row.seq /\ Confirmed(row, s, v).key = row.key
  BY DEF RoundRow, Confirmed
<1> QED
  BY <1>1, <1>2, <1>3, <1>4, <1>5, <1>6

LEMMA MovedColumns ==
    ASSUME NEW row \in RoundRow, NEW n \in Nat \ {0}
    PROVE  /\ Moved(row, n) \in RoundRow /\ Moved(row, n).seq = n
           /\ Moved(row, n).key = row.key /\ Moved(row, n).status = row.status
           /\ Moved(row, n).current = row.current /\ Moved(row, n).confirmed = row.confirmed
  BY DEF RoundRow, Moved

LEMMA HandlerColumns ==
    /\ None \notin Handler
    /\ \A q \in Handler :
          /\ q.op \in {"create", "schedule", "reschedule", "end"}
          /\ q.op = "create" =>
                /\ q.seq \in Nat \ {0} /\ q.slot \in Slots \cup {None} /\ q.key \in Keys
                /\ q.seen \in SUBSET (Rounds \X (1..MaxSchedules))
          /\ q.op \in Booking =>
                /\ q.round \in Rounds /\ q.slot \in Slots
                /\ q.seen \in SUBSET (Rounds \X (1..MaxSchedules))
          /\ q.op = "end" => q.round \in Rounds
<1>1. None \notin Handler
  BY NoneIsNoRow
<1>2. ASSUME NEW q \in Handler
      PROVE  /\ q.op \in {"create", "schedule", "reschedule", "end"}
             /\ q.op = "create" =>
                   /\ q.seq \in Nat \ {0} /\ q.slot \in Slots \cup {None} /\ q.key \in Keys
                   /\ q.seen \in SUBSET (Rounds \X (1..MaxSchedules))
             /\ q.op \in Booking =>
                   /\ q.round \in Rounds /\ q.slot \in Slots
                   /\ q.seen \in SUBSET (Rounds \X (1..MaxSchedules))
             /\ q.op = "end" => q.round \in Rounds
  BY DEF Handler, Booking
<1> QED
  BY <1>1, <1>2

LEMMA ScheduleColumns ==
    /\ \A row \in ScheduleRow :
          /\ row.slot \in Slots /\ row.seen \in SUBSET (Rounds \X (1..MaxSchedules))
          /\ \A s \in {"SUPERSEDED", "CANCELLED"} :
                /\ ScheduleStatus(row, s) \in ScheduleRow /\ ScheduleStatus(row, s).status = s
                /\ ScheduleStatus(row, s).slot = row.slot /\ ScheduleStatus(row, s).seen = row.seen
    /\ \A slot \in Slots, seen \in SUBSET (Rounds \X (1..MaxSchedules)) :
          /\ _schedule_from_payload(slot, seen) \in ScheduleRow
          /\ _schedule_from_payload(slot, seen).status = "ACTIVE"
          /\ _schedule_from_payload(slot, seen).slot = slot
          /\ _schedule_from_payload(slot, seen).seen = seen
  BY DEF ScheduleRow, ScheduleStatus, _schedule_from_payload

\* The state machine, read off its table.
LEMMA NextStatus ==
    ASSUME NEW s, NEW a, NEW t \in next_status(s, a)
    PROVE  /\ t \in Statuses /\ s \notin Terminal
           /\ a = "schedule" => s = "DRAFT" /\ t = "SCHEDULED"
           /\ a = "confirm_invitation" => s = "SCHEDULED" /\ t = "CONFIRMED"
           /\ a = "start" => s \in {"SCHEDULED", "CONFIRMED"} /\ t = "IN_PROGRESS"
           /\ a = "finish" => s = "IN_PROGRESS" /\ t = "PENDING_TRANSCRIPT"
           /\ a = "complete" => s = "PENDING_TRANSCRIPT" /\ t = "COMPLETED"
           /\ a = "cancel" => t = "CANCELLED"
           /\ a = "end_abnormally" => s = "IN_PROGRESS"
  BY DEF next_status, Transitions, TransitionTable, Statuses, Terminal
-----------------------------------------------------------------------------
(* Schedules. *)

LEMMA Rows ==
    ASSUME Types, NEW r \in Rounds
    PROVE  /\ schedules[r] \in Seq(ScheduleRow) /\ Len(schedules[r]) \in Nat
           /\ \A v \in 1..Len(schedules[r]) : schedules[r][v] \in ScheduleRow
           /\ round[r] \in RoundRow \cup {None}
           /\ Live(r) => round[r] \in RoundRow
  BY DEF Types, Live

\* The shape of a round says which of its schedules is active.
LEMMA ActiveIsCurrent ==
    ASSUME Types, Shapes, NEW r \in Rounds, Live(r)
    PROVE  /\ active(r) \subseteq {round[r].current}
           /\ round[r].status \in {"SCHEDULED", "CONFIRMED", "IN_PROGRESS", "PENDING_TRANSCRIPT"} =>
                 active(r) = {round[r].current}
           /\ round[r].status \in {"DRAFT", "CANCELLED"} => active(r) = {}
<1>1. Shape(round[r], schedules[r]) /\ round[r].current \in Nat /\ Len(schedules[r]) \in Nat
  BY Rows, RowColumns DEF Shapes
<1>2. active(r) \subseteq {round[r].current}
  BY <1>1 DEF Shape, active
<1>3. ASSUME round[r].status \in {"SCHEDULED", "CONFIRMED", "IN_PROGRESS", "PENDING_TRANSCRIPT"}
      PROVE  round[r].current \in active(r)
  BY <1>1, <1>3 DEF Shape, active
<1>4. ASSUME round[r].status \in {"DRAFT", "CANCELLED"} PROVE active(r) = {}
  BY <1>1, <1>4 DEF Shape, active
<1> QED
  BY <1>2, <1>3, <1>4

\* Closing the active schedule keeps every row but for that status.
LEMMA Closed ==
    ASSUME Types, NEW r \in Rounds, NEW s \in {"SUPERSEDED", "CANCELLED"}
    PROVE  /\ CloseActive(r, s) \in Seq(ScheduleRow)
           /\ Len(CloseActive(r, s)) = Len(schedules[r])
           /\ \A v \in 1..Len(schedules[r]) :
                 /\ CloseActive(r, s)[v] \in ScheduleRow
                 /\ CloseActive(r, s)[v].status # "ACTIVE"
                 /\ CloseActive(r, s)[v].slot = schedules[r][v].slot
                 /\ CloseActive(r, s)[v].seen = schedules[r][v].seen
<1>1. /\ Len(schedules[r]) \in Nat
      /\ \A v \in 1..Len(schedules[r]) : schedules[r][v] \in ScheduleRow
  BY Rows
<1>2. ASSUME NEW v \in 1..Len(schedules[r])
      PROVE  /\ CloseActive(r, s)[v] \in ScheduleRow
             /\ CloseActive(r, s)[v].status # "ACTIVE"
             /\ CloseActive(r, s)[v].slot = schedules[r][v].slot
             /\ CloseActive(r, s)[v].seen = schedules[r][v].seen
  BY <1>1, ScheduleColumns DEF CloseActive, active
<1>3. CloseActive(r, s) \in [1..Len(schedules[r]) -> ScheduleRow]
  BY <1>2 DEF CloseActive
<1>4. CloseActive(r, s) \in Seq(ScheduleRow) /\ Len(CloseActive(r, s)) = Len(schedules[r])
  BY <1>1, <1>3
<1> QED
  BY <1>2, <1>4

\* A finite set of numbers that is not empty has a largest one.
LEMMA FiniteHasMax ==
    ASSUME NEW S \in SUBSET Nat, IsFiniteSet(S), S # {}
    PROVE  Max(S) \in S
<1> DEFINE T == {A \in FiniteSubsetsOf(S) : A # {} /\ ~\E m \in A : \A y \in A : m >= y}
<1>1. SUFFICES ASSUME S \in T PROVE FALSE
  BY FS_Subset DEF FiniteSubsetsOf, Max
<1>2. T \subseteq FiniteSubsetsOf(S) /\ T # {}
  BY <1>1
<1>3. PICK A \in T : \A B \in T : ~(<<B, A>> \in StrictSubsetOrdering(S))
  <2> HIDE DEF T
  <2> QED BY <1>1, <1>2, FS_StrictSubsetOrderingWellFounded, WFMin
<1>4. PICK x \in A : TRUE
  BY <1>3
<1>5. /\ A \in FiniteSubsetsOf(S) /\ IsFiniteSet(A) /\ A \in SUBSET Nat
      /\ A \ {x} \in SUBSET S /\ IsFiniteSet(A \ {x})
  BY <1>3, FS_Subset DEF FiniteSubsetsOf
<1>6. A \ {x} \in FiniteSubsetsOf(S)
  BY <1>5 DEF FiniteSubsetsOf
<1>7. <<A \ {x}, A>> \in StrictSubsetOrdering(S)
  BY <1>4, <1>5 DEF StrictSubsetOrdering, FiniteSubsetsOf
<1>8. A \ {x} = {} \/ \E m \in A \ {x} : \A y \in A \ {x} : m >= y
  BY <1>3, <1>6, <1>7
<1>9. \E m \in A : \A y \in A : m >= y
  BY <1>4, <1>5, <1>8
<1> QED
  BY <1>3, <1>9

\* The next number is one, wherever the rounds stand.
LEMMA NextSequence ==
    ASSUME Types PROVE next_sequence_no \in Nat \ {0}
<1> DEFINE L == {q \in Rounds : Live(q)}
           S == {round[r].seq : r \in L}
<1>1. \A r \in L : round[r].seq \in Nat
  BY RowColumns DEF Types, Live
<1>2. IsFiniteSet(L)
  BY RoundsAssumption, FS_Subset
<1>3. IsFiniteSet(S)
  <2>1. [r \in L |-> round[r].seq] \in Surjection(L, S)
    BY DEF Surjection
  <2> QED
    BY <1>2, <2>1, FS_Surjection
<1>4. IsFiniteSet({0} \cup S)
  BY <1>3, FS_AddElement, FS_Singleton, FS_Union
<1>5. {0} \cup S \in SUBSET Nat /\ {0} \cup S # {}
  BY <1>1
<1>6. Max({0} \cup S) \in Nat
  BY <1>4, <1>5, FiniteHasMax
<1> QED
  BY <1>6 DEF next_sequence_no
-----------------------------------------------------------------------------
(* Steps that change one round. *)

\* Round r becomes row with schedules rows: the old ones keep their time and what they saw.
RowStep(r, row, rows) ==
    /\ row \in RoundRow /\ rows \in Seq(ScheduleRow)
    /\ round' = [round EXCEPT ![r] = row]
    /\ schedules' = [schedules EXCEPT ![r] = rows]
    /\ Len(rows) <= MaxSchedules /\ Shape(row, rows)
    /\ Len(schedules[r]) <= Len(rows)
    /\ \A v \in 1..Len(schedules[r]) :
          rows[v].slot = schedules[r][v].slot /\ rows[v].seen = schedules[r][v].seen
    /\ \A v \in 1..Len(rows) :
          v > Len(schedules[r]) => Free(schedules, rows[v].seen, rows[v].slot, r)
    /\ Live(r) /\ round[r].status \in Begun => row.status \in Begun

\* The requests that remain open were open, and no other of them is booking round r.
RequestsKept(r) ==
    \A c \in Clients : ~Idle(c)' =>
        req'[c] = req[c] /\ ~(req[c].op \in Booking /\ req[c].round = r)

\* Nobody else is about to book a round that a step may change.
LEMMA UnlockedRequests ==
    ASSUME Types, Locks, NEW r \in Rounds,
           \/ lock[r] = None /\ UNCHANGED req
           \/ \E c \in Clients : lock[r] \in {c, None} /\ End(c)
    PROVE  RequestsKept(r)
<1> SUFFICES ASSUME NEW d \in Clients, ~Idle(d)'
             PROVE  req'[d] = req[d] /\ ~(req[d].op \in Booking /\ req[d].round = r)
  BY DEF RequestsKept
<1>1. None \notin Clients
  BY NoneAssumption
<1>2. req'[d] = req[d] /\ lock[r] # d
  BY <1>1 DEF End, Idle, Types
<1>3. ~Idle(d)
  BY <1>2 DEF Idle
<1> QED
  BY <1>2, <1>3 DEF Locks, Running

LEMMA RowStepKeeps ==
    ASSUME Types, Types', Checked, Shapes, Calendars,
           NEW r \in Rounds, NEW row, NEW rows, RowStep(r, row, rows), RequestsKept(r)
    PROVE  Checked' /\ Shapes' /\ Calendars'
<1>0. /\ \A q \in Rounds : q # r => round'[q] = round[q] /\ schedules'[q] = schedules[q]
      /\ round'[r] = row /\ schedules'[r] = rows /\ row # None
  BY NoneIsNoRow DEF RowStep, Types
<1>1. Checked'
  <2> SUFFICES ASSUME NEW c \in Clients, ~Idle(c)' PROVE StillChecked(req[c])'
    BY DEF Checked
  <2>1. /\ ~Idle(c) /\ req'[c] = req[c] /\ req[c] \in Handler
        /\ ~(req[c].op \in Booking /\ req[c].round = r)
    BY DEF RequestsKept, Idle, Types
  <2>2. StillChecked(req[c])
    BY <2>1 DEF Checked
  <2>3. req[c].op \in Booking \cup {"end"} => req[c].round \in Rounds
    BY <2>1, HandlerColumns
  <2>4. CASE req[c].op \in Booking
    BY <1>0, <2>1, <2>2, <2>3, <2>4 DEF StillChecked, Live, Booking
  <2>5. CASE req[c].op = "end" /\ req[c].round # r
    BY <1>0, <2>1, <2>2, <2>3, <2>5 DEF StillChecked, Live, Booking
  <2>6. CASE req[c].op = "end" /\ req[c].round = r
    BY <1>0, <2>1, <2>2, <2>3, <2>6 DEF StillChecked, Live, Booking, RowStep
  <2>7. CASE req[c].op = "create"
    BY <2>1, <2>7 DEF StillChecked, Booking
  <2> QED
    BY <2>1, <2>4, <2>5, <2>6, <2>7, HandlerColumns DEF Booking
<1>2. Shapes'
  BY <1>0 DEF Shapes, RowStep, Live
<1>3. \A q \in Rounds : /\ Len(schedules[q]) \in Nat /\ Len(schedules'[q]) \in Nat
                        /\ Len(schedules[q]) <= Len(schedules'[q])
                        /\ \A v \in 1..Len(schedules[q]) :
                              /\ schedules'[q][v].slot = schedules[q][v].slot
                              /\ schedules'[q][v].seen = schedules[q][v].seen
  <2>1. \A q \in Rounds : Len(schedules[q]) \in Nat /\ Len(schedules'[q]) \in Nat
    BY DEF Types
  <2> QED
    BY <1>0, <2>1 DEF RowStep
<1>4. ASSUME NEW seen \in SUBSET (Rounds \X (1..MaxSchedules)), NEW slot, NEW except,
             Free(schedules, seen, slot, except)
      PROVE  Free(schedules', seen, slot, except)
  <2> SUFFICES ASSUME NEW b \in seen
               PROVE  /\ b[2] <= Len(schedules'[b[1]])
                      /\ b[1] # except => schedules'[b[1]][b[2]].slot # slot
    BY DEF Free
  <2>1. b[1] \in Rounds /\ b[2] \in Nat /\ b[2] >= 1
    BY BoundsAssumption
  <2>2. b[2] <= Len(schedules[b[1]]) /\ (b[1] # except => schedules[b[1]][b[2]].slot # slot)
    BY <1>4 DEF Free
  <2>3. b[2] \in 1..Len(schedules[b[1]])
    BY <1>3, <2>1, <2>2
  <2> QED
    BY <1>3, <2>1, <2>2, <2>3
<1>5. Calendars'
  <2>1. ASSUME NEW q \in Rounds, NEW v \in 1..Len(schedules'[q])
        PROVE  Free(schedules', schedules'[q][v].seen, schedules'[q][v].slot, q)
    <3>1. schedules'[q][v].seen \in SUBSET (Rounds \X (1..MaxSchedules))
      <4>1. schedules'[q] \in Seq(ScheduleRow)
        BY <2>1 DEF Types
      <4>2. schedules'[q][v] \in ScheduleRow
        BY <2>1, <4>1
      <4> QED
        BY <4>2, ScheduleColumns
    <3>2. Free(schedules, schedules'[q][v].seen, schedules'[q][v].slot, q)
      <4>1. CASE v \in 1..Len(schedules[q])
        BY <1>3, <4>1 DEF Calendars
      <4>2. CASE v \notin 1..Len(schedules[q])
        <5>1. v > Len(schedules[q])
          BY <1>3, <2>1, <4>2
        <5>2. q = r
          BY <1>0, <2>1, <4>2
        <5> QED
          BY <1>0, <2>1, <5>1, <5>2 DEF RowStep
      <4> QED
        BY <4>1, <4>2
    <3> QED
      BY <1>4, <3>1, <3>2
  <2>2. ASSUME NEW c \in Clients, ~Idle(c)' PROVE FreeRequest(schedules', req'[c])
    <3>1. ~Idle(c) /\ req'[c] = req[c] /\ req[c] \in Handler
      BY <2>2 DEF RequestsKept, Idle, Types
    <3>2. FreeRequest(schedules, req[c])
      BY <3>1 DEF Calendars
    <3> QED
      BY <1>4, <3>1, <3>2, HandlerColumns DEF FreeRequest
  <2> QED
    BY <2>1, <2>2 DEF Calendars
<1> QED
  BY <1>1, <1>2, <1>5
-----------------------------------------------------------------------------
(* The three kinds of step keep the invariant. *)

LEMMA EndKeeps ==
    ASSUME Types, Locks, NEW c \in Clients, End(c)
    PROVE  /\ lock' \in [Rounds -> Clients \cup {None}]
           /\ opened' \in 0..MaxRequests
           /\ req' \in [Clients -> Handler \cup {None}]
           /\ Locks'
<1>1. None \notin Clients
  BY NoneAssumption
<1>2. lock' \in [Rounds -> Clients \cup {None}] /\ opened' \in 0..MaxRequests
      /\ req' \in [Clients -> Handler \cup {None}]
  BY DEF End, Types
<1>3. ASSUME NEW r \in Rounds, lock'[r] # None
      PROVE  (\E op \in Booking : Running(lock[r], op)) /\ req[lock[r]].round = r
             /\ lock'[r] = lock[r] /\ lock[r] # c /\ req'[lock[r]] = req[lock[r]]
  BY <1>3 DEF End, Types, Locks
<1>4. ASSUME NEW d \in Clients, NEW op \in Booking, Running(d, op)'
      PROVE  lock'[req'[d].round] = d
  <2>1. d # c /\ req'[d] = req[d] /\ Running(d, op)
    BY <1>4 DEF End, Types, Running, Idle
  <2>2. req[d].round \in Rounds
    BY <2>1, HandlerColumns DEF Running, Idle, Types
  <2> QED
    BY <2>1, <2>2 DEF Locks, End
<1>5. Locks'
  BY <1>3, <1>4 DEF Locks, Running, Idle
<1> QED
  BY <1>2, <1>5

LEMMA RowInv ==
    ASSUME Inv, NEW r \in Rounds, NEW row, NEW rows, RowStep(r, row, rows),
           \/ lock[r] = None /\ UNCHANGED <<lock, opened, req>>
           \/ \E c \in Clients : lock[r] \in {c, None} /\ End(c),
           message' \in [Messages -> MessageStatuses \cup {"none"}],
           \A m \in Messages : message'[m] \notin {"none", "VOIDED"} =>
              /\ message[m] \notin {"none", "VOIDED"}
              /\ m[1] = r => /\ m[2] = row.current
                             /\ m[3] = "cancellation" =>
                                   row.status \in {"CANCELLED", "ENDED_ABNORMALLY"},
           \/ Live(r) /\ row.seq = round[r].seq /\ row.key = round[r].key
           \/ ~Live(r) /\ Insertable(row.seq, row.key)
    PROVE  Inv'
<1>0. /\ \A q \in Rounds : q # r => round'[q] = round[q]
      /\ round'[r] = row /\ row # None
  BY NoneIsNoRow DEF RowStep, Types, Inv
<1>1. /\ lock' \in [Rounds -> Clients \cup {None}] /\ opened' \in 0..MaxRequests
      /\ req' \in [Clients -> Handler \cup {None}] /\ Locks'
  <2>1. CASE UNCHANGED <<lock, opened, req>>
    BY <2>1 DEF Inv, Types, Locks, Running, Idle
  <2>2. CASE \E c \in Clients : End(c)
    BY <2>2, EndKeeps DEF Inv
  <2> QED
    BY <2>1, <2>2
<1>2. Types'
  BY <1>1 DEF Inv, Types, RowStep
<1>3. RequestsKept(r)
  BY UnlockedRequests DEF Inv
<1>4. Checked' /\ Shapes' /\ Calendars'
  BY <1>2, <1>3, RowStepKeeps DEF Inv
<1>5. OpenMessages'
  <2> SUFFICES ASSUME NEW m \in Messages, message'[m] \notin {"none", "VOIDED"}
               PROVE  /\ Live(m[1])'
                      /\ m[2] = round'[m[1]].current
                      /\ m[3] = "cancellation" =>
                            round'[m[1]].status \in {"CANCELLED", "ENDED_ABNORMALLY"}
    BY DEF OpenMessages
  <2>1. m[1] \in Rounds
    BY DEF Messages
  <2>2. CASE m[1] = r
    BY <1>0, <2>2 DEF Live
  <2>3. CASE m[1] # r
    BY <1>0, <2>1, <2>3 DEF Live, Inv, OpenMessages
  <2> QED
    BY <2>2, <2>3
<1>6. RoundsDistinct'
  <2>1. CASE Live(r) /\ row.seq = round[r].seq /\ row.key = round[r].key
    <3>1. \A q \in Rounds : Live(q)' => /\ Live(q) /\ round'[q].seq = round[q].seq
                                        /\ round'[q].key = round[q].key
      BY <1>0, <2>1 DEF Live
    <3> QED
      BY <3>1 DEF Inv, RoundsDistinct
  <2>2. CASE ~Live(r) /\ Insertable(row.seq, row.key)
    BY <1>0, <2>2 DEF Inv, RoundsDistinct, Insertable, Live
  <2> QED
    BY <2>1, <2>2
<1> QED
  BY <1>1, <1>2, <1>4, <1>5, <1>6 DEF Inv

\* A request begins: what it has checked and read holds now.
LEMMA BeginInv ==
    ASSUME Inv, NEW c \in Clients, NEW q \in Handler, Begin(c, q),
           UNCHANGED <<round, schedules, message>>,
           StillChecked(q), FreeRequest(schedules, q),
           \/ q.op \notin Booking /\ UNCHANGED lock
           \/ q.op \in Booking /\ lock[q.round] = None /\ lock' = [lock EXCEPT ![q.round] = c]
    PROVE  Inv'
<1>0. /\ None \notin Clients /\ q # None /\ Idle(c)
      /\ \A d \in Clients : d # c => req'[d] = req[d]
      /\ req'[c] = q
      /\ q.op \in Booking => q.round \in Rounds
  BY NoneAssumption, HandlerColumns DEF Begin, Inv, Types
<1>1. Types'
  BY <1>0, BoundsAssumption DEF Inv, Types, Begin
<1>2. Locks'
  <2>0. \A r \in Rounds : lock[r] # c
    BY <1>0 DEF Inv, Locks, Running
  <2>1. ASSUME NEW r \in Rounds, lock'[r] # None
        PROVE  (\E op \in Booking : Running(lock[r], op)') /\ req'[lock'[r]].round = r
    <3>1. CASE lock'[r] = lock[r]
      <4>1. /\ lock[r] \in Clients /\ lock[r] # c
            /\ \E op \in Booking : Running(lock[r], op)
            /\ req[lock[r]].round = r
        BY <2>0, <2>1, <3>1 DEF Inv, Types, Locks
      <4>2. req'[lock[r]] = req[lock[r]]
        BY <1>0, <4>1
      <4> QED
        BY <3>1, <4>1, <4>2 DEF Running, Idle
    <3>2. CASE lock'[r] # lock[r]
      <4>1. q.op \in Booking /\ q.round = r /\ lock'[r] = c
        BY <1>0, <3>2 DEF Inv, Types
      <4> QED
        BY <1>0, <4>1 DEF Running, Idle
    <3> QED
      BY <3>1, <3>2
  <2>4. ASSUME NEW d \in Clients, NEW op \in Booking, Running(d, op)'
        PROVE  lock'[req'[d].round] = d
    <3>1. CASE d = c
      BY <1>0, <2>4, <3>1 DEF Running, Idle, Inv, Types
    <3>2. CASE d # c
      <4>1. Running(d, op) /\ req'[d] = req[d] /\ req[d].round \in Rounds
        BY <1>0, <2>4, <3>2, HandlerColumns DEF Running, Idle, Inv, Types
      <4> QED
        BY <1>0, <4>1 DEF Inv, Locks, Types
    <3> QED
      BY <3>1, <3>2
  <2> QED
    BY <2>1, <2>4 DEF Locks
<1>3. Checked'
  <2>1. \A d \in Clients : ~Idle(d)' => StillChecked(req'[d])
    BY <1>0 DEF Inv, Checked, Idle
  <2>2. \A d \in Clients : StillChecked(req'[d]) => StillChecked(req[d])'
    BY DEF StillChecked, Live
  <2> QED
    BY <2>1, <2>2 DEF Checked
<1>4. Calendars'
  BY <1>0 DEF Inv, Calendars, Idle
<1>5. Shapes' /\ OpenMessages' /\ RoundsDistinct'
  BY DEF Inv, Shapes, OpenMessages, RoundsDistinct, Live
<1> QED
  BY <1>1, <1>2, <1>3, <1>4, <1>5 DEF Inv

\* A message changes: what is open was open, or is about the current schedule.
LEMMA MessageInv ==
    ASSUME Inv, UNCHANGED <<round, schedules, lock, opened, req>>,
           message' \in [Messages -> MessageStatuses \cup {"none"}],
           \A m \in Messages : message'[m] \notin {"none", "VOIDED"} =>
              \/ message[m] \notin {"none", "VOIDED"}
              \/ /\ Live(m[1]) /\ m[2] = round[m[1]].current
                 /\ m[3] = "cancellation" => round[m[1]].status = "CANCELLED"
    PROVE  Inv'
<1>1. Types' /\ Locks' /\ Checked' /\ Shapes' /\ Calendars' /\ RoundsDistinct'
  BY DEF Inv, Types, Locks, Checked, Shapes, Calendars, RoundsDistinct, Live, Idle, Running,
         StillChecked
<1>2. OpenMessages'
  BY DEF Inv, OpenMessages, Live
<1> QED
  BY <1>1, <1>2 DEF Inv
-----------------------------------------------------------------------------
(* Every action keeps the invariant. *)

LEMMA CalendarFree ==
    ASSUME Types, NEW slot, NEW except,
           slot = None \/ _assert_no_blocking_conflicts(slot, except)
    PROVE  /\ Bookings \in SUBSET (Rounds \X (1..MaxSchedules))
           /\ Free(schedules, Bookings, slot, except)
<1>1. Bookings \in SUBSET (Rounds \X (1..MaxSchedules))
  BY DEF Bookings
<1>2. ASSUME NEW b \in Bookings
      PROVE  /\ b[2] <= Len(schedules[b[1]])
             /\ b[1] # except => schedules[b[1]][b[2]].slot # slot
  <2>1. /\ b[1] \in Rounds /\ b[2] \in 1..MaxSchedules
        /\ b[2] \in 1..Len(schedules[b[1]])
    BY DEF Bookings, active
  <2>2. b[2] <= Len(schedules[b[1]]) /\ schedules[b[1]][b[2]] \in ScheduleRow
    BY <2>1, Rows
  <2>3. CASE slot = None
    BY <2>2, <2>3, ScheduleColumns, NoneAssumption
  <2>4. CASE _assert_no_blocking_conflicts(slot, except)
    BY <2>2, <2>4 DEF _assert_no_blocking_conflicts, find_candidate_conflicts, SlotOf
  <2> QED
    BY <2>3, <2>4
<1> QED
  BY <1>1, <1>2 DEF Free

LEMMA CreateBegins ==
    ASSUME Inv, NEW c \in Clients, NEW seq \in Places \cup {next_sequence_no},
           NEW slot \in Slots \cup {None}, NEW k \in Keys, create_interview_round(c, seq, slot, k)
    PROVE  Inv'
<1> DEFINE q == [op |-> "create", seq |-> seq, slot |-> slot, key |-> k, seen |-> Bookings]
<1>1. seq \in Nat \ {0}
  BY NextSequence, BoundsAssumption DEF Inv
<1>2. Bookings \in SUBSET (Rounds \X (1..MaxSchedules)) /\ Free(schedules, Bookings, slot, None)
  BY CalendarFree DEF Inv, create_interview_round
<1>3. q \in Handler
  BY <1>1, <1>2 DEF Handler
<1>4. StillChecked(q) /\ FreeRequest(schedules, q) /\ q.op \notin Booking
  BY <1>2 DEF StillChecked, FreeRequest, Booking
<1>5. Begin(c, q) /\ UNCHANGED <<round, schedules, message, lock>>
  BY DEF create_interview_round
<1> QED
  BY <1>3, <1>4, <1>5, BeginInv

LEMMA BookingBegins ==
    ASSUME Inv, NEW c \in Clients, NEW r \in Rounds, NEW slot \in Slots,
           schedule_interview_round(c, r, slot) \/ reschedule_interview_round(c, r, slot)
    PROVE  Inv'
<1>1. PICK op \in Booking :
        /\ LockAndCheck(c, r, op, slot) /\ Live(r) /\ Len(schedules[r]) < MaxSchedules
        /\ op = "schedule" => round[r].status = "DRAFT"
        /\ op = "reschedule" => round[r].status \in {"SCHEDULED", "CONFIRMED"}
  <2>1. CASE schedule_interview_round(c, r, slot)
    BY <2>1, NextStatus DEF schedule_interview_round, Booking
  <2>2. CASE reschedule_interview_round(c, r, slot)
    BY <2>2 DEF reschedule_interview_round, Booking
  <2> QED
    BY <2>1, <2>2
<1> DEFINE q == [op |-> op, round |-> r, slot |-> slot, seen |-> Bookings]
<1>2. Bookings \in SUBSET (Rounds \X (1..MaxSchedules)) /\ Free(schedules, Bookings, slot, r)
  BY <1>1, CalendarFree DEF Inv, LockAndCheck
<1>3. q \in Handler
  BY <1>1, <1>2 DEF Handler, Booking
<1>4. StillChecked(q) /\ FreeRequest(schedules, q) /\ q.op \in Booking
  BY <1>1, <1>2 DEF StillChecked, FreeRequest, Booking
<1>5. /\ Begin(c, q) /\ UNCHANGED <<round, schedules, message>>
      /\ lock[q.round] = None /\ lock' = [lock EXCEPT ![q.round] = c]
  BY <1>1 DEF LockAndCheck, get_round_for_update
<1> QED
  BY <1>3, <1>4, <1>5, BeginInv

LEMMA EndBegins ==
    ASSUME Inv, NEW c \in Clients, NEW r \in Rounds, end_interview_abnormally(c, r)
    PROVE  Inv'
<1> DEFINE q == [op |-> "end", round |-> r]
<1>1. Live(r) /\ round[r].status = "IN_PROGRESS"
  BY NextStatus DEF end_interview_abnormally
<1>2. q \in Handler /\ StillChecked(q) /\ FreeRequest(schedules, q) /\ q.op \notin Booking
  BY <1>1 DEF Handler, StillChecked, FreeRequest, Booking, Begun
<1>3. Begin(c, q) /\ UNCHANGED <<round, schedules, message, lock>>
  BY DEF end_interview_abnormally
<1> QED
  BY <1>2, <1>3, BeginInv

\* The request a client is in, and the round it locked.
LEMMA Holder ==
    ASSUME Inv, NEW c \in Clients, NEW op \in Booking, Running(c, op)
    PROVE  /\ req[c] \in Handler /\ req[c].op = op
           /\ req[c].round \in Rounds /\ req[c].slot \in Slots
           /\ req[c].seen \in SUBSET (Rounds \X (1..MaxSchedules))
           /\ lock[req[c].round] = c /\ Live(req[c].round)
           /\ Len(schedules[req[c].round]) \in Nat
           /\ Len(schedules[req[c].round]) < MaxSchedules
           /\ op = "schedule" => round[req[c].round].status = "DRAFT"
           /\ op = "reschedule" => round[req[c].round].status \in {"SCHEDULED", "CONFIRMED"}
           /\ Free(schedules, req[c].seen, req[c].slot, req[c].round)
<1>1. req[c] \in Handler /\ req[c].op = op /\ ~Idle(c)
  BY DEF Inv, Types, Running, Idle
<1>2. /\ req[c].round \in Rounds /\ req[c].slot \in Slots
      /\ req[c].seen \in SUBSET (Rounds \X (1..MaxSchedules))
  BY <1>1, HandlerColumns
<1>3. StillChecked(req[c]) /\ FreeRequest(schedules, req[c])
  BY <1>1 DEF Inv, Checked, Calendars
<1>4. lock[req[c].round] = c
  BY DEF Inv, Locks
<1> QED
  BY <1>1, <1>2, <1>3, <1>4, Rows DEF Inv, StillChecked, FreeRequest, Booking

\* One schedule more, active and current.
LEMMA Appended ==
    ASSUME NEW rows \in Seq(ScheduleRow), NEW new \in ScheduleRow
    PROVE  /\ Append(rows, new) \in Seq(ScheduleRow)
           /\ Len(rows) \in Nat /\ Len(Append(rows, new)) = Len(rows) + 1
           /\ Append(rows, new)[Len(rows) + 1] = new
           /\ \A v \in 1..Len(rows) : Append(rows, new)[v] = rows[v]
           /\ \A v \in 1..Len(Append(rows, new)) : v \in 1..Len(rows) \/ v = Len(rows) + 1
  OBVIOUS

LEMMA CommitCreateKeeps ==
    ASSUME Inv, NEW c \in Clients, CommitCreate(c)
    PROVE  Inv'
<1> DEFINE q == req[c]
<1>1. /\ q \in Handler /\ q.op = "create" /\ ~Idle(c)
      /\ q.seq \in Nat \ {0} /\ q.slot \in Slots \cup {None} /\ q.key \in Keys
      /\ q.seen \in SUBSET (Rounds \X (1..MaxSchedules))
  BY HandlerColumns DEF Inv, Types, CommitCreate, Running, Idle
<1>2. Free(schedules, q.seen, q.slot, None)
  BY <1>1 DEF Inv, Calendars, FreeRequest
<1>3. PICK r \in Rounds : /\ ~Live(r)
                          /\ round' = [round EXCEPT ![r] = NewRound(q)]
                          /\ schedules' = [schedules EXCEPT ![r] = NewSchedules(q)]
  BY DEF CommitCreate
<1>4. /\ NewRound(q) \in RoundRow /\ NewRound(q).seq = q.seq /\ NewRound(q).key = q.key
      /\ NewRound(q).confirmed = 0
      /\ NewRound(q).status = (IF q.slot = None THEN "DRAFT" ELSE "SCHEDULED")
      /\ NewRound(q).current = (IF q.slot = None THEN 0 ELSE 1)
  BY <1>1, BoundsAssumption DEF NewRound, RoundRow, Statuses
<1>5. Len(schedules[r]) = 0
  BY <1>3 DEF Inv, Shapes
<1>6. r # None
  BY NoneAssumption
<1>7. RowStep(r, NewRound(q), NewSchedules(q))
  <2>1. CASE q.slot = None
    <3>1. NewSchedules(q) \in Seq(ScheduleRow) /\ Len(NewSchedules(q)) = 0
      BY <2>1 DEF NewSchedules
    <3> QED
      BY <1>3, <1>4, <1>5, <2>1, <3>1, BoundsAssumption DEF RowStep, Shape
  <2>2. CASE q.slot # None
    <3> DEFINE new == _schedule_from_payload(q.slot, q.seen)
    <3>1. /\ new \in ScheduleRow /\ new.status = "ACTIVE" /\ new.slot = q.slot
          /\ new.seen = q.seen
      BY <1>1, <2>2, ScheduleColumns
    <3>2. /\ NewSchedules(q) \in Seq(ScheduleRow) /\ Len(NewSchedules(q)) = 1
          /\ NewSchedules(q)[1] = new
      BY <2>2, <3>1 DEF NewSchedules
    <3>3. Free(schedules, q.seen, q.slot, r)
      <4> SUFFICES ASSUME NEW b \in q.seen
                   PROVE  /\ b[2] <= Len(schedules[b[1]])
                          /\ schedules[b[1]][b[2]].slot # q.slot
        BY DEF Free
      <4>1. b[1] # None
        BY <1>1, NoneAssumption
      <4> QED
        BY <1>2, <4>1 DEF Free
    <3>4. Shape(NewRound(q), NewSchedules(q))
      BY <1>4, <2>2, <3>1, <3>2 DEF Shape
    <3>5. \A v \in 1..Len(NewSchedules(q)) :
             Free(schedules, NewSchedules(q)[v].seen, NewSchedules(q)[v].slot, r)
      BY <3>1, <3>2, <3>3
    <3> HIDE DEF new
    <3> QED
      BY <1>3, <1>4, <1>5, <3>2, <3>4, <3>5, BoundsAssumption DEF RowStep
  <2> QED
    BY <2>1, <2>2
<1>8. \A m \in Messages : message'[m] \notin {"none", "VOIDED"} =>
         message[m] \notin {"none", "VOIDED"} /\ m[1] # r
  BY <1>3 DEF CommitCreate, Inv, OpenMessages
<1>9. lock[r] = None
  BY <1>3, Holder DEF Inv, Locks, Types
<1>10. Insertable(NewRound(q).seq, NewRound(q).key) /\ End(c) /\ UNCHANGED message
  BY <1>4 DEF CommitCreate
<1>11. message' \in [Messages -> MessageStatuses \cup {"none"}]
  BY <1>10 DEF Inv, Types
<1> HIDE DEF q
<1> QED
  BY <1>3, <1>7, <1>8, <1>9, <1>10, <1>11, RowInv

LEMMA CommitScheduleKeeps ==
    ASSUME Inv, NEW c \in Clients, CommitSchedule(c)
    PROVE  Inv'
<1> DEFINE q   == req[c]
           r   == q.round
           old == Len(schedules[r])
           new == _schedule_from_payload(q.slot, q.seen)
           row == Booked(round[r], old + 1)
           rows == Append(schedules[r], new)
<1>1. /\ r \in Rounds /\ q.slot \in Slots /\ q.seen \in SUBSET (Rounds \X (1..MaxSchedules))
      /\ lock[r] = c /\ Live(r) /\ old \in Nat /\ old < MaxSchedules
      /\ round[r].status = "DRAFT" /\ Free(schedules, q.seen, q.slot, r)
  BY Holder DEF CommitSchedule, Booking
<1>2. /\ new \in ScheduleRow /\ new.status = "ACTIVE" /\ new.slot = q.slot
      /\ new.seen = q.seen
  BY <1>1, ScheduleColumns
<1>3. schedules[r] \in Seq(ScheduleRow) /\ round[r] \in RoundRow
  BY <1>1, Rows DEF Inv
<1>4. /\ row \in RoundRow /\ row.status = "SCHEDULED" /\ row.current = old + 1
      /\ row.confirmed = round[r].confirmed
      /\ row.seq = round[r].seq /\ row.key = round[r].key
  <2>1. old + 1 \in 1..MaxSchedules
    BY <1>1, BoundsAssumption
  <2> QED
    BY <1>3, <2>1, RowColumns
<1>5. old = 0 /\ round[r].confirmed = 0 /\ round[r].current = 0
  BY <1>1 DEF Inv, Shapes, Shape
<1>6. /\ rows \in Seq(ScheduleRow) /\ Len(rows) = 1 /\ rows[1] = new
  BY <1>2, <1>3, <1>5
<1>7. RowStep(r, row, rows)
  <2>1. Shape(row, rows)
    BY <1>2, <1>4, <1>5, <1>6 DEF Shape
  <2>2. \A v \in 1..Len(rows) : Free(schedules, rows[v].seen, rows[v].slot, r)
    BY <1>1, <1>2, <1>6
  <2>3. round[r].status \notin Begun
    BY <1>1 DEF Begun, Terminal
  <2>4. round' = [round EXCEPT ![r] = row] /\ schedules' = [schedules EXCEPT ![r] = rows]
    BY DEF CommitSchedule
  <2> HIDE DEF row, rows
  <2> QED
    BY <1>4, <1>5, <1>6, <2>1, <2>2, <2>3, <2>4, BoundsAssumption DEF RowStep
<1>8. \A m \in Messages : message'[m] \notin {"none", "VOIDED"} =>
         message[m] \notin {"none", "VOIDED"} /\ m[1] # r
  <2>1. \A m \in Messages : m[2] # 0
    BY BoundsAssumption DEF Messages
  <2> QED
    BY <1>5, <2>1 DEF CommitSchedule, Inv, OpenMessages
<1>9. End(c) /\ message' \in [Messages -> MessageStatuses \cup {"none"}]
  BY DEF CommitSchedule, Inv, Types
<1> HIDE DEF row, rows, r
<1> QED
  BY <1>1, <1>4, <1>7, <1>8, <1>9, RowInv

LEMMA CommitRescheduleKeeps ==
    ASSUME Inv, NEW c \in Clients, CommitReschedule(c)
    PROVE  Inv'
<1> DEFINE q    == req[c]
           r    == q.round
           old  == Len(schedules[r])
           new  == _schedule_from_payload(q.slot, q.seen)
           row  == Rebooked(round[r], old + 1)
           shut == CloseActive(r, "SUPERSEDED")
           rows == Append(shut, new)
<1>1. /\ r \in Rounds /\ q.slot \in Slots /\ q.seen \in SUBSET (Rounds \X (1..MaxSchedules))
      /\ lock[r] = c /\ Live(r) /\ old \in Nat /\ old < MaxSchedules
      /\ round[r].status \in {"SCHEDULED", "CONFIRMED"} /\ Free(schedules, q.seen, q.slot, r)
  BY Holder DEF CommitReschedule, Booking
<1>2. /\ new \in ScheduleRow /\ new.status = "ACTIVE" /\ new.slot = q.slot
      /\ new.seen = q.seen
  BY <1>1, ScheduleColumns
<1>3. schedules[r] \in Seq(ScheduleRow) /\ round[r] \in RoundRow
  BY <1>1, Rows DEF Inv
<1>4. /\ row \in RoundRow /\ row.status = "SCHEDULED" /\ row.current = old + 1
      /\ row.confirmed = 0
      /\ row.seq = round[r].seq /\ row.key = round[r].key
  <2>1. old + 1 \in 1..MaxSchedules
    BY <1>1, BoundsAssumption
  <2> QED
    BY <1>3, <2>1, RowColumns
<1>5. round[r].current = old
  BY <1>1 DEF Inv, Shapes, Shape
<1>6. /\ shut \in Seq(ScheduleRow) /\ Len(shut) = old
      /\ \A v \in 1..old : /\ shut[v].status # "ACTIVE"
                           /\ shut[v].slot = schedules[r][v].slot
                           /\ shut[v].seen = schedules[r][v].seen
  BY <1>1, Closed DEF Inv
<1>7. /\ rows \in Seq(ScheduleRow) /\ Len(rows) = old + 1 /\ rows[old + 1] = new
      /\ \A v \in 1..old : rows[v] = shut[v]
      /\ \A v \in 1..Len(rows) : v \in 1..old \/ v = old + 1
  <2> HIDE DEF shut, new, old
  <2> QED
    BY <1>2, <1>6, Appended
<1>8. RowStep(r, row, rows)
  <2>1. Shape(row, rows)
    <3> HIDE DEF shut, new, rows, row, old
    <3> QED
      BY <1>1, <1>2, <1>4, <1>6, <1>7 DEF Shape
  <2>2. \A v \in 1..Len(rows) : v > old => Free(schedules, rows[v].seen, rows[v].slot, r)
    BY <1>1, <1>2, <1>7
  <2>3. round[r].status \notin Begun
    BY <1>1 DEF Begun, Terminal
  <2>4. round' = [round EXCEPT ![r] = row] /\ schedules' = [schedules EXCEPT ![r] = rows]
    BY DEF CommitReschedule
  <2>5. Len(rows) <= MaxSchedules /\ old <= Len(rows)
    BY <1>1, <1>7, BoundsAssumption
  <2> HIDE DEF row, rows, shut, new
  <2> QED
    BY <1>4, <1>6, <1>7, <2>1, <2>2, <2>3, <2>4, <2>5 DEF RowStep
<1>9. End(c) /\ message' = void_open_messages_for_schedule(r, old)
  BY DEF CommitReschedule
<1>10. message' \in [Messages -> MessageStatuses \cup {"none"}]
  BY <1>9 DEF Inv, Types, void_open_messages_for_schedule, VoidMessages, MessageStatuses
<1>11. \A m \in Messages : message'[m] \notin {"none", "VOIDED"} =>
         message[m] \notin {"none", "VOIDED"} /\ m[1] # r
  <2> SUFFICES ASSUME NEW m \in Messages, message'[m] \notin {"none", "VOIDED"}
               PROVE  message[m] \notin {"none", "VOIDED"} /\ m[1] # r
    OBVIOUS
  <2>1. /\ message[m] \notin {"none", "VOIDED"}
        /\ m[1] = r => m[2] # old \/ message[m] \notin {"DRAFT", "READY", "RECORDED_SENT"}
    BY <1>9 DEF void_open_messages_for_schedule, VoidMessages
  <2>2. message[m] \in {"DRAFT", "READY", "RECORDED_SENT"}
    BY <2>1 DEF Inv, Types, MessageStatuses
  <2> QED
    BY <1>5, <2>1, <2>2 DEF Inv, OpenMessages
<1> HIDE DEF row, rows, r
<1> QED
  BY <1>1, <1>4, <1>8, <1>9, <1>10, <1>11, RowInv

\* A step that only rewrites the row of a live round, outside what a schedule depends on.
LEMMA SameSchedules ==
    ASSUME Inv, NEW r \in Rounds, Live(r), NEW row \in RoundRow,
           round' = [round EXCEPT ![r] = row], UNCHANGED schedules,
           row.current = round[r].current, Shape(row, schedules[r]),
           round[r].status \in Begun => row.status \in Begun
    PROVE  RowStep(r, row, schedules[r])
<1>1. schedules' = [schedules EXCEPT ![r] = schedules[r]]
  BY DEF Inv, Types
<1>2. schedules[r] \in Seq(ScheduleRow) /\ Len(schedules[r]) \in Nat
      /\ Len(schedules[r]) <= MaxSchedules
  BY Rows DEF Inv, Shapes
<1>3. \A v \in 1..Len(schedules[r]) : ~(v > Len(schedules[r]))
  BY <1>2
<1> QED
  BY ONLY <1>1, <1>2, <1>3, row \in RoundRow, round' = [round EXCEPT ![r] = row],
          Shape(row, schedules[r]), round[r].status \in Begun => row.status \in Begun
     DEF RowStep

LEMMA StatusKeeps ==
    ASSUME Inv, NEW r \in Rounds,
           NEW a \in {"start", "finish", "complete"}, _status_action(r, a),
           UNCHANGED <<schedules, message, lock, opened, req>>
    PROVE  Inv'
<1>1. PICK s \in next_status(round[r].status, a) :
         round' = [round EXCEPT ![r] = RoundStatus(round[r], s)]
  BY DEF _status_action
<1> DEFINE row == RoundStatus(round[r], s)
<1>2. /\ s \in {"IN_PROGRESS", "PENDING_TRANSCRIPT", "COMPLETED"}
      /\ s \in Begun /\ s \in Statuses
      /\ round[r].status \in {"SCHEDULED", "CONFIRMED", "IN_PROGRESS", "PENDING_TRANSCRIPT"}
  BY <1>1, NextStatus DEF Begun, Terminal
<1>3. Live(r) /\ lock[r] = None /\ round[r] \in RoundRow
  BY Rows DEF _status_action, get_round_for_update, Inv
<1>4. /\ row \in RoundRow /\ row.status = s /\ row.current = round[r].current
      /\ row.seq = round[r].seq /\ row.key = round[r].key
  BY <1>2, <1>3, RowColumns
<1>5. Shape(row, schedules[r])
  <2>1. Shape(round[r], schedules[r])
    BY <1>3 DEF Inv, Shapes
  <2> HIDE DEF row
  <2> QED
    BY <1>2, <1>4, <2>1 DEF Shape
<1>6. RowStep(r, row, schedules[r])
  BY <1>1, <1>2, <1>3, <1>4, <1>5, SameSchedules
<1>7. message' \in [Messages -> MessageStatuses \cup {"none"}]
  BY DEF Inv, Types
<1>8. \A m \in Messages : message'[m] \notin {"none", "VOIDED"} =>
         /\ message[m] \notin {"none", "VOIDED"}
         /\ m[1] = r => m[2] = row.current /\ m[3] # "cancellation"
  BY <1>2, <1>4 DEF Inv, OpenMessages
<1> HIDE DEF row
<1> QED
  BY <1>3, <1>4, <1>6, <1>7, <1>8, RowInv

LEMMA CancelKeeps ==
    ASSUME Inv, NEW r \in Rounds, cancel_interview_round(r)
    PROVE  Inv'
<1>1. PICK s \in next_status(round[r].status, "cancel") :
         round' = [round EXCEPT ![r] = RoundStatus(round[r], s)]
  BY DEF cancel_interview_round, _status_action
<1> DEFINE row  == RoundStatus(round[r], s)
           rows == CloseActive(r, "CANCELLED")
<1>2. s = "CANCELLED" /\ s \in Begun /\ s \in Statuses
  BY <1>1, NextStatus DEF Begun, Terminal
<1>3. Live(r) /\ lock[r] = None /\ round[r] \in RoundRow /\ Len(schedules[r]) \in Nat
  BY Rows DEF cancel_interview_round, _status_action, get_round_for_update, Inv
<1>4. /\ row \in RoundRow /\ row.status = s /\ row.current = round[r].current
      /\ row.seq = round[r].seq /\ row.key = round[r].key
  BY <1>2, <1>3, RowColumns
<1>5. /\ rows \in Seq(ScheduleRow) /\ Len(rows) = Len(schedules[r])
      /\ \A v \in 1..Len(schedules[r]) : /\ rows[v].status # "ACTIVE"
                                         /\ rows[v].slot = schedules[r][v].slot
                                         /\ rows[v].seen = schedules[r][v].seen
  BY Closed DEF Inv
<1>6. RowStep(r, row, rows)
  <2>1. Shape(round[r], schedules[r]) /\ Len(schedules[r]) <= MaxSchedules
    BY <1>3 DEF Inv, Shapes
  <2>2. Shape(row, rows)
    <3> HIDE DEF row, rows
    <3> QED
      BY <1>2, <1>4, <1>5, <2>1 DEF Shape
  <2>3. round' = [round EXCEPT ![r] = row] /\ schedules' = [schedules EXCEPT ![r] = rows]
    BY <1>1 DEF cancel_interview_round
  <2> HIDE DEF row, rows
  <2> QED
    BY <1>2, <1>3, <1>4, <1>5, <2>1, <2>2, <2>3 DEF RowStep
<1>7. /\ UNCHANGED <<message, lock, opened, req>>
      /\ message' \in [Messages -> MessageStatuses \cup {"none"}]
  BY DEF cancel_interview_round, Inv, Types
<1>8. \A m \in Messages : message'[m] \notin {"none", "VOIDED"} =>
         /\ message[m] \notin {"none", "VOIDED"}
         /\ m[1] = r => m[2] = row.current /\ row.status = "CANCELLED"
  BY <1>2, <1>4, <1>7 DEF Inv, OpenMessages
<1> HIDE DEF row, rows
<1> QED
  BY <1>3, <1>4, <1>6, <1>7, <1>8, RowInv

LEMMA ConfirmKeeps ==
    ASSUME Inv, NEW r \in Rounds, confirm_invitation(r)
    PROVE  Inv'
<1>1. PICK s \in next_status(round[r].status, "confirm_invitation") :
         round' = [round EXCEPT ![r] = Confirmed(round[r], s, Max(active(r)))]
  BY DEF confirm_invitation
<1>2. round[r].status = "SCHEDULED" /\ s = "CONFIRMED" /\ s \in Statuses
  BY <1>1, NextStatus
<1>3. Live(r) /\ lock[r] = None /\ round[r] \in RoundRow /\ round[r].current \in 0..MaxSchedules
  BY Rows, RowColumns DEF confirm_invitation, get_round_for_update, Inv
<1>4. Max(active(r)) = round[r].current
  <2>1. active(r) = {round[r].current}
    BY <1>2, <1>3, ActiveIsCurrent DEF Inv
  <2> QED
    BY <1>3, <2>1, BoundsAssumption DEF Max
<1> DEFINE row == Confirmed(round[r], s, round[r].current)
<1>5. /\ row \in RoundRow /\ row.status = "CONFIRMED" /\ row.current = round[r].current
      /\ row.confirmed = round[r].current
      /\ row.seq = round[r].seq /\ row.key = round[r].key
  <2> DEFINE v == round[r].current
  <2>1. v \in 0..MaxSchedules /\ row = Confirmed(round[r], s, v)
    BY <1>3
  <2>2. \A t \in Statuses, n \in 0..MaxSchedules :
          /\ Confirmed(round[r], t, n) \in RoundRow /\ Confirmed(round[r], t, n).status = t
          /\ Confirmed(round[r], t, n).current = round[r].current
          /\ Confirmed(round[r], t, n).confirmed = n
          /\ Confirmed(round[r], t, n).seq = round[r].seq
          /\ Confirmed(round[r], t, n).key = round[r].key
    BY <1>3, RowColumns
  <2> HIDE DEF row
  <2> QED
    BY <1>2, <2>1, <2>2
<1>6. Shape(row, schedules[r])
  <2>1. Shape(round[r], schedules[r])
    BY <1>3 DEF Inv, Shapes
  <2> HIDE DEF row
  <2> QED
    BY <1>2, <1>5, <2>1 DEF Shape
<1>7. /\ round' = [round EXCEPT ![r] = row] /\ UNCHANGED <<schedules, message, lock, opened, req>>
      /\ round[r].status \notin Begun
  BY <1>1, <1>2, <1>4 DEF confirm_invitation, Begun, Terminal
<1>8. RowStep(r, row, schedules[r])
  <2> HIDE DEF row
  <2> QED
    BY <1>3, <1>5, <1>6, <1>7, SameSchedules
<1>9. message' \in [Messages -> MessageStatuses \cup {"none"}]
  BY <1>7 DEF Inv, Types
<1>10. \A m \in Messages : message'[m] \notin {"none", "VOIDED"} =>
         /\ message[m] \notin {"none", "VOIDED"}
         /\ m[1] = r => m[2] = row.current /\ m[3] # "cancellation"
  BY <1>2, <1>5, <1>7 DEF Inv, OpenMessages
<1> HIDE DEF row
<1> QED
  BY <1>3, <1>5, <1>7, <1>8, <1>9, <1>10, RowInv

\* The stale abnormal end: the round had begun when it was read, so it has begun now.
LEMMA CommitEndKeeps ==
    ASSUME Inv, NEW c \in Clients, CommitEnd(c)
    PROVE  Inv'
<1> DEFINE r   == req[c].round
           row == RoundStatus(round[r], "ENDED_ABNORMALLY")
<1>1. req[c] \in Handler /\ req[c].op = "end" /\ r \in Rounds /\ ~Idle(c)
  BY HandlerColumns DEF CommitEnd, Running, Idle, Inv, Types
<1>2. Live(r) /\ lock[r] = None /\ round[r] \in RoundRow
  BY <1>1, Rows DEF CommitEnd, get_round_for_update, Inv
<1>3. /\ row \in RoundRow /\ row.status = "ENDED_ABNORMALLY"
      /\ row.current = round[r].current
      /\ row.seq = round[r].seq /\ row.key = round[r].key
  BY <1>2, RowColumns DEF Statuses, Terminal
<1>4. Shape(row, schedules[r])
  <2>1. Shape(round[r], schedules[r])
    BY <1>1, <1>2 DEF Inv, Shapes
  <2> HIDE DEF row, r
  <2> QED
    BY <1>3, <2>1 DEF Shape
<1>5. /\ round' = [round EXCEPT ![r] = row] /\ UNCHANGED <<schedules, message>> /\ End(c)
  BY DEF CommitEnd
<1>6. row.status \in Begun
  BY <1>3 DEF Begun, Terminal
<1>7. RowStep(r, row, schedules[r])
  <2> HIDE DEF row, r
  <2> QED
    BY <1>1, <1>2, <1>3, <1>4, <1>5, <1>6, SameSchedules
<1>8. message' \in [Messages -> MessageStatuses \cup {"none"}]
  BY <1>5 DEF Inv, Types
<1>9. \A m \in Messages : message'[m] \notin {"none", "VOIDED"} =>
         /\ message[m] \notin {"none", "VOIDED"}
         /\ m[1] = r => m[2] = row.current /\ row.status = "ENDED_ABNORMALLY"
  BY <1>3, <1>5 DEF Inv, OpenMessages
<1> HIDE DEF row, r
<1> QED
  BY <1>1, <1>2, <1>3, <1>5, <1>7, <1>8, <1>9, RowInv

LEMMA ReorderKeeps ==
    ASSUME Inv, reorder_interview_rounds
    PROVE  Inv'
<1> DEFINE all == {r \in Rounds : Live(r)}
<1>1. PICK place \in [all -> 1..Cardinality(all)] :
        /\ \A r, q \in all : place[r] = place[q] => r = q
        /\ round' = [r \in Rounds |-> IF r \in all THEN Moved(round[r], place[r]) ELSE None]
  BY DEF reorder_interview_rounds
<1>2. UNCHANGED <<schedules, message, lock, opened, req>>
  BY DEF reorder_interview_rounds
<1>3. ASSUME NEW r \in all
      PROVE  /\ round'[r] \in RoundRow /\ round'[r] # None /\ round'[r].seq = place[r]
             /\ round'[r].key = round[r].key /\ round'[r].status = round[r].status
             /\ round'[r].current = round[r].current
             /\ round'[r].confirmed = round[r].confirmed
  <2>1. r \in Rounds /\ round[r] \in RoundRow /\ round'[r] = Moved(round[r], place[r])
    BY <1>1, Rows DEF Inv
  <2>2. place[r] \in Nat \ {0}
    <3>1. place[r] \in 1..Cardinality(all)
      BY <1>1
    <3>2. Cardinality(all) \in Nat
      BY RoundsAssumption, FS_Subset, FS_CardinalityType
    <3> QED
      BY <3>1, <3>2
  <2>3. \A n \in Nat \ {0} :
          /\ Moved(round[r], n) \in RoundRow /\ Moved(round[r], n).seq = n
          /\ Moved(round[r], n).key = round[r].key
          /\ Moved(round[r], n).status = round[r].status
          /\ Moved(round[r], n).current = round[r].current
          /\ Moved(round[r], n).confirmed = round[r].confirmed
    BY <2>1, MovedColumns
  <2> QED
    BY <2>1, <2>2, <2>3, NoneIsNoRow
<1>4. \A r \in Rounds : Live(r)' <=> r \in all
  BY <1>1, <1>3 DEF Live
<1>5. Types'
  <2>1. round' \in [Rounds -> RoundRow \cup {None}]
    BY <1>1, <1>3
  <2> QED
    BY <1>2, <2>1 DEF Inv, Types
<1>6. Locks' /\ Calendars'
  BY <1>2 DEF Inv, Locks, Calendars, Running, Idle
<1>7. Checked'
  <2> SUFFICES ASSUME NEW c \in Clients, ~Idle(c)' PROVE StillChecked(req[c])'
    BY DEF Checked
  <2>1. ~Idle(c) /\ StillChecked(req[c]) /\ req'[c] = req[c] /\ req[c] \in Handler
    BY <1>2 DEF Inv, Checked, Idle, Types
  <2>2. req[c].op \in Booking \cup {"end"} => req[c].round \in all
    BY <2>1, HandlerColumns DEF StillChecked
  <2> QED
    BY <1>2, <1>3, <1>4, <2>1, <2>2 DEF StillChecked, Booking
<1>8. Shapes'
  BY <1>2, <1>3, <1>4 DEF Inv, Shapes, Shape
<1>9. OpenMessages'
  <2> SUFFICES ASSUME NEW m \in Messages, message'[m] \notin {"none", "VOIDED"}
               PROVE  /\ Live(m[1])'
                      /\ m[2] = round'[m[1]].current
                      /\ m[3] = "cancellation" =>
                            round'[m[1]].status \in {"CANCELLED", "ENDED_ABNORMALLY"}
    BY DEF OpenMessages
  <2>1. m[1] \in all
    BY <1>2 DEF Inv, OpenMessages, Messages
  <2> QED
    BY <1>2, <1>3, <1>4, <2>1 DEF Inv, OpenMessages
<1>10. RoundsDistinct'
  BY <1>1, <1>3, <1>4 DEF Inv, RoundsDistinct
<1> QED
  BY <1>5, <1>6, <1>7, <1>8, <1>9, <1>10 DEF Inv

LEMMA InvitationKeeps ==
    ASSUME Inv,
           \/ \E r \in Rounds, event \in Events, missing \in BOOLEAN :
                 generate_invitations(r, event, missing)
           \/ \E m \in Messages : update_invitation(m) \/ record_sent(m)
    PROVE  Inv'
<1>1. \A p \in Recipients, missing \in BOOLEAN :
         _resolve_status(p, missing) \in {"DRAFT", "READY"}
  BY DEF _resolve_status
<1>2. ASSUME NEW r \in Rounds, NEW event \in Events, NEW missing \in BOOLEAN,
             generate_invitations(r, event, missing)
      PROVE  Inv'
  <2>1. \A m \in Messages : m[4] \in Recipients
    BY DEF Messages
  <2>2. message' \in [Messages -> MessageStatuses \cup {"none"}]
    BY <1>1, <1>2, <2>1 DEF generate_invitations, Inv, Types, MessageStatuses
  <2>3. /\ Live(r) /\ UNCHANGED <<round, schedules, lock, opened, req>>
        /\ event = "cancellation" => round[r].status = "CANCELLED"
    BY <1>2 DEF generate_invitations, get_round_for_update, _assert_event_allowed
  <2>4. \A m \in Messages : message'[m] # message[m] =>
          m[1] = r /\ m[2] = round[r].current /\ m[3] = event
    BY <1>2 DEF generate_invitations
  <2> QED
    BY <2>2, <2>3, <2>4, MessageInv
<1>3. ASSUME NEW m \in Messages, update_invitation(m) \/ record_sent(m)
      PROVE  Inv'
  <2>1. m[4] \in Recipients
    BY DEF Messages
  <2>2. /\ UNCHANGED <<round, schedules, lock, opened, req>>
        /\ message[m] \notin {"none", "VOIDED"}
        /\ \E s \in MessageStatuses : message' = [message EXCEPT ![m] = s]
    BY <1>1, <1>3, <2>1 DEF update_invitation, record_sent, Editable, MessageStatuses
  <2>3. message' \in [Messages -> MessageStatuses \cup {"none"}]
    BY <2>2 DEF Inv, Types
  <2>4. \A k \in Messages : message'[k] \notin {"none", "VOIDED"} =>
          message[k] \notin {"none", "VOIDED"}
    BY <2>2 DEF Inv, Types
  <2> QED
    BY <2>2, <2>3, <2>4, MessageInv
<1> QED
  BY <1>2, <1>3

\* The client goes away: nothing but its own request and lock.
LEMMA AbandonKeeps ==
    ASSUME Inv, NEW c \in Clients, Abandon(c)
    PROVE  Inv'
<1>1. /\ lock' \in [Rounds -> Clients \cup {None}] /\ opened' \in 0..MaxRequests
      /\ req' \in [Clients -> Handler \cup {None}] /\ Locks'
  BY EndKeeps DEF Abandon, Inv
<1>2. UNCHANGED <<round, schedules, message>>
  BY DEF Abandon
<1>3. \A d \in Clients : ~Idle(d)' => ~Idle(d) /\ req'[d] = req[d]
  BY DEF Abandon, End, Idle, Inv, Types
<1>4. Checked' /\ Calendars'
  BY <1>2, <1>3 DEF Inv, Checked, Calendars, StillChecked, FreeRequest, Live
<1>5. Types' /\ Shapes' /\ OpenMessages' /\ RoundsDistinct'
  BY <1>1, <1>2 DEF Inv, Types, Shapes, OpenMessages, RoundsDistinct, Live
<1> QED
  BY <1>1, <1>4, <1>5 DEF Inv
-----------------------------------------------------------------------------
(* The theorems. *)

LEMMA InitInv == Init => Inv
<1> SUFFICES ASSUME Init PROVE Inv
  OBVIOUS
<1>1. Types
  BY BoundsAssumption DEF Init, Types
<1>2. \A r \in Rounds : ~Live(r) /\ Len(schedules[r]) = 0 /\ lock[r] = None
  BY DEF Init, Live
<1>3. \A c \in Clients : Idle(c)
  BY DEF Init, Idle
<1>4. Locks /\ Checked /\ Calendars
  BY <1>2, <1>3 DEF Locks, Checked, Calendars, Running
<1>5. Shapes
  BY <1>2, BoundsAssumption DEF Shapes
<1>6. OpenMessages /\ RoundsDistinct
  BY <1>2 DEF Init, OpenMessages, RoundsDistinct
<1> QED
  BY <1>1, <1>4, <1>5, <1>6 DEF Inv

LEMMA NextInv ==
    ASSUME Inv, [Next]_vars
    PROVE  Inv'
<1>1. ASSUME NEW c \in Clients, ClientStep(c) PROVE Inv'
  BY <1>1, CreateBegins, BookingBegins, EndBegins, CommitCreateKeeps, CommitScheduleKeeps,
     CommitRescheduleKeeps, CommitEndKeeps, AbandonKeeps DEF ClientStep
<1>2. ASSUME NEW r \in Rounds, RoundStep(r) PROVE Inv'
  <2>1. CASE start_interview_round(r)
    BY <2>1, StatusKeeps DEF start_interview_round
  <2>2. CASE finish_interview_round(r)
    BY <2>2, StatusKeeps DEF finish_interview_round
  <2>3. CASE CompleteRound(r)
    BY <2>3, StatusKeeps DEF CompleteRound
  <2> QED
    BY <1>2, <2>1, <2>2, <2>3, CancelKeeps, ConfirmKeeps, InvitationKeeps DEF RoundStep
<1>3. CASE UNCHANGED vars
  BY <1>3 DEF vars, Inv, Types, Locks, Checked, Shapes, OpenMessages, Calendars, RoundsDistinct,
              Live, Idle, Running, StillChecked
<1> QED
  BY <1>1, <1>2, <1>3, ReorderKeeps, InvitationKeeps DEF Next

\* The invariant holds in every state that requests and mail workers can reach.
THEOREM Invariance == Spec => []Inv
<1>1. Init => Inv
  BY InitInv
<1>2. Inv /\ [Next]_vars => Inv'
  BY NextInv
<1> QED
  BY <1>1, <1>2, PTL DEF Spec

\* Every row, message and open request is one the code can hold, and a locked round has a
\* request that locked it.
THEOREM TypeCorrect == Spec => []TypeOK
<1>1. Inv => TypeOK
  <2> SUFFICES ASSUME Inv PROVE TypeOK
    OBVIOUS
  <2>1. \A r \in Rounds : /\ Len(schedules[r]) <= MaxSchedules
                          /\ \A v \in 1..Len(schedules[r]) : schedules[r][v] \in ScheduleRow
    BY Rows DEF Inv, Shapes
  <2>2. \A r \in Rounds : lock[r] # None =>
           \E op \in {"schedule", "reschedule"} : Running(lock[r], op) /\ req[lock[r]].round = r
    BY DEF Inv, Locks, Booking
  <2> QED
    BY <2>1, <2>2 DEF Inv, Types, TypeOK
<1> QED
  BY <1>1, Invariance, PTL

\* Rounds of a candidate never share a sequence number or a create key, however creates,
\* retries and reorders are interleaved.
THEOREM DistinctRounds == Spec => []RoundsDistinct
<1>1. Inv => RoundsDistinct
  BY DEF Inv
<1> QED
  BY <1>1, Invariance, PTL

\* A round that is to be held has exactly one active schedule, the current one, and a
\* confirmation is of that one.
THEOREM OneActiveSchedule == Spec => []ScheduleMatchesStatus
<1>1. Inv => ScheduleMatchesStatus
  BY ActiveIsCurrent DEF Inv, Shapes, Shape, ScheduleMatchesStatus
<1> QED
  BY <1>1, Invariance, PTL

\* An open invitation is about the current schedule, and a cancellation about a round that
\* was cancelled.
THEOREM CurrentInvitations == Spec => []InvitationsAreCurrent
<1>1. Inv => InvitationsAreCurrent
  BY DEF Inv, OpenMessages, InvitationsAreCurrent
<1> QED
  BY <1>1, Invariance, PTL

\* Two overlapping bookings of the candidate never saw each other.
THEOREM OverlapsNeverSeen == Spec => []OverlapOnlyInFlight
<1>1. Inv => OverlapOnlyInFlight
  <2> SUFFICES ASSUME Inv, NEW a \in Bookings, NEW b \in Bookings, a[1] # b[1],
                      SlotOf(a) = SlotOf(b)
               PROVE  a \notin schedules[b[1]][b[2]].seen
    BY DEF OverlapOnlyInFlight
  <2>1. b[1] \in Rounds /\ b[2] \in 1..Len(schedules[b[1]])
    BY DEF Bookings, active
  <2>2. Free(schedules, schedules[b[1]][b[2]].seen, SlotOf(b), b[1])
    BY <2>1 DEF Inv, Calendars, SlotOf
  <2> QED
    BY <2>2 DEF Free, SlotOf
<1> QED
  BY <1>1, Invariance, PTL

\* A round that is over stays over and in its place; only an abnormal end that had read it
\* in progress still marks it.
THEOREM TerminalRounds == Spec => TerminalForGood
<1> DEFINE Kept(r) == /\ round'[r].status \in {round[r].status, "ENDED_ABNORMALLY"}
                      /\ round'[r].seq = round[r].seq
                      /\ round'[r] # round[r] =>
                            \E c \in Clients : Running(c, "end") /\ req[c].round = r
<1>1. ASSUME Inv, Next, NEW r \in Rounds, Live(r), round[r].status \in Terminal
      PROVE  Kept(r)
  <2>0. /\ \A a, t : t \in next_status(round[r].status, a) => FALSE
        /\ round \in [Rounds -> RoundRow \cup {None}] /\ round[r] \in RoundRow
        /\ round[r].status \notin {"DRAFT", "SCHEDULED", "CONFIRMED"}
    BY <1>1, NextStatus, Rows DEF Inv, Types, Terminal
  <2>1. ASSUME NEW c \in Clients, CommitCreate(c) PROVE round'[r] = round[r]
    BY <1>1, <2>0, <2>1 DEF CommitCreate
  <2>2. ASSUME NEW c \in Clients, CommitSchedule(c) PROVE round'[r] = round[r]
    <3>1. round[req[c].round].status = "DRAFT" /\ req[c].round # r
      BY <1>1, <2>2, Holder DEF CommitSchedule, Booking, Terminal
    <3> QED
      BY <2>0, <2>2, <3>1 DEF CommitSchedule
  <2>3. ASSUME NEW c \in Clients, CommitReschedule(c) PROVE round'[r] = round[r]
    <3>1. round[req[c].round].status \in {"SCHEDULED", "CONFIRMED"} /\ req[c].round # r
      BY <1>1, <2>3, Holder DEF CommitReschedule, Booking, Terminal
    <3> QED
      BY <2>0, <2>3, <3>1 DEF CommitReschedule
  <2>4. ASSUME NEW c \in Clients, CommitEnd(c) PROVE Kept(r)
    <3>1. CASE req[c].round = r
      <4>1. round'[r] = RoundStatus(round[r], "ENDED_ABNORMALLY") /\ Running(c, "end")
        BY <2>0, <2>4, <3>1 DEF CommitEnd
      <4>2. round'[r].status = "ENDED_ABNORMALLY" /\ round'[r].seq = round[r].seq
        BY <2>0, <4>1, RowColumns DEF Statuses, Terminal
      <4> QED
        BY <3>1, <4>1, <4>2
    <3>2. CASE req[c].round # r
      BY <2>0, <2>4, <3>2 DEF CommitEnd
    <3> QED
      BY <3>1, <3>2
  <2>5. ASSUME NEW c \in Clients, ClientStep(c) PROVE Kept(r)
    <3>1. CASE \/ \E seq \in Places \cup {next_sequence_no}, slot \in Slots \cup {None},
                     k \in Keys : create_interview_round(c, seq, slot, k)
               \/ \E q \in Rounds, slot \in Slots :
                     schedule_interview_round(c, q, slot) \/ reschedule_interview_round(c, q, slot)
               \/ \E q \in Rounds : end_interview_abnormally(c, q)
               \/ Abandon(c)
      BY <3>1 DEF create_interview_round, schedule_interview_round, reschedule_interview_round,
                  LockAndCheck, end_interview_abnormally, Abandon
    <3> HIDE DEF Kept
    <3>2. round'[r] = round[r] => Kept(r)
      BY DEF Kept
    <3> QED
      BY <2>1, <2>2, <2>3, <2>4, <2>5, <3>1, <3>2 DEF ClientStep
  <2>6. ASSUME NEW q \in Rounds, RoundStep(q) PROVE round'[r] = round[r]
    BY <1>1, <2>0, <2>6 DEF RoundStep, start_interview_round, finish_interview_round, CompleteRound,
       cancel_interview_round, confirm_invitation, generate_invitations, _status_action
  <2>7. ASSUME reorder_interview_rounds PROVE Kept(r)
    <3> DEFINE all == {q \in Rounds : Live(q)}
    <3>1. PICK place \in [all -> 1..Cardinality(all)] :
            /\ \A q \in all : round[q].seq # place[q] =>
                  round[q].status \in {"DRAFT", "SCHEDULED", "CONFIRMED"}
            /\ round' = [q \in Rounds |-> IF q \in all THEN Moved(round[q], place[q]) ELSE None]
      BY <2>7 DEF reorder_interview_rounds
    <3>2. r \in all /\ place[r] = round[r].seq
      BY <1>1, <2>0, <3>1
    <3>3. round'[r] = [round[r] EXCEPT !.seq = round[r].seq]
      BY <3>1, <3>2 DEF Moved
    <3>4. round'[r] = round[r]
      BY <2>0, <3>3 DEF RoundRow
    <3> QED
      BY <3>4
  <2>8. ASSUME NEW m \in Messages, update_invitation(m) \/ record_sent(m)
        PROVE  round'[r] = round[r]
    BY <2>8 DEF update_invitation, record_sent
  <2> QED
    BY <1>1, <2>5, <2>6, <2>7, <2>8 DEF Next
<1>2. Inv /\ [Next]_vars => [\A r \in Rounds : Live(r) /\ round[r].status \in Terminal => Kept(r)]_vars
  BY <1>1
<1> QED
  BY <1>2, Invariance, PTL DEF Spec, TerminalForGood
=============================================================================
