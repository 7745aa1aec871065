---------------------------- MODULE TaskLifecycle ----------------------------
(***************************************************************************)
(* What the AI task service promises of a task, with neither queues nor    *)
(* workers: it waits, works, makes at most MaxAttempts provider calls in a *)
(* cycle, ends done or broken or withdrawn, and only a broken task is      *)
(* opened again, by a person, in a new cycle.                              *)
(***************************************************************************)
EXTENDS Integers

CONSTANTS Tasks, MaxAttempts

VARIABLES phase, cycle, calls

lifeVars == <<phase, cycle, calls>>

Init ==
    /\ phase = [t \in Tasks |-> "new"]
    /\ cycle = [t \in Tasks |-> 0]
    /\ calls = [t \in Tasks |-> 0]

Move(t, from, to) ==
    /\ phase[t] = from
    /\ phase' = [phase EXCEPT ![t] = to]

Submit(t)   == Move(t, "new", "waiting") /\ UNCHANGED <<cycle, calls>>
Start(t)    == Move(t, "waiting", "working") /\ UNCHANGED <<cycle, calls>>
Withdraw(t) == Move(t, "waiting", "withdrawn") /\ UNCHANGED <<cycle, calls>>
Done(t)     == Move(t, "working", "done") /\ UNCHANGED <<cycle, calls>>
Break(t)    == Move(t, "working", "broken") /\ UNCHANGED <<cycle, calls>>

Again(t) ==
    /\ calls[t] < MaxAttempts
    /\ Move(t, "working", "waiting")
    /\ UNCHANGED <<cycle, calls>>

Call(t) ==
    /\ phase[t] = "working"
    /\ calls[t] < MaxAttempts
    /\ calls' = [calls EXCEPT ![t] = @ + 1]
    /\ UNCHANGED <<phase, cycle>>

Reopen(t) ==
    /\ Move(t, "broken", "waiting")
    /\ cycle' = [cycle EXCEPT ![t] = @ + 1]
    /\ calls' = [calls EXCEPT ![t] = 0]

Next ==
    \E t \in Tasks :
        \/ Submit(t) \/ Start(t) \/ Withdraw(t) \/ Done(t) \/ Break(t)
        \/ Again(t) \/ Call(t) \/ Reopen(t)

Spec == Init /\ [][Next]_lifeVars
=============================================================================
