---------------------------- MODULE OfferLifecycle ----------------------------
(***************************************************************************)
(* What the offer service promises of an offer, without attempts, messages *)
(* or locks: its text may change only before it is confirmed, the same     *)
(* text is sent again after a failure, and sent and voided are final.      *)
(***************************************************************************)
EXTENDS Integers

CONSTANT Offers

VARIABLES phase, edition

offerVars == <<phase, edition>>

Init ==
    /\ phase = [o \in Offers |-> "none"]
    /\ edition = [o \in Offers |-> 0]

Move(o, from, to) ==
    /\ phase[o] \in from
    /\ phase' = [phase EXCEPT ![o] = to]

Draft(o) ==
    /\ Move(o, {"none", "draft", "ready"}, "draft")
    /\ edition' = [edition EXCEPT ![o] = @ + 1]

MarkReady(o) == Move(o, {"draft"}, "ready") /\ UNCHANGED edition
Send(o)      == Move(o, {"ready", "failed"}, "sending") /\ UNCHANGED edition
Succeed(o)   == Move(o, {"sending"}, "sent") /\ UNCHANGED edition
Fail(o)      == Move(o, {"sending"}, "failed") /\ UNCHANGED edition
Void(o)      == Move(o, {"draft", "ready", "failed"}, "voided") /\ UNCHANGED edition

Next ==
    \E o \in Offers :
        \/ Draft(o) \/ MarkReady(o) \/ Send(o) \/ Succeed(o) \/ Fail(o) \/ Void(o)

Spec == Init /\ [][Next]_offerVars
=============================================================================
