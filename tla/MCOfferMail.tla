----------------------------- MODULE MCOfferMail -----------------------------
(* Model values for OfferMail: rows, workers and admins are interchangeable. *)
EXTENDS OfferMail, TLC

CONSTANTS o1, o2, a1, a2, a3, a4, w1, w2, admin

Symmetry == Permutations(Offers) \cup Permutations(Attempts) \cup Permutations(Workers)
=============================================================================
