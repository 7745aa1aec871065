---------------------------- MODULE MCInterviews ----------------------------
(* Interviews for TLC: rounds, clients, times and keys are interchangeable. *)
EXTENDS Interviews

Symmetry == Permutations(Rounds) \cup Permutations(Clients) \cup Permutations(Slots)
            \cup Permutations(Keys)
=============================================================================
