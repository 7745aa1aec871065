------------------------ MODULE MCInterviewEvidence ------------------------
(* InterviewEvidence for TLC: rounds, clients and segments are interchangeable. *)
EXTENDS InterviewEvidence

Symmetry == Permutations(Rounds) \cup Permutations(Clients) \cup Permutations(Segments)
=============================================================================
