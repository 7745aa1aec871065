----------------------------- MODULE MCResumes ------------------------------
(* Resumes for TLC: jobs, clients and contents are interchangeable. *)
EXTENDS Resumes

Symmetry == Permutations(Jobs) \cup Permutations(Clients) \cup Permutations(Contents)
=============================================================================
