--------------------------- MODULE MCApplications ---------------------------
(* Applications for TLC: jobs, applications, clients and tasks are interchangeable. *)
EXTENDS Applications

Symmetry == Permutations(Clients) \cup Permutations(Tasks) \cup Permutations(Apps)
            \cup Permutations(Jobs)
=============================================================================
