------------------------------ MODULE MCAiTasks ------------------------------
(* Model values for AiTasks: two workers are interchangeable. *)
EXTENDS AiTasks, TLC

CONSTANTS score, interview, w1, w2, w3, output

WorkerSymmetry == Permutations(Workers)
=============================================================================
