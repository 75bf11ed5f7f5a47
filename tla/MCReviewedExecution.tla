------------------------ MODULE MCReviewedExecution -------------------------
(* Instances of ReviewedExecution for TLC. *)
EXTENDS ReviewedExecution, TLC

CONSTANTS e1, t1, t2, r1, r2

\* Every turn runs on one execution: a second one reuses the request id.
MCExecutionOf == [t \in Turns |-> e1]

Symmetry == Permutations(Turns) \cup Permutations(Resumes)
=============================================================================
