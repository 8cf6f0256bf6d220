--------------------------- MODULE MCParallelJobList ---------------------------
(* Two jobs, or a job on each side of a SIGNAL and SYNCHRONIZE; then one job more, *)
(* for the entries that threads still hold of the first submission.                *)
EXTENDS ParallelJobList
ItemsOfEach == [v \in 0 .. MaxVersion - 1 |-> IF v = 0 THEN 4 ELSE 1]
=============================================================================
