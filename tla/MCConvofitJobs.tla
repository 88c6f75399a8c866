--------------------------- MODULE MCConvofitJobs ----------------------------
(* Instances of ConvofitJobs for TLC: where the job files are.              *)
EXTENDS ConvofitJobs
CONSTANTS d1, d2

\* A directory, another one, the first one again, and one that does not exist.
TwoDirs ==
  [j \in Jobs |-> IF j = 4 THEN Nowhere ELSE IF j % 2 = 1 THEN d1 ELSE d2]
=============================================================================
