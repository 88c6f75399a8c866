------------------------------ MODULE MCSqwProc ------------------------------
(* Instances of SqwProc for TLC. *)
EXTENDS SqwProc, TLC

\* Copies are interchangeable; the owner is not.
Copies == Permutations(Clients \ {Owner})
=============================================================================
