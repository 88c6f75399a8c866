----------------------------- MODULE MCWindows ------------------------------
(***************************************************************************)
(* The parts of the program that run in the GUI thread alone: the values   *)
(* that an instrument brings to the main window, the window's crystal with *)
(* the scan positions and the session files, and the scan viewer.  The     *)
(* parts share no state; part says which of them moves.                    *)
(***************************************************************************)
EXTENDS NetValues, Session, ScanViewer, TLC

VARIABLE part

parts == <<nvvars, sevars, svvars>>

InPart(p, step, others) == part = p /\ step /\ UNCHANGED <<part, others>>

\* The parts that do not move start in one state.
MCInit ==
  /\ part \in {"values", "session", "viewer"}
  /\ NvInit /\ SessionInit /\ SvInit
  /\ part # "values" => sys = "sics"
  /\ path = "scans" /\ (part # "viewer" => \A d \in Dirs : Listed(d) = {})

MCNext ==
  \/ InPart("values", NvNext, <<sevars, svvars>>)
  \/ InPart("session", SessionNext, <<nvvars, svvars>>)
  \/ InPart("viewer", SvNext, <<nvvars, sevars>>)

MCSpec == MCInit /\ [][MCNext]_<<part, parts>>

\* A parameter of one key and one of two: the lattice of SICS has six keys,
\* the rotation of NICOS two (theta and psi0).
MCSources ==
  [s \in Systems |-> [p \in Parameters |-> IF p = "tt" THEN {"stt"} ELSE {"a", "b"}]]

Symmetry == Permutations(Peaks) \union Permutations(CrystalData)
=============================================================================
