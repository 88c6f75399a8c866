------------------------------- MODULE SqwData -------------------------------
(***************************************************************************)
(* The data of an S(Q,w) model that runs in a sub-process: the model       *)
(* parameters, the requests a client may make, what the model answers and  *)
(* how parameter lists and dispersions travel through the string in shared *)
(* memory (tools/monteconvo/sqw_proc_impl.h, sqw_py.cpp).                  *)
(*                                                                         *)
(* A parameter is its position in the module's dictionary; a parameter     *)
(* list is a function from some of the positions to values.                *)
(***************************************************************************)
EXTENDS Integers, FiniteSets

CONSTANTS
  NPars,      \* number of parameters of the model
  Vals,       \* values (as texts) a parameter can be given
  Default,    \* the value every parameter has in the script
  BadVals,    \* values the interpreter refuses: py::eval throws
  SepVals,    \* values whose text contains a separator of the encoding
  BufCap,     \* number of parameter records that fit into the shared string
  Queries,    \* (Q) and (Q,E) positions at which the model is asked
  BigDisp     \* queries whose dispersion is too long for the shared string

ASSUME DataAssumption ==
  /\ NPars \in Nat /\ BufCap \in Nat
  /\ BadVals \subseteq Vals /\ SepVals \subseteq Vals
  /\ Default \in Vals \ (BadVals \cup SepVals)
  /\ BigDisp \subseteq Queries /\ Queries # {}

Pars == 1 .. NPars

\* A model assigns a value to each parameter; a list covers only some of them.
Models == [Pars -> Vals]
VarLists == UNION {[S -> Vals] : S \in SUBSET Pars}

DefaultModel == [p \in Pars |-> Default]

Restriction(l, S) == [p \in (DOMAIN l) \cap S |-> l[p]]

-----------------------------------------------------------------------------
(* The contents of the shared string.                                      *)

ClearStr == [tag |-> "clear"]
ParStr(l) == [tag |-> "pars", l |-> l]
DispStr(q, m) == [tag |-> "disp", q |-> q, m |-> m]

Strings == {ClearStr} \cup {ParStr(l) : l \in VarLists}
           \cup {DispStr(q, m) : q \in Queries, m \in Models}

(* The values that calls return.                                           *)

NoVal == [tag |-> "none"]
Flag(b) == [tag |-> "flag", b |-> b]
Weight(q, m) == [tag |-> "sqw", q |-> q, m |-> m]
Branches(q, m) == [tag |-> "disp", q |-> q, m |-> m]
NoBranches == [tag |-> "empty"]
Garbage == [tag |-> "garbage"]
VarsVal(l) == [tag |-> "vars", l |-> l]

Values == {NoVal, NoBranches, Garbage} \cup {Flag(b) : b \in BOOLEAN}
          \cup {Weight(q, m) : q \in Queries, m \in Models}
          \cup {Branches(q, m) : q \in Queries, m \in Models}
          \cup {VarsVal(l) : l \in VarLists}

-----------------------------------------------------------------------------
(* The encoding.                                                           *)

\* pars_to_str appends records until the length limit is imminent and then
\* truncates the list.
pars_to_str(l) ==
  LET before(p) == {r \in DOMAIN l : r < p}
  IN  ParStr(Restriction(l, {p \in DOMAIN l : Cardinality(before(p)) < BufCap}))

\* str_to_pars drops the records that do not have exactly three fields; a
\* dispersion has no such record at all.
str_to_pars(s) ==
  IF s.tag = "pars" THEN Restriction(s.l, {p \in DOMAIN s.l : s.l[p] \notin SepVals})
                    ELSE [p \in {} |-> Default]

\* disp_to_str writes nothing but the cleared string if the limit is reached.
disp_to_str(q, m) == IF q \in BigDisp THEN ClearStr ELSE DispStr(q, m)

\* str_to_disp of a cleared string is a pair of empty vectors.
str_to_disp(s) == CASE s.tag = "disp"  -> Branches(s.q, s.m)
                    [] s.tag = "clear" -> NoBranches
                    [] OTHER           -> Garbage

-----------------------------------------------------------------------------
(* Requests, and the model behind them.                                    *)

Req(ty, q, l) == [ty |-> ty, q |-> q, l |-> l]

NoList == [p \in {} |-> Default]
AnyQuery == CHOOSE q \in Queries : TRUE

Requests ==
  {Req(ty, q, NoList) : ty \in {"SQW", "DISP"}, q \in Queries}
  \cup {Req(ty, AnyQuery, NoList) : ty \in {"GET_VARS", "IS_OK"}}
  \cup {Req("SET_VARS", AnyQuery, l) : l \in VarLists}

NoReq == Req("NONE", AnyQuery, NoList)

\* SqwPy::SetVars walks the dictionary in order; the first value that does
\* not evaluate ends the walk and leaves the parameters after it unset.
ModelSetVars(m, l) ==
  LET reached == {p \in DOMAIN l : \A r \in DOMAIN l : r <= p => l[r] \notin BadVals}
  IN  [p \in Pars |-> IF p \in reached THEN l[p] ELSE m[p]]

\* The parameter list that arrives on the other side of the shared string.
Transmit(l) == str_to_pars(pars_to_str(l))

\* The parameters after a request, and what its caller gets back.
Effect(m, r) == IF r.ty = "SET_VARS" THEN ModelSetVars(m, Transmit(r.l)) ELSE m

Answer(m, r) ==
  CASE r.ty = "SQW"      -> Weight(r.q, m)
    [] r.ty = "DISP"     -> str_to_disp(disp_to_str(r.q, m))
    [] r.ty = "GET_VARS" -> VarsVal(Transmit(m))
    [] OTHER             -> Flag(TRUE)
=============================================================================
