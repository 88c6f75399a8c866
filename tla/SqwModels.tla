------------------------------ MODULE SqwModels ------------------------------
(***************************************************************************)
(* The built-in S(Q,w) models (tools/monteconvo/sqw.cpp, sqwbase.cpp; the  *)
(* parameters of sessions in sqwfactory.cpp).  A model is constructed from *)
(* a file, its variables are set, and it is copied: the fit evaluates      *)
(* copies (SqwFuncModel::copy).  What it evaluates, at any (Q, E), is      *)
(* given by its data and variables.  Three kinds of models keep what they  *)
(* evaluate in a k-d tree, and the copies of a model share its tree.       *)
(*                                                                         *)
(* A variable here stands for those of a model that are treated alike:     *)
(* "grid" for num_qs, num_arc, arc_max, amplitudes and frequencies, "TA"   *)
(* for the transverse vectors, "columns" for those of the table, "line"    *)
(* for widths, S0, incoherent scattering, temperature and offset.  A       *)
(* vector stands for its direction where it is normalised.                 *)
(***************************************************************************)
EXTENDS Naturals, FiniteSets

CONSTANTS
  Models,    \* model objects
  Trees,     \* k-d trees
  Values,    \* values of variables
  Default,   \* a variable's value in a new object
  Missing,   \* a vector that has not been given, or has no components
  MaxCalls   \* bound: number of calls

NoTree == "none"

\* The models never own all of the trees: a new one is a new object.
ASSUME ModelsAssumption ==
  /\ Default \in Values /\ Missing \notin Values
  /\ \A f \in [Models -> Trees \union {NoTree}] :
       \E t \in Trees : \A o \in Models : f[o] # t

Kinds ==
  {"elastic", "kdtree", "table1d", "phonon", "phonon_single", "magnon"}

\* The variables of each kind.
TableVars  == {"columns", "G"}
PhononVars == {"grid", "G", "TA", "line"}
SingleVars == {"G", "amp", "line"}
MagnonVars == {"G", "disp", "line"}

VarNames(k) ==
  CASE k \in {"elastic", "kdtree"} -> {}
    [] k = "table1d"               -> TableVars
    [] k = "phonon"                -> PhononVars
    [] k = "phonon_single"         -> SingleVars
    [] k = "magnon"                -> MagnonVars

\* The kinds whose files have data besides variables.
ReadsData(k) == k \in {"elastic", "kdtree", "table1d"}
HasTree(k) == k \in {"kdtree", "table1d", "phonon"}
Vectors(k) == (VarNames(k) \ (IF k = "table1d" THEN {"G"} ELSE {}))
                \intersect {"G", "TA"}

ValuesOf(k, x) == IF x \in Vectors(k) THEN Values \union {Missing} ELSE Values

\* The variables a file gives: that of a table is read for its data only.
\* Bound: a file leaves out at most one variable or gives none, and not more
\* than one has another value than a new object's; a list sets one variable,
\* or a vector and a line.
Given(k) ==
  IF ReadsData(k) THEN {<<>>} ELSE
  {f \in UNION {[S -> Values] : S \in {T \in SUBSET VarNames(k) :
                        T = {} \/ Cardinality(VarNames(k) \ T) < 2}} :
     Cardinality({x \in DOMAIN f : f[x] # Default}) < 2}
Lists(k) ==
  UNION {{l \in [S -> Values \union {Missing}] :
            \A x \in S : l[x] \in ValuesOf(k, x)} :
           S \in {T \in SUBSET VarNames(k) :
                   Cardinality(T) = 1 \/ T = {"G", "line"}}}

VARIABLES
  obj,      \* the objects: kind, m_bOk, the file's data, members, tree, m_vecFit
  heap,     \* what the trees were built from
  wanted,   \* history: the variables each object should have
  derived,  \* history: the object is a copy
  calls     \* number of calls so far

mdvars == <<obj, heap, wanted, derived, calls>>

NoModel == [kind |-> "none"]
NoData == "none"
EmptyTree == [data |-> NoData, vars |-> <<>>]
Alive(o) == obj[o] # NoModel

Over(l, f) == [x \in DOMAIN f |-> IF x \in DOMAIN l THEN l[x] ELSE f[x]]

Unused == {t \in Trees : \A o \in Models : Alive(o) => obj[o].tree # t}

Calls == calls < MaxCalls /\ calls' = calls + 1

-----------------------------------------------------------------------------
(* The operations of the models.                                           *)

\* A phonon model without all of its vectors is an example.
Examples(k, f) ==
  IF k = "phonon" /\ \E x \in Vectors(k) : f[x] = Missing
    THEN [f EXCEPT !["G"] = Default, !["TA"] = Default]
    ELSE f

\* The one-branch models: "just use 100 if nothing else is defined".
SingleCompleted(f) ==
  IF f["G"] = Missing THEN [f EXCEPT !["G"] = Default] ELSE f
MagnonCompleted(f) ==
  IF f["G"] = Missing THEN [f EXCEPT !["G"] = Default] ELSE f

\* The constructors' members: the vectors have no components.
Members(k) ==
  [x \in VarNames(k) |-> IF x \in Vectors(k) THEN Missing ELSE Default]

\* The members when a file has been read.
Completed(k, f) ==
  CASE k = "phonon"        -> Examples(k, f)
    [] k = "phonon_single" -> SingleCompleted(f)
    [] k = "magnon"        -> MagnonCompleted(f)
    [] OTHER               -> f

\* What the trees are built from.
Kept(m, S) == [data |-> m.data, vars |-> [x \in S |-> m.mem[x]]]
KdTree(m)     == Kept(m, {})
TableTree(m)  == Kept(m, {"columns"})
PhononTree(m) == Kept(m, {"grid", "G", "TA"})

Content(m) ==
  CASE m.kind = "kdtree"  -> KdTree(m)
    [] m.kind = "table1d" -> TableTree(m)
    [] m.kind = "phonon"  -> PhononTree(m)

\* Trees that no object owns are gone.
Loaded(t, m) ==
  [u \in Trees |-> IF u = t THEN Content(m)
                   ELSE IF u \in Unused THEN EmptyTree ELSE heap[u]]

\* Mutant: the tree is loaded anew where it is.
CreateInPlace(o, m) ==
  \E t \in Trees :
    /\ IF Alive(o) THEN t = obj[o].tree ELSE t \in Unused
    /\ obj' = [obj EXCEPT ![o] = [m EXCEPT !.tree = t]]
    /\ heap' = Loaded(t, m)

\* create(), CreateKd(): the object o becomes m with a new tree, whichever.
Create(o, m) ==
  LET t == CHOOSE u \in Unused : TRUE
  IN  /\ obj' = [obj EXCEPT ![o] = [m EXCEPT !.tree = t]]
      /\ heap' = Loaded(t, m)

\* The constructors, of a file that gives the data d, if it can be read, and
\* some of the variables.
Construct(o, k, d, given) ==
  /\ Calls /\ ~Alive(o)
  /\ LET m == [kind |-> k,
               ok   |-> ReadsData(k) => d # NoData,
               data |-> d,
               mem  |-> Completed(k, Over(given, Members(k))),
               tree |-> NoTree,
               fit  |-> {}]
     IN  /\ IF HasTree(k) /\ m.ok
              THEN Create(o, m)
              ELSE /\ obj' = [obj EXCEPT ![o] = m]
                   /\ UNCHANGED heap
         /\ wanted' = [wanted EXCEPT ![o] = m.mem]
         /\ derived' = [derived EXCEPT ![o] = FALSE]

\* SetVars() of the list l; other names are ignored.
WithVars(m, l) == [m EXCEPT !.mem = Over(l, @)]

\* Setting widths, S0, T or the incoherent part keeps a phonon's tree.
PhononRebuilds(l) == DOMAIN l \ {"line"} # {}
TableRebuilds(m, l) == m.ok /\ DOMAIN l # {}

Rebuilds(m, l) ==
  \/ m.kind = "phonon" /\ PhononRebuilds(l)
  \/ m.kind = "table1d" /\ TableRebuilds(m, l)

SetVarsAndFit(o, l, fit) ==
  LET m == [WithVars(obj[o], l) EXCEPT !.fit = fit]
  IN  IF Rebuilds(m, l)
      THEN Create(o, [m EXCEPT !.mem = Examples(m.kind, @)])
      ELSE obj' = [obj EXCEPT ![o] = m] /\ UNCHANGED heap

SetVars(o, l) == SetVarsAndFit(o, l, obj[o].fit)

Asked(o, l) ==
  wanted' = [wanted EXCEPT ![o] = Examples(obj[o].kind, Over(l, @))]

\* A fit sets variables.
Set(o, l) ==
  /\ Calls /\ Alive(o) /\ l \in Lists(obj[o].kind)
  /\ SetVars(o, l) /\ Asked(o, l)
  /\ UNCHANGED derived

\* SetVarIfAvail(), of a name that may be another model's.
SetVarIfAvail(o, x, v) ==
  /\ Calls /\ Alive(o)
  /\ IF x \in VarNames(obj[o].kind)
       THEN /\ v \in ValuesOf(obj[o].kind, x)
            /\ SetVars(o, [y \in {x} |-> v]) /\ Asked(o, [y \in {x} |-> v])
       ELSE UNCHANGED <<obj, heap, wanted>>
  /\ UNCHANGED derived

\* load_sqw_params(), of the parameters that save_sqw_params() has written for
\* the object p: all the variables, and the flags of those that are fitted.
LoadParams(o, p) ==
  /\ Calls /\ Alive(o) /\ Alive(p) /\ obj[o].kind = obj[p].kind
  /\ SetVarsAndFit(o, obj[p].mem, obj[p].fit) /\ Asked(o, obj[p].mem)
  /\ UNCHANGED derived

\* The parameter dialog: the selected variables are set, and those of them that
\* are marked are from now on the only ones to be fitted.
SaveSqwParams(o, l, marked) ==
  /\ Calls /\ Alive(o) /\ l \in Lists(obj[o].kind) /\ DOMAIN l # {}
  /\ marked \subseteq DOMAIN l
  /\ SetVarsAndFit(o, l, marked) /\ Asked(o, l)
  /\ UNCHANGED derived

\* shallow_copy(): that of SqwTable1d copies the table and the tree only.
Copied(m) ==
  IF m.kind = "table1d" THEN [m EXCEPT !.mem = Members(m.kind)] ELSE m

ShallowCopy(o, p) ==
  /\ Calls /\ Alive(o) /\ ~Alive(p)
  /\ obj' = [obj EXCEPT ![p] = Copied(obj[o])]
  /\ wanted' = [wanted EXCEPT ![p] = wanted[o]]
  /\ derived' = [derived EXCEPT ![p] = TRUE]
  /\ UNCHANGED heap

\* The last reference to an object is dropped.
Delete(o) ==
  /\ Calls /\ Alive(o)
  /\ obj' = [obj EXCEPT ![o] = NoModel]
  /\ UNCHANGED <<heap, wanted, derived>>

\* operator(): the data, and the values of the variables, that the result is
\* calculated from, at a place near the model's nodes.  A tree's values are
\* read from it, the others from the object.
FromMembers(m) == [data |-> m.data, vars |-> m.mem]
FromTree(m, S) ==
  LET built == heap[m.tree].vars
  IN  [data |-> heap[m.tree].data,
       vars |-> [x \in DOMAIN built \union S |->
                   IF x \in DOMAIN built THEN built[x] ELSE m.mem[x]]]

ElasticResult(m) == FromMembers(m)
KdResult(m)      == FromTree(m, {})
TableResult(m)   == FromTree(m, {"G"})
PhononResult(m)  == FromTree(m, {"line"})
SingleResult(m)  == FromMembers(m)
MagnonResult(m)  == FromMembers(m)

Evaluated(o) ==
  LET m == obj[o]
  IN  CASE m.kind = "elastic"       -> ElasticResult(m)
        [] m.kind = "kdtree"        -> KdResult(m)
        [] m.kind = "table1d"       -> TableResult(m)
        [] m.kind = "phonon"        -> PhononResult(m)
        [] m.kind = "phonon_single" -> SingleResult(m)
        [] m.kind = "magnon"        -> MagnonResult(m)

MdInit ==
  /\ obj = [o \in Models |-> NoModel]
  /\ heap = [t \in Trees |-> EmptyTree]
  /\ wanted = [o \in Models |-> <<>>]
  /\ derived = [o \in Models |-> FALSE]
  /\ calls = 0

MdNext ==
  \/ \E o \in Models, k \in Kinds :
     \E d \in IF ReadsData(k) THEN {NoData, "file"} ELSE {NoData},
        given \in Given(k) : Construct(o, k, d, given)
  \/ \E o \in Models : Alive(o) /\ \E l \in Lists(obj[o].kind) :
       Set(o, l) \/ \E marked \in {{}, {"G"}} : SaveSqwParams(o, l, marked)
  \/ \E o \in Models, x \in {"G", "grid", "line", "columns"},
        v \in Values \union {Missing} : SetVarIfAvail(o, x, v)
  \/ \E o, p \in Models : LoadParams(o, p) \/ ShallowCopy(o, p)
  \/ \E o \in Models : Delete(o)

MdSpec == MdInit /\ [][MdNext]_mdvars

-----------------------------------------------------------------------------
\* The object can be evaluated: operator() reads three components of G.
Evaluable(o) ==
  /\ Alive(o) /\ obj[o].ok
  /\ obj[o].kind \in {"phonon_single", "magnon"} => obj[o].mem["G"] # Missing

\* It evaluates, and shows, the variables that it should have.
EvaluatesAsked(o) == Evaluated(o) = [data |-> obj[o].data, vars |-> wanted[o]]
AsAsked(o) == obj[o].mem = wanted[o] /\ EvaluatesAsked(o)

(***************************************************************************)
(* Every model object evaluates, and shows, the variables that its file,   *)
(* the calls of SetVars on it and, for a copy, on its original before it   *)
(* was copied, have given: a tree is never older than the variables it is  *)
(* built from, and rebuilding it does not disturb the other objects that   *)
(* share it.  Copies of SqwTable1d are left out: see FixedVariables.       *)
(***************************************************************************)
ModelsTrue ==
  \A o \in Models :
    Evaluable(o) /\ ~(derived[o] /\ obj[o].kind = "table1d") => AsAsked(o)

(***************************************************************************)
(* A job may "fix some variables in the S(q,w) model" (doc/fit.html): they *)
(* are set in the job's object, and the copies that are fitted are         *)
(* evaluated with them.                                                    *)
(***************************************************************************)
FixedVariables == \A o \in Models : Evaluable(o) => EvaluatesAsked(o)

-----------------------------------------------------------------------------
(* The inductive invariant of the proofs.                                  *)

\* The members of a model of a kind; a phonon has all of its vectors.
MemberValues(k) ==
  {f \in [VarNames(k) -> Values \union {Missing}] :
     k = "phonon" => f["G"] # Missing /\ f["TA"] # Missing}

ModelObjects ==
  UNION {[kind : {k}, ok : BOOLEAN, data : {NoData, "file"}, mem : MemberValues(k),
          tree : Trees \union {NoTree}, fit : SUBSET VarNames(k)] : k \in Kinds}

MdTypeOK ==
  /\ obj \in [Models -> ModelObjects \union {NoModel}]
  /\ DOMAIN heap = Trees
  /\ DOMAIN wanted = Models
  /\ derived \in [Models -> BOOLEAN]

\* The object's table is not the one that its columns tell.
Stale(o) == derived[o] /\ obj[o].kind = "table1d"

\* Members are those that were asked for.
MembersInv ==
  \A o \in Models : Alive(o) /\ ~Stale(o) => obj[o].mem = wanted[o]

\* A tree is built from the present members of every object that shares it.
TreesInv ==
  \A o \in Models : Alive(o) /\ obj[o].ok /\ HasTree(obj[o].kind) =>
    /\ obj[o].tree \in Trees
    /\ ~Stale(o) => heap[obj[o].tree] = Content(obj[o])

MdIInv == MdTypeOK /\ MembersInv /\ TreesInv
=============================================================================
