----------------------------- MODULE CrystalDlgs -----------------------------
(***************************************************************************)
(* The dialogs for powder lines (dialogs/PowderDlg.cpp) and for a          *)
(* ferromagnet's dispersion (dialogs/DispDlg.cpp).  Both have a lattice, a *)
(* list of space groups that can be filtered, atoms, and a table and a     *)
(* plot that every change calculates again; both are saved and loaded.     *)
(* A handler changes other widgets, whose handlers run inside of it: an    *)
(* action here is all that one event of the user sets off.                 *)
(*                                                                         *)
(* Reflections are numbered by their |Q|; an edit's number is small.  Left *)
(* out: the widgets' precision and layout, the tables' sorting and the     *)
(* window's geometry.                                                      *)
(***************************************************************************)
EXTENDS Integers, Sequences, FiniteSets, SequencesExt

CONSTANTS
  GroupNames,  \* the space groups, in the order of their numbers
  SystemOf,    \* the crystal system of each
  Matching,    \* the groups that each text of the filter matches, in order
  Extinct,     \* the reflections that each group forbids
  Orders,      \* values of the widgets for what is calculated
  Wavelengths, \* ... and of the wavelength
  Reach,       \* an angle exists if reflection * wavelength is no more
  MaxCurves,   \* POWDER_MAX_CURVES
  AtomNames,   \* names of atoms that a user enters or a file has
  Stored,      \* files of another dialog: some keys are missing
  Before,      \* what each dialog saved in an earlier session
  MaxMoves     \* bound: number of things the user does

NotSet == "not set"
NoFilter == ""  \* matches all
Edits6 == {"a", "b", "c", "alpha", "beta", "gamma"}

DlgKinds == {"powder", "disp"}
AllGroups == {GroupNames[i] : i \in DOMAIN GroupNames}
CellOK(cell) == cell = [e \in Edits6 |-> cell[e]]

\* What a dialog can have saved; the powder dialog has no centre.
SavedOK(kind, s) ==
  /\ s = [cell |-> s.cell, order |-> s.order, lam |-> s.lam,
          centre |-> s.centre, group |-> s.group, atoms |-> s.atoms]
  /\ CellOK(s.cell) /\ s.group \in {NotSet} \union AllGroups
  /\ s.centre \in Int /\ s.centre >= -1 /\ s.atoms \in Seq(AtomNames)
  /\ kind = "powder" => s.centre = 0

ASSUME CrystalAssumption ==
  /\ GroupNames \in Seq(AllGroups)
  /\ \A text \in DOMAIN Matching : Matching[text] \in Seq(AllGroups)
  /\ NoFilter \in DOMAIN Matching /\ Matching[NoFilter] = GroupNames
  /\ "H" \in AtomNames
  /\ DOMAIN Before = DlgKinds
  /\ \A kind \in DlgKinds : \A s \in Before[kind] : SavedOK(kind, s)
  /\ \A f \in Stored :
       /\ {"cell", "order", "lam", "centre", "group", "atoms"} = DOMAIN f
       /\ \A cell \in f.cell : CellOK(cell)
       /\ f.centre \subseteq Int /\ f.atoms \subseteq Seq(AtomNames)

VARIABLES
  xd,     \* the dialog
  xdisk,  \* the files; of: history, what the dialog showed when it was saved
  xfile,  \* history: what the file was that the last step loaded, or {}
  moves   \* number of steps

xdvars == <<xd, xdisk, xfile, moves>>

-----------------------------------------------------------------------------
(* Crystal systems.                                                        *)

\* The edits that the user may change: set_crystal_system_edits
Free(sys) ==
  CASE sys = "cubic" -> {"a"}
    [] sys = "monoclinic" -> {"a", "b", "c", "beta"}
    [] sys = "orthorhombic" -> {"a", "b", "c"}
    [] sys \in {"tetragonal", "hexagonal", "trigonal"} -> {"a", "c"}
    [] OTHER -> Edits6

\* The others follow, or have the only value that the system allows.
Restricted(sys, cell) ==
  [e \in Edits6 |->
    IF e \in Free(sys) THEN cell[e]
    ELSE CASE e \in {"b", "c"} -> cell["a"]
           [] e = "gamma" /\ sys \in {"hexagonal", "trigonal"} -> 120
           [] OTHER -> 90]

\* Lengths or angles from which there is no lattice.
Degenerate(cell) == 0 \in {cell[e] : e \in Edits6}

-----------------------------------------------------------------------------
(* What is calculated.                                                     *)

\* GetCurSpaceGroup: the first entry is none.
Group(x) == x.list[x.current]

\* All atoms of the unit cell, with their scattering lengths.
UnitCell(x) ==
  IF Group(x) = NotSet \/ x.atoms = <<>> THEN {} ELSE {<<Group(x), x.atoms>>}

\* Allowed reflections for which there is an angle; one that is NaN is skipped.
Peaks(x) ==
  {h \in 1 .. x.order :
     /\ Group(x) = NotSet \/ h \notin Extinct[Group(x)]
     /\ ~Degenerate(x.cell)
     /\ h * x.lam <= Reach}

\* Peaks of the same angle and structure factor are one line.  With unique
\* peaks it names only the first of them.
PowderLines(x) ==
  [peaks |-> Peaks(x), names |-> IF x.unique THEN "first" ELSE "all",
   cell |-> x.cell, lam |-> x.lam, factors |-> UnitCell(x)]

\* PlotPowderLines: the patterns of all lines, the angles of the first.
PowderPlot(x) ==
  [pattern |-> PowderLines(x),
   angles |->
     {h \in Peaks(x) : Cardinality({g \in Peaks(x) : g < h}) < MaxCurves}]

\* The atom around which neighbours are looked for.
Centre(x) ==
  IF x.centre >= Len(x.atoms) THEN Len(x.atoms) - 1
  ELSE IF x.centre < 0 THEN 0 ELSE x.centre

Neighbours(x) ==
  [cell |-> x.cell, cellAtoms |-> UnitCell(x), centre |-> Centre(x),
   shells |-> x.order]

Wanted(x) ==
  IF x.kind = "powder"
    THEN [table |-> PowderLines(x), plot |-> PowderPlot(x)]
    ELSE [table |-> Neighbours(x), plot |-> <<Neighbours(x), x.lam>>]

\* CalcPeaks: the table and the plots are those of before if it fails.
CalcPeaks(x) ==
  CASE x.dontCalc -> x
    [] ~x.dontCalc /\ Degenerate(x.cell) /\ x.throws ->
         [x EXCEPT !.status = "error", !.stale = TRUE]
    [] OTHER ->
         [x EXCEPT !.shown = Wanted(x), !.status = "ok", !.stale = FALSE]

\* Calc: without atoms, a centre or a group it returns; the status is not
\* touched then.
CalcDisp(x) ==
  CASE x.dontCalc -> x
    [] ~x.dontCalc
         /\ (x.atoms = <<>> \/ Degenerate(x.cell) \/ Group(x) = NotSet) ->
         [x EXCEPT !.stale = TRUE]
    [] OTHER ->
         [x EXCEPT !.shown = Wanted(x), !.status = "ok", !.stale = FALSE]

CalcDlg(x) == IF x.kind = "powder" THEN CalcPeaks(x) ELSE CalcDisp(x)

-----------------------------------------------------------------------------
(* The handlers.                                                           *)

CheckCrystalType(x) ==
  IF x.ignore
    THEN [x EXCEPT !.enabled = Edits6]
    ELSE [x EXCEPT !.enabled = Free(x.system),
                   !.cell = Restricted(x.system, x.cell)]

SpaceGroupChanged(x) ==
  LET sys == IF Group(x) = NotSet THEN NotSet ELSE SystemOf[Group(x)]
  IN  CalcDlg(CheckCrystalType([x EXCEPT !.system = sys]))

\* comboSpaceGroups->setCurrentIndex
SetCurrent(x, i) ==
  IF i = x.current THEN x ELSE SpaceGroupChanged([x EXCEPT !.current = i])

\* comboSpaceGroups->removeItem for the last entry: if it is the current one,
\* the one above it gets current.
RemoveLast(x, n) ==
  LET less == [x EXCEPT !.list = Front(x.list)]
  IN  IF x.current = n
        THEN SpaceGroupChanged([less EXCEPT !.current = n - 1])
        ELSE less

\* The dialog after each of the removals of RepopulateSpaceGroups, of all
\* entries but the first and from the end.
Removals(x) ==
  LET n == Len(x.list)
      after[k \in 0 .. n - 1] ==
        IF k = 0 THEN x ELSE RemoveLast(after[k - 1], n + 1 - k)
  IN  after

\* RepopulateSpaceGroups
Repopulate(x) ==
  [Removals(x)[Len(x.list) - 1] EXCEPT
    !.list = <<NotSet>> \o Matching[x.filter]]

SetFilter(x, text) ==
  IF text = x.filter THEN x ELSE Repopulate([x EXCEPT !.filter = text])

\* A spin box whose value changes: spinLam, spinOrder, spinNN, ...
SetSpin(x, f, v) == IF x[f] = v THEN x ELSE CalcDlg([x EXCEPT ![f] = v])

\* spinCentreIdx: the value stays in the range, which setMaximum changes.
Clamped(x, v) ==
  IF v > x.highest THEN x.highest ELSE IF v < x.lowest THEN x.lowest ELSE v

SetMaximum(x, v) ==
  LET y == [x EXCEPT !.highest = v, !.lowest = IF v < @ THEN v ELSE @]
  IN  SetSpin(y, "centre", Clamped(y, x.centre))

\* ApplyAtoms of both
TakeAtoms(x, atoms) ==
  LET y == [x EXCEPT !.atoms = atoms]
  IN  CalcDlg(IF x.kind = "powder" THEN y ELSE SetMaximum(y, Len(atoms) - 1))

-----------------------------------------------------------------------------
(* Files.                                                                  *)

\* What is saved: not the wish for unique peaks.
SavedOf(x) ==
  [cell |-> x.cell, order |-> x.order, lam |-> x.lam, centre |-> x.centre,
   group |-> Group(x), atoms |-> x.atoms]

\* A file: each key has a value, or none.
FileOf(s) == [key \in DOMAIN s |-> {s[key]}]

\* A key of the file, or what Query returns without it.
Query(key, default) == IF key = {} THEN default ELSE CHOOSE v \in key : TRUE

DefaultCell ==
  [e \in Edits6 |-> IF e \in {"a", "b", "c"} THEN 5 ELSE 90]

\* The first part of Load: edits and spin boxes, while m_bDontCalc is set.
LoadFields(x, f) ==
  LET y == [x EXCEPT !.dontCalc = TRUE, !.cell = Query(f.cell, DefaultCell)]
      z == SetSpin(SetSpin(y, "order", Query(f.order, 5)),
                   "lam", Query(f.lam, 5))
  IN  IF x.kind = "powder" THEN z
      ELSE SetSpin(z, "centre", Clamped(z, Query(f.centre, 0)))

\* The group: its filter is cleared first; a group that is not known is left.
LoadGroup(x, f) ==
  IF f.group = {} THEN x
  ELSE LET y == SetFilter(x, NoFilter)
           at == {i \in DOMAIN y.list : {y.list[i]} = f.group}
       IN  IF at = {} THEN y ELSE SetCurrent(y, CHOOSE i \in at : TRUE)

LoadAtoms(x, f) ==
  LET y == [x EXCEPT !.atoms = Query(f.atoms, <<>>)]
  IN  IF f.atoms # {} /\ x.kind = "disp"
        THEN SetMaximum(y, Len(y.atoms) - 1) ELSE y

\* Mutant: what is loaded is calculated before the atoms are.
LoadXmlEarly(x, f) ==
  LET y == LoadGroup(LoadFields(x, f), f)
  IN  LoadAtoms(CalcDlg([y EXCEPT !.dontCalc = FALSE]), f)

LoadXml(x, f) ==
  LET y == LoadAtoms(LoadGroup(LoadFields(x, f), f), f)
  IN  CalcDlg([y EXCEPT !.dontCalc = FALSE])

-----------------------------------------------------------------------------
(* The dialog is shown with an empty filter and no group.                  *)
NewDlg(kind, ignore, throws) ==
  LET x == [kind |-> kind, ignore |-> ignore, throws |-> throws,
            dontCalc |-> FALSE,
            cell |-> DefaultCell, enabled |-> Edits6, system |-> NotSet,
            filter |-> NoFilter, list |-> <<NotSet>>, current |-> 1,
            order |-> CHOOSE v \in Orders : TRUE, unique |-> FALSE,
            lam |-> CHOOSE v \in Wavelengths : TRUE,
            centre |-> 0, lowest |-> 0, highest |-> 99, atoms |-> <<>>,
            table |-> "closed", ext |-> CHOOSE v \in Wavelengths : TRUE,
            shown |-> {}, status |-> "none", stale |-> TRUE]
  IN  CalcDlg(Repopulate(x))

XdInit ==
  /\ \E kind \in {"powder", "disp"}, ignore \in BOOLEAN, throws \in BOOLEAN :
       /\ kind = "disp" => ~throws
       /\ xd = NewDlg(kind, ignore, throws)
  /\ xdisk = {[file |-> f, of |-> {}] : f \in Stored} \union
             {[file |-> FileOf(s), of |-> {s}] : s \in Before[xd.kind]}
  /\ xfile = {} /\ moves = 0

Does(x) ==
  /\ moves < MaxMoves /\ moves' = moves + 1
  /\ xd' = x /\ xfile' = {} /\ UNCHANGED xdisk

\* A number is typed into one of the edits that are enabled.
EditLattice ==
  \E e \in xd.enabled,
     v \in {xd.cell["a"] + 1, IF xd.cell["alpha"] = 90 THEN 0 ELSE 90} :
    Does(CalcDlg(CheckCrystalType([xd EXCEPT !.cell[e] = v])))

SelectGroup == \E i \in DOMAIN xd.list : Does(SetCurrent(xd, i))

TypeFilter == \E text \in DOMAIN Matching : Does(SetFilter(xd, text))

ChangeSpin ==
  \/ \E v \in Orders : Does(SetSpin(xd, "order", v))
  \/ \E v \in Wavelengths : Does(SetSpin(xd, "lam", v))
  \/ xd.kind = "powder" /\ Does(SetSpin(xd, "unique", ~xd.unique))
  \/ xd.kind = "disp" /\ Does(SetSpin(xd, "centre", Clamped(xd, 1)))

\* The instrument moves; btnSyncKi and btnSyncKf take the wavelength over.
ParamsChange ==
  xd.kind = "powder" /\ \E v \in Wavelengths : Does([xd EXCEPT !.ext = v])

SyncLam == xd.kind = "powder" /\ Does(SetSpin(xd, "lam", xd.ext))

\* ShowAtomDlg: its table is filled when it is asked for, not when a file is
\* loaded.
ShowAtoms == Does([xd EXCEPT !.table = <<xd.atoms>>])

\* AtomsDlg: a hydrogen is added, a selected atom or the last one is removed,
\* a name is changed; the dialog knows nothing of this
EditTable(rows) == Does([xd EXCEPT !.table = <<rows>>])

AddAtom == xd.table # "closed" /\ EditTable(Append(xd.table[1], "H"))

RemoveAtom ==
  /\ xd.table # "closed"
  /\ \E i \in DOMAIN xd.table[1] : EditTable(RemoveAt(xd.table[1], i))

RenameAtom ==
  /\ xd.table # "closed"
  /\ \E i \in DOMAIN xd.table[1], name \in AtomNames :
       EditTable([xd.table[1] EXCEPT ![i] = name])

\* ... until it is applied, also with names that nothing is known of.
ApplyTable == xd.table # "closed" /\ Does(TakeAtoms(xd, xd.table[1]))

\* The status bar shows the cursor's position, whatever it had shown.
CursorMoved == Does([xd EXCEPT !.status = "cursor"])

SaveXml ==
  /\ moves < MaxMoves /\ moves' = moves + 1
  /\ LET s == SavedOf(xd)
     IN  xdisk' = xdisk \union {[file |-> FileOf(s), of |-> {s}]}
  /\ xfile' = {} /\ UNCHANGED xd

\* LoadPowder, Load and dropEvent
OpenXml ==
  /\ moves < MaxMoves /\ moves' = moves + 1
  /\ \E d \in xdisk :
       /\ xd' = LoadXml(xd, d.file)
       /\ xfile' = {[of |-> d.of, lowest |-> xd.lowest,
                      highest |-> xd.highest,
                      hidden |-> xd.filter # NoFilter /\ xd.current > 1]}
  /\ UNCHANGED xdisk

XdNext ==
  \/ EditLattice \/ SelectGroup \/ TypeFilter \/ ChangeSpin
  \/ ParamsChange \/ SyncLam \/ CursorMoved
  \/ ShowAtoms \/ AddAtom \/ RemoveAtom \/ RenameAtom \/ ApplyTable
  \/ SaveXml \/ OpenXml

XdSpec == XdInit /\ [][XdNext]_xdvars

-----------------------------------------------------------------------------
(***************************************************************************)
(* The table and the plot belong to what the widgets show, unless the last *)
(* calculation has failed or could not be made.                            *)
(***************************************************************************)
TableTrue == ~xd.stale => xd.shown = Wanted(xd)

(***************************************************************************)
(* A file brings back what was saved.  There are some exceptions.  If the  *)
(* filter hides groups while one is selected, clearing it walks through    *)
(* the groups before that one, and each imposes its crystal system on the  *)
(* lattice that has just been loaded.  The centre is cut to the number of  *)
(* the atoms before, and to that of the atoms loaded, which may be none;   *)
(* a centre of -1, which a dialog keeps that once was without atoms, is    *)
(* cut by a dialog that always had some.  And a lattice that was saved     *)
(* without the restrictions of its group is restricted if the group        *)
(* changes.                                                                *)
(***************************************************************************)
BroughtBack ==
  \A l \in xfile : \A s \in l.of :
    \/ l.hidden
    \/ xd.kind = "disp" /\ s.centre > l.highest
    \/ xd.kind = "disp" /\ s.centre < l.lowest /\ s.atoms # <<>>
    \/ xd.kind = "disp" /\ s.centre >= Len(s.atoms)
    \/ s.group # NotSet /\ s.cell # Restricted(SystemOf[s.group], s.cell)
    \/ SavedOf(xd) = s

\* Both: what is shown is one sample.
OneSample == TableTrue /\ BroughtBack

-----------------------------------------------------------------------------
(* The inductive invariant.                                                *)

\* The table is of the widgets, in a step of the dialog too.
CalcTrue(x) == ~x.stale => x.shown = Wanted(x)

DlgFields ==
  {"kind", "ignore", "throws", "dontCalc", "cell", "enabled", "system",
   "filter", "list", "current", "order", "unique", "lam", "centre", "lowest",
   "highest", "atoms", "table", "ext", "shown", "status", "stale"}

\* The dialog, apart from its list of groups; the centre is in its range.
DlgOK(x) ==
  /\ DOMAIN x = DlgFields
  /\ x.kind \in DlgKinds /\ CellOK(x.cell) /\ x.dontCalc \in BOOLEAN
  /\ x.lowest \in {-1, 0} /\ x.centre \in Int /\ x.highest \in Int
  /\ x.lowest <= x.centre /\ x.centre <= x.highest
  /\ x.kind = "powder" => x.centre = 0
  /\ x.atoms \in Seq(AtomNames)
  /\ \/ x.table = "closed"
     \/ x.table = <<x.table[1]>> /\ x.table[1] \in Seq(AtomNames)

\* The list has the groups that the filter leaves.
ListOK(x) ==
  /\ x.filter \in DOMAIN Matching
  /\ x.list = <<NotSet>> \o Matching[x.filter]
  /\ x.current \in 1 .. Len(x.list)

\* A file has keys, and is of what such a dialog has saved if it is its own.
DiskOK(d) ==
  /\ DOMAIN d.file = {"cell", "order", "lam", "centre", "group", "atoms"}
  /\ \A cell \in d.file.cell : CellOK(cell)
  /\ d.file.centre \subseteq Int /\ d.file.atoms \subseteq Seq(AtomNames)
  /\ \A s \in d.of : SavedOK(xd.kind, s) /\ d.file = FileOf(s)

XdIInv ==
  /\ DlgOK(xd) /\ ListOK(xd) /\ xd.dontCalc = FALSE /\ CalcTrue(xd)
  /\ \A d \in xdisk : DiskOK(d)
  /\ BroughtBack
=============================================================================
