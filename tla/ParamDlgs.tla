------------------------------ MODULE ParamDlgs ------------------------------
(***************************************************************************)
(* The dialogs that calculate while the user types, and those that follow  *)
(* the instrument: neutron properties and Bragg's equation                 *)
(* (dialogs/NeutronDlg.cpp), choppers, collimators, selectors and focusing *)
(* (TOFDlg.cpp), factors of the intensity (DWDlg.cpp), spurions            *)
(* (SpurionDlg.cpp), and the parameters in reciprocal and real space       *)
(* (RecipParamDlg.cpp, RealParamDlg.cpp).  Edits write into each other;    *)
(* which of their signals are connected, and in which order, decides if    *)
(* they agree afterwards.                                                  *)
(*                                                                         *)
(* A number is the logarithm of what the edit shows, so that a product is  *)
(* a sum and 0 is the sine of a right angle.  A plot or a text is the      *)
(* values it was made of.  Pages of one dialog that share no widget are    *)
(* windows of their own.  Left out: the tables of constants, the evaluated *)
(* expression, cursor positions, the saving of the spurions' table and the *)
(* windows' geometry.                                                      *)
(***************************************************************************)
EXTENDS Integers, Sequences, FiniteSets

CONSTANTS
  Numbers,    \* numbers that a user types
  Positions,  \* of the instrument: [ki, kf, other]
  Crystals,   \* [cell, grouped]: a lattice, and if it has a space group
  HighestE,   \* the largest energy the spurions' spin box takes
  MaxTurns    \* bound: number of things that happen

NoCrystal == [cell |-> 0, grouped |-> FALSE]

\* A 0 is also an edit without text: a position's ki and kf have one.
ASSUME ParamAssumption ==
  /\ Numbers \subseteq Int /\ HighestE \in Int
  /\ \A p \in Positions :
       /\ p = [ki |-> p.ki, kf |-> p.kf, other |-> p.other]
       /\ p.ki \in Int \ {0} /\ p.kf \in Int \ {0}
  /\ \A c \in Crystals :
       c = [cell |-> c.cell, grouped |-> c.grouped] /\ c.grouped \in BOOLEAN
  /\ NoCrystal \notin Crystals

VARIABLES
  pw,     \* the window
  psett,  \* what its last accept has stored, or {}
  pback,  \* history: the last step has opened the window again
  turns   \* number of steps

pdvars == <<pw, psett, pback, turns>>

TofPages == {"chopper", "div", "sel"}
Solvers == TofPages \union {"bragg"}
Windows ==
  Solvers \union {"neutron", "foc", "factors", "spurion", "recip", "real"}

\* A text or a plot that is made of some of the values.
Show(x, o, of) == [x EXCEPT !.out[o] = [w \in of |-> x.f[w]]]

-----------------------------------------------------------------------------
(* NeutronDlg, first page.  The number is the neutron's; an energy may be  *)
(* negative, the wave is then that of its absolute value.                  *)

Waves == {"lam", "k", "v"}
Energies == {"E", "om", "F", "T"}

Size(n) == IF n < 0 THEN -n ELSE n

\* CalcNeutronLam, CalcNeutronk, CalcNeutronv
FromWave(x, w) ==
  [x EXCEPT !.f = [e \in DOMAIN x.f |->
                     IF e \in Waves THEN x.f[w]
                     ELSE IF e \in Energies THEN Size(x.f[w]) ELSE x.f[e]],
            !.plain = @ \/ w # "lam"]

\* CalcNeutronE, CalcNeutronOm, CalcNeutronF, CalcNeutronT
FromEnergy(x, w) ==
  [x EXCEPT !.f = [e \in DOMAIN x.f |->
                     IF e \in Energies THEN x.f[w]
                     ELSE IF e \in Waves THEN Size(x.f[w]) ELSE x.f[e]],
            !.plain = TRUE]

\* SetExtKi, SetExtKf: of the last paramsChanged
SetExtK(x, k) == FromWave([x EXCEPT !.f["k"] = x.f["pos"][k]], "k")

-----------------------------------------------------------------------------
(* An equation, one of whose edits is calculated from the others.          *)

\* n lam G = sin(tt); burst time = L / (r om rot), where rot is that there is
\* a second disc; ang = w / L; lam = th / (L om): the logarithm of one is the
\* sum of those of the others.
Factors(win) ==
  CASE win = "bragg" -> {"n", "lam", "Q"}
    [] win = "chopper" -> {"t", "r", "om", "rot"}
    [] win = "div" -> {"ang", "L"}
    [] win = "sel" -> {"lam", "om", "L"}

Product(win) ==
  CASE win = "bragg" -> "TT" [] win = "chopper" -> "L"
    [] win = "div" -> "w"    [] win = "sel" -> "th"

Law(win) == Factors(win) \union {Product(win)}

\* By how much the factors exceed their product.
Excess(win, f) ==
  CASE win = "bragg" -> f["n"] + f["lam"] + f["Q"] - f["TT"]
    [] win = "chopper" -> f["t"] + f["r"] + f["om"] + f["rot"] - f["L"]
    [] win = "div" -> f["ang"] + f["L"] - f["w"]
    [] win = "sel" -> f["lam"] + f["om"] + f["L"] - f["th"]

\* Edits that show the same in another unit: K = 1/lam, d = 1/Q, T is half
\* of TT.
Partner == [lam |-> "K", K |-> "lam", Q |-> "d", d |-> "Q",
            TT |-> "T", T |-> "TT"]
Both(x, w) == IF x.win = "bragg" /\ w # "n" THEN {w, Partner[w]} ELSE {w}
InUnit(w, v) == IF w \in {"TT", "T"} THEN v ELSE -v

\* SetEditTT, SetEditT, SetEditK, SetEditLam, SetEditG, SetEditD
SetPartner(x, w) ==
  IF w = "n" THEN x
  ELSE [x EXCEPT !.f[Partner[w]] = InUnit(w, x.f[w]),
                 !.bad = IF w \in @ THEN @ \union {Partner[w]}
                                    ELSE @ \ {Partner[w]}]

\* EnableRecipEdits, EnableChopperEdits, EnableDivEdits, EnableSelEdits
ReadOnly(x) == IF x.win \in Solvers THEN Both(x, x.radio) ELSE {}

\* What the equation gives for o, whose own value drops out: no number if a
\* sine would exceed 1, nor if one of the others is none - an error's text is
\* read as a 0.
Solved(x, o) ==
  LET others == Law(x.win) \ {o}
      v == IF o = Product(x.win) THEN x.f[o] + Excess(x.win, x.f)
                                 ELSE x.f[o] - Excess(x.win, x.f)
  IN  IF others \intersect x.bad # {} \/ (o = "TT" /\ v > 0)
        THEN [x EXCEPT !.bad = @ \union {o}]
        ELSE [x EXCEPT !.f[o] = v, !.bad = @ \ {o}]

CalcBraggRecip(x) == SetPartner(Solved(x, x.radio), x.radio)
CalcChopper(x) == Solved(x, x.radio)
CalcDiv(x) == Solved(x, x.radio)
CalcSel(x) == Solved(x, x.radio)

CalcPage(x) ==
  CASE x.win = "chopper" -> CalcChopper(x)
    [] x.win = "div" -> CalcDiv(x)
    [] x.win = "sel" -> CalcSel(x)
    [] x.win = "bragg" -> CalcBraggRecip(x)

\* Mutant: the calculation is connected before the other unit.
BraggEditedEarly(x, w) == SetPartner(CalcBraggRecip(x), w)

\* An edit's own slot is connected before the calculation.
BraggEdited(x, w) == CalcBraggRecip(SetPartner(x, w))

CalcFoc(x) == Show(x, "curv", {"l1", "l2", "tt"})

-----------------------------------------------------------------------------
(* DWDlg.                                                                  *)

CalcBose(x) == Show(x, "bose", {"boseT", "EMin", "EMax"})

CalcDW(x) == Show(x, "dw", {"amu", "TD", "T", "QMin", "QMax"})

CalcLorentz(x) == Show(x, "lor", {"ttMin", "ttMax", "pol"})

\* A kf that d cannot analyse throws: angles and plot are those of before.
CalcAna(x) ==
  LET fails == x.f["d"] + x.f["kfMin"] < 0 \/ x.f["d"] + x.f["kfMax"] < 0
      y == [x EXCEPT !.left = IF fails THEN {"ana"} ELSE {}]
  IN  IF fails THEN y ELSE Show(y, "ana", {"d", "kfMin", "kfMax"})

-----------------------------------------------------------------------------
(* SpurionDlg.                                                             *)

CalcInel(x) == Show(x, "inel", {"fixedEi", "E", "order", "filter"})

CalcBragg(x) == Show(x, "tail", {"fixedEi", "E", "QMin", "QMax"})

\* The energy of the instrument, as the spin box takes it.
SyncedE(x) ==
  LET E == x.f["pos"][IF x.f["fixedEi"] THEN "ki" ELSE "kf"]
  IN  IF E > HighestE THEN HighestE ELSE E

\* Calc; setting the spin box calls it once more, which changes nothing.
CalcSpurions(x) ==
  LET y == IF x.f["sync"] THEN [x EXCEPT !.f["E"] = SyncedE(x)] ELSE x
  IN  CalcBragg(CalcInel(y))

-----------------------------------------------------------------------------
(* RecipParamDlg.                                                          *)

OriginChanged(x) == Show(x, "defs", {"origin", "em", "pos"})

SetGOrigin(x) == OriginChanged([x EXCEPT !.f["origin"] = x.f["pos"].other])

\* Slots of the edits' textChanged.
KiChanged(x) == Show(x, "incoming", {"ki"})
KfChanged(x) == Show(x, "outgoing", {"kf"})

\* paramsChanged: an edit whose text stays emits nothing.
RecipChanged(x, p) ==
  LET y == [x EXCEPT !.f["pos"] = p, !.f["ki"] = p.ki, !.f["kf"] = p.kf]
      i == IF p.ki # x.f["ki"] THEN KiChanged(y) ELSE y
      o == IF p.kf # x.f["kf"] THEN KfChanged(i) ELSE i
  IN  OriginChanged(Show(o, "fields", {"pos"}))

-----------------------------------------------------------------------------
(* RealParamDlg.                                                           *)

\* paramsChanged
RealChanged(x, p) == Show([x EXCEPT !.f["pos"] = p], "angles", {"pos"})

\* Without a crystal there are no metrics.
CalcVecs(x) ==
  IF x.f["metrics"] = NoCrystal THEN x
  ELSE Show(x, "vecs", {"vec1", "vec2", "metrics"})

\* The third axis is set from the others: what the user typed there is lost.
\* The lattice is the main window's, by pointer.
CalcCrystalRot(x) ==
  IF x.f["latt"] = NoCrystal THEN x
  ELSE Show([x EXCEPT !.f["z"] = <<x.f["x"], x.f["y"]>>], "rot",
            {"coords", "to", "k", "norm", "x", "y", "latt"})

ShowCell(x) == Show(x, "cell", {"latt"})

\* Without a space group the lists are empty.
ShowAtomLists(x, c) ==
  [x EXCEPT !.out["atoms"] = IF c.grouped THEN [latt |-> c] ELSE <<>>]

\* CrystalChanged
CrystalChanged(x, c) ==
  LET y == [x EXCEPT !.f["latt"] = c, !.f["metrics"] = c, !.left = {}]
      z == CalcCrystalRot(CalcVecs(y))
  IN  ShowAtomLists(ShowCell(Show(z, "metrics", {"metrics"})), c)

\* The main window has a new lattice, a scene or a view then throws, and the
\* dialog is not told.
CrystalFails(x, c) ==
  [x EXCEPT !.f["latt"] = c, !.left = {"latt", "rot", "cell", "atoms"}]

-----------------------------------------------------------------------------
(* The windows.                                                            *)

\* What can be typed, selected or checked.
Typed(win) ==
  CASE win = "bragg" -> {"n", "lam", "K", "Q", "d", "T", "TT"}
    [] win = "chopper" -> {"t", "r", "om", "L"}
    [] win \in {"div", "sel"} -> Law(win)
    [] win = "neutron" -> Waves \union Energies
    [] win = "foc" -> {"l1", "l2", "tt"}
    [] win = "factors" ->
         {"boseT", "EMin", "EMax", "amu", "TD", "T", "QMin", "QMax",
          "ttMin", "ttMax", "d", "kfMin", "kfMax"}
    [] win = "spurion" -> {"E", "order", "QMin", "QMax"}
    [] win = "recip" -> {"origin"}
    [] win = "real" -> {"vec1", "vec2", "coords", "to", "k", "norm", "x", "y",
                        "z"}

Checks(win) ==
  CASE win = "chopper" -> {"rot"}
    [] win = "factors" -> {"pol"}
    [] win = "spurion" -> {"fixedEi", "sync", "filter"}
    [] win = "recip" -> {"em"}
    [] OTHER -> {}

\* Choices of the equation's unknown.
Radios(win) ==
  CASE win = "bragg" -> {"lam", "Q", "TT"}
    [] win \in TofPages -> Typed(win)
    [] OTHER -> {}

\* The slots of a spin box, an edit or a check box.
FactorsEdited(x, w) ==
  CASE w \in {"boseT", "EMin", "EMax"} -> CalcBose(x)
    [] w \in {"amu", "TD", "T", "QMin", "QMax"} -> CalcDW(x)
    [] w \in {"d", "kfMin", "kfMax"} -> CalcAna(x)
    [] w \in {"ttMin", "ttMax", "pol"} -> CalcLorentz(x)

SpurionEdited(x, w) ==
  CASE w \in {"fixedEi", "sync", "E"} -> CalcSpurions(x)
    [] w \in {"filter", "order"} -> CalcInel(x)
    [] w \in {"QMin", "QMax"} -> CalcBragg(x)

RealEdited(x, w) ==
  IF w \in {"vec1", "vec2"} THEN CalcVecs(x) ELSE CalcCrystalRot(x)

NeutronEdited(x, w) ==
  IF w \in Waves THEN FromWave(x, w) ELSE FromEnergy(x, w)

Edited(x, w) ==
  CASE x.win = "bragg" -> BraggEdited(x, w)
    [] x.win \in TofPages -> CalcPage(x)
    [] x.win = "neutron" -> NeutronEdited(x, w)
    [] x.win = "foc" -> CalcFoc(x)
    [] x.win = "factors" -> FactorsEdited(x, w)
    [] x.win = "spurion" -> SpurionEdited(x, w)
    [] x.win = "recip" -> OriginChanged(x)
    [] x.win = "real" -> RealEdited(x, w)

InstrumentMoved(x, p) ==
  CASE x.win = "neutron" -> [x EXCEPT !.f["pos"] = p]
    [] x.win = "spurion" -> CalcSpurions([x EXCEPT !.f["pos"] = p])
    [] x.win = "recip" -> RecipChanged(x, p)
    [] x.win = "real" -> RealChanged(x, p)

-----------------------------------------------------------------------------
(* Opening and closing.                                                    *)

\* What a number typed into an edit is; the third axis has two here.
Entered(w, v) == IF w = "z" THEN <<v, v>> ELSE v

NoPosition == [ki |-> 0, kf |-> 0, other |-> 0]

\* What the window knows of the instrument and of the crystal.
Known(win) ==
  CASE win = "recip" -> {"pos", "ki", "kf"}
    [] win = "real" -> {"pos", "latt", "metrics"}
    [] OTHER -> {"pos"}

Fields(win) == Typed(win) \union Checks(win) \union Known(win)

\* What an edit or a box shows first, with the text of an edit as 0, and what
\* the window knows first.
Shown(w) ==
  CASE w = "z" -> Entered(w, 0)
    [] w \in {"fixedEi", "sync"} -> TRUE
    [] w \in {"pol", "filter", "em"} -> FALSE
    [] w = "pos" -> NoPosition
    [] w \in {"latt", "metrics"} -> NoCrystal
    [] OTHER -> 0

Outputs(win) ==
  CASE win = "foc" -> {"curv"}
    [] win = "factors" -> {"bose", "dw", "lor", "ana"}
    [] win = "spurion" -> {"inel", "tail"}
    [] win = "recip" -> {"fields", "incoming", "outgoing", "defs"}
    [] win = "real" -> {"angles", "metrics", "vecs", "rot", "cell", "atoms"}
    [] OTHER -> {}

\* What accept stores: in NeutronDlg the first edit, in TOFDlg all
\* (WriteLastConfig), in RecipParamDlg the direction.
KeptWidgets(win) ==
  CASE win \in TofPages \union {"foc"} -> Typed(win) \union Checks(win)
    [] win = "neutron" -> {"lam"}
    [] win = "recip" -> {"em"}
    [] OTHER -> {}

KeptOf(x) ==
  [values |-> [w \in KeptWidgets(x.win) |-> x.f[w]], radio |-> x.radio,
   plain |-> x.plain]

\* ReadLastConfig: what is stored, before anything is connected.
ReadLastConfig(x, s) ==
  [x EXCEPT !.f = [w \in DOMAIN x.f |-> IF w \in DOMAIN s.values
                                         THEN s.values[w] ELSE x.f[w]],
            !.radio = s.radio]

\* The text of the wavelength is read as a number, an expression is none; the
\* default is then taken, which is also what the edit shows first.
ReadLam(x, s) ==
  FromWave([x EXCEPT !.f["lam"] = IF s.plain THEN s.values["lam"] ELSE 0],
           "lam")

\* Setting the box emits only if it changes.
ReadEm(x, s) ==
  IF s.values["em"] = x.f["em"] THEN x
  ELSE OriginChanged([x EXCEPT !.f["em"] = s.values["em"]])

Restore(x, s) ==
  CASE x.win \in TofPages \union {"foc"} -> ReadLastConfig(x, s)
    [] x.win = "neutron" -> ReadLam(x, s)
    [] x.win = "recip" -> ReadEm(x, s)
    [] OTHER -> x

\* The constructor's calculations.
FirstCalc(x) ==
  CASE x.win \in Solvers -> CalcPage(x)
    [] x.win = "foc" -> CalcFoc(x)
    [] x.win = "factors" -> CalcAna(CalcLorentz(CalcDW(CalcBose(x))))
    [] x.win = "spurion" -> CalcSpurions(x)
    [] OTHER -> x

FirstRadio(win) ==
  CASE win = "bragg" -> "TT" [] win = "chopper" -> "t"
    [] win = "div" -> "ang"  [] win = "sel" -> "om"
    [] OTHER -> "none"

NewWindow(win, sett) ==
  LET x == [win |-> win, f |-> [w \in Fields(win) |-> Shown(w)],
            plain |-> TRUE, bad |-> {}, left |-> {}, radio |-> FirstRadio(win),
            out |-> [o \in Outputs(win) |-> <<>>]]
  IN  FirstCalc(IF sett = {} THEN x
                ELSE Restore(x, CHOOSE s \in sett : TRUE))

-----------------------------------------------------------------------------
PdInit ==
  /\ \E win \in Windows : pw = NewWindow(win, {})
  /\ psett = {} /\ pback = FALSE /\ turns = 0

OneTurn ==
  /\ turns < MaxTurns /\ turns' = turns + 1

Turn(x) == OneTurn /\ pw' = x /\ pback' = FALSE /\ UNCHANGED psett

\* An edit that is not read-only, or a spin box that is enabled.
TypeNumber ==
  \E w \in Typed(pw.win) \ ReadOnly(pw), v \in Numbers :
    /\ ~(pw.win = "spurion" /\ w = "E" /\ pw.f["sync"])
    /\ \E plain \in IF w = "lam" THEN BOOLEAN ELSE {TRUE} :
         Turn(Edited([pw EXCEPT !.f[w] = Entered(w, v), !.bad = @ \ {w},
                                !.plain = plain], w))

ToggleCheck ==
  \E w \in Checks(pw.win) :
    Turn(Edited([pw EXCEPT !.f[w] = IF w = "rot" THEN 1 - @ ELSE ~@], w))

\* Another unknown: toggled is emitted for both buttons.
SelectRadio ==
  \E r \in Radios(pw.win) \ {pw.radio} :
    Turn(CalcPage(CalcPage([pw EXCEPT !.radio = r])))

\* The scene's paramsChanged
MoveInstrument ==
  /\ pw.win \in {"neutron", "spurion", "recip", "real"}
  /\ \E p \in Positions : Turn(InstrumentMoved(pw, p))

SyncK == pw.win = "neutron" /\ \E k \in {"ki", "kf"} : Turn(SetExtK(pw, k))

UseG == pw.win = "recip" /\ Turn(SetGOrigin(pw))

ChangeCrystal ==
  /\ pw.win = "real"
  /\ \E c \in Crystals :
       Turn(CrystalChanged(pw, c)) \/ Turn(CrystalFails(pw, c))

AcceptWindow ==
  /\ OneTurn
  /\ KeptWidgets(pw.win) # {}
  /\ psett' = {KeptOf(pw)} /\ pback' = FALSE /\ UNCHANGED pw

\* The program is started again.
Reopen ==
  /\ OneTurn
  /\ pw' = NewWindow(pw.win, psett) /\ pback' = TRUE /\ UNCHANGED psett

PdNext ==
  \/ TypeNumber \/ ToggleCheck \/ SelectRadio \/ MoveInstrument \/ SyncK
  \/ UseG \/ ChangeCrystal \/ AcceptWindow \/ Reopen

PdSpec == PdInit /\ [][PdNext]_pdvars

-----------------------------------------------------------------------------
\* What a pair of edits with two units shows: the same, or no number.
Paired(x, w) ==
  \/ w \notin x.bad /\ Partner[w] \notin x.bad
       /\ x.f[Partner[w]] = InUnit(w, x.f[w])
  \/ {w, Partner[w]} \subseteq x.bad

Solves(x) ==
  /\ x.bad = {} => Excess(x.win, x.f) = 0
  /\ x.win = "bragg" => \A w \in {"lam", "Q", "TT"} : Paired(x, w)

(***************************************************************************)
(* The edits of an equation solve it, in both units, unless one of them    *)
(* shows no number.                                                        *)
(***************************************************************************)
EquationHolds == pw.win \in Solvers => Solves(pw)

SameNeutron(f) ==
  /\ \A a, b \in Waves : f[a] = f[b]
  /\ \A a, b \in Energies : f[a] = f[b]
  /\ Size(f["k"]) = Size(f["E"])

(***************************************************************************)
(* The seven edits are of one neutron, up to the sign of its energy.       *)
(***************************************************************************)
OneNeutron == pw.win = "neutron" => SameNeutron(pw.f)

(***************************************************************************)
(* A plot or a text is of the values that are shown, and of the position   *)
(* and crystal of the main window, as far as these are known; and a spin   *)
(* box that is kept in step shows the instrument's energy.  The exceptions *)
(* are a calculation that failed and a crystal the dialog was not told of: *)
(* what it calculates then is of two crystals.                             *)
(***************************************************************************)
OutputsFresh ==
  /\ \A o \in DOMAIN pw.out \ pw.left :
       pw.out[o] = [w \in DOMAIN pw.out[o] |-> pw.f[w]]
  /\ pw.win = "spurion" /\ pw.f["sync"] => pw.f["E"] = SyncedE(pw)
  /\ pw.win = "recip" =>
       /\ pw.f["ki"] = pw.f["pos"].ki /\ pw.f["kf"] = pw.f["pos"].kf
       /\ pw.f["pos"] # NoPosition => \A o \in DOMAIN pw.out : pw.out[o] # <<>>
  /\ pw.win = "real" /\ "latt" \notin pw.left =>
       /\ pw.f["latt"] = pw.f["metrics"]
       /\ pw.f["latt"] # NoCrystal =>
            /\ pw.f["z"] = <<pw.f["x"], pw.f["y"]>>
            /\ \A o \in {"metrics", "vecs", "rot", "cell"} : pw.out[o] # <<>>
            /\ pw.out["atoms"] # <<>> <=> pw.f["latt"].grouped

(***************************************************************************)
(* A window that is opened again shows what the last accept has stored,    *)
(* the unknown of the equation included; but not a wavelength that was     *)
(* entered as an expression.                                               *)
(***************************************************************************)
Restored ==
  pback => \A s \in psett : s.plain => KeptOf(pw) = s

\* All of them: the fields of a dialog agree.
FieldsAgree == EquationHolds /\ OneNeutron /\ OutputsFresh /\ Restored

-----------------------------------------------------------------------------
(* The inductive invariant.                                                *)

WindowOK(x) ==
  /\ DOMAIN x = {"win", "f", "plain", "bad", "left", "radio", "out"}
  /\ x.win \in Windows /\ DOMAIN x.f = Fields(x.win)
  /\ DOMAIN x.out = Outputs(x.win) /\ x.plain \in BOOLEAN
  /\ x.win \notin Solvers => x.radio = "none"

\* The pages of TOFDlg always have a solution, Bragg's equation has none if
\* the sine would exceed 1.
SolverInv(x) ==
  x.win \in Solvers =>
    /\ x.radio \in Radios(x.win)
    /\ \A w \in Typed(x.win) \union Law(x.win) : x.f[w] \in Int
    /\ x.win \in TofPages => x.bad = {}
    /\ Solves(x)

NeutronInv(x) ==
  x.win = "neutron" =>
    /\ \A w \in Waves \union Energies : x.f[w] \in Int
    /\ x.f["pos"].ki \in Int /\ x.f["pos"].kf \in Int
    /\ SameNeutron(x.f)

\* What each plot or text is made of.
Uses(o) ==
  CASE o = "curv" -> {"l1", "l2", "tt"}
    [] o = "bose" -> {"boseT", "EMin", "EMax"}
    [] o = "dw" -> {"amu", "TD", "T", "QMin", "QMax"}
    [] o = "lor" -> {"ttMin", "ttMax", "pol"}
    [] o = "ana" -> {"d", "kfMin", "kfMax"}
    [] o = "inel" -> {"fixedEi", "E", "order", "filter"}
    [] o = "tail" -> {"fixedEi", "E", "QMin", "QMax"}
    [] o = "defs" -> {"origin", "em", "pos"}
    [] o = "incoming" -> {"ki"}
    [] o = "outgoing" -> {"kf"}
    [] o \in {"fields", "angles"} -> {"pos"}
    [] o = "metrics" -> {"metrics"}
    [] o = "vecs" -> {"vec1", "vec2", "metrics"}
    [] o = "rot" -> {"coords", "to", "k", "norm", "x", "y", "latt"}
    [] o \in {"cell", "atoms"} -> {"latt"}

\* None yet, or made of what is shown.
Made(x, o) == x.out[o] = [w \in Uses(o) |-> x.f[w]]
OutputsInv(x) ==
  \A o \in DOMAIN x.out \ x.left : x.out[o] = <<>> \/ Made(x, o)

\* What can have failed.
Untold == {"latt", "rot", "cell", "atoms"}
LeftInv(x) ==
  \/ x.left = {}
  \/ x.win = "factors" /\ x.left = {"ana"}
  \/ x.win = "real" /\ x.left = Untold

SpurionInv(x) ==
  x.win = "spurion" => (x.f["sync"] => x.f["E"] = SyncedE(x))

\* Before the first position all of the edits are empty.
RecipInv(x) ==
  x.win = "recip" =>
    /\ x.f["ki"] = x.f["pos"].ki /\ x.f["kf"] = x.f["pos"].kf
    /\ \/ x.f["pos"] = NoPosition
       \/ \A o \in DOMAIN x.out : x.out[o] # <<>>

\* Before the first crystal nothing is calculated.
RealInv(x) ==
  x.win = "real" =>
    /\ x.left = {} => x.f["latt"] = x.f["metrics"]
    /\ x.left = {} /\ x.f["latt"] # NoCrystal =>
         /\ x.f["z"] = <<x.f["x"], x.f["y"]>>
         /\ \A o \in {"metrics", "vecs", "rot", "cell"} : x.out[o] # <<>>
         /\ x.out["atoms"] # <<>> <=> x.f["latt"].grouped
    /\ x.f["metrics"] = NoCrystal => x.out["vecs"] = <<>>
    /\ x.f["latt"] = NoCrystal => x.out["rot"] = <<>>

ValidWindow(x) ==
  /\ WindowOK(x) /\ SolverInv(x) /\ NeutronInv(x) /\ OutputsInv(x)
  /\ LeftInv(x) /\ SpurionInv(x) /\ RecipInv(x) /\ RealInv(x)

\* What such a window can have stored.
StoredInv(win, s) ==
  /\ s = [values |-> s.values, radio |-> s.radio, plain |-> s.plain]
  /\ s.values = [w \in KeptWidgets(win) |-> s.values[w]]
  /\ KeptWidgets(win) # {} /\ s.plain \in BOOLEAN
  /\ win \in TofPages =>
       /\ s.radio \in Radios(win) /\ \A w \in Law(win) : s.values[w] \in Int
       /\ Excess(win, s.values) = 0
  /\ win \notin Solvers => s.radio = "none"
  /\ win = "neutron" => s.values["lam"] \in Int

PdIInv ==
  /\ ValidWindow(pw) /\ Restored
  /\ \A s \in psett : StoredInv(pw.win, s)
  /\ \A s, t \in psett : s = t
=============================================================================
