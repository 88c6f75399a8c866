-------------------------------- MODULE Reso ---------------------------------
(***************************************************************************)
(* The dialog of the resolution calculation (tools/res/ResoDlg.cpp,        *)
(* ResoDlg_file.cpp), the two windows that draw its ellipses               *)
(* (dialogs/EllipseDlg.cpp, EllipseDlg3D.cpp), and the loader of its files *)
(* that the convolution uses (tools/monteconvo/TASReso.cpp).               *)
(*                                                                         *)
(* The fields, the parameters that the calculation was last given, its     *)
(* result and what is derived from the result are kept apart; each handler *)
(* is an operator on the dialog's state.  The positions share kf.          *)
(***************************************************************************)
EXTENDS ResoCalc, FiniteSets

CONSTANTS
  Algos,     \* cn, pop, eck, viol and simple
  Places4,   \* positions (Q, E) at which the scattering triangle closes
  Open,      \* a position at which it does not
  ReflCurves, \* reflectivity curves: pairs of a directory and a name
  StartHere, \* the directory in which the program was started
  Edits,     \* pairs of a group of fields and a value, that a user enters
  Start0,    \* initial values of the fields
  MaxActs    \* bound: number of events

\* The boxes of the dialog, in groups of which each is read as one.
FieldNames ==
  {"pos", "d", "coll", "guide", "size", "focus", "curv", "vert", "offset",
   "tof", "sig", "flags", "file", "algo", "live"}

\* The fields of a dialog: the curvature is flat, optimal or given.
FieldsOK(f) == /\ DOMAIN f = FieldNames
               /\ f.focus \in 0 .. 2 /\ f.algo \in Algos /\ f.live \in BOOLEAN

ASSUME ResoAssumption ==
  /\ Open \notin Places4 /\ Singular \subseteq Places4
  /\ Algos \subseteq {"cn", "pop", "eck", "viol", "simple"}
  /\ FieldsOK(Start0) /\ Start0.pos \in Places4
  /\ \A e \in Edits : /\ e[1] \in FieldNames \ {"pos", "file", "algo", "live"}
                      /\ e[1] = "focus" => e[2] \in 0 .. 2

\* No name of a curve.
NoName == ""

VARIABLES
  rd,     \* the dialog: fields, parameters, results and windows
  saved,  \* the saved file: [dir, fields], or <<>>
  setts2, \* the stored configuration, or <<>>
  tas,    \* a TASReso, or <<>>
  acts    \* number of events

\* The dialog's state has the fields
\*   f, p, res, status, text      the fields, what was calculated from them
\*   closed                       the triangle of the fields' position closes
\*   auto, ell, current, fresh    the ellipsoid, whether it is of the result,
\*                                and was when the neutrons were generated
\*   hasUB, ub, angle, main       what the main window told
\*   hkl, orient, mc, file        matrices in rlu, neutrons, and their file
\*   cache, dir, tabs, d2, d3     curves, their directory, pages, windows
rsvars == <<rd, saved, setts2, tas, acts>>

-----------------------------------------------------------------------------
(* The parameters of a calculation.                                        *)

\* load_cache_refl: the cache is keyed by the name only.
FindCurve(name, dir) ==
  LET found == {e \in {dir, StartHere} : <<e, name>> \in ReflCurves} IN
  IF found = {} THEN <<"bad">>
  ELSE <<IF dir \in found THEN dir ELSE StartHere, name>>

LoadCacheRefl(s, name) ==
  IF name \in DOMAIN s.cache THEN s.cache[name] ELSE FindCurve(name, s.dir)

\* Calc reads the fields; position and angles are set by others, and an empty
\* name of a curve keeps the one before.
CnOf(s) ==
  [coll |-> s.f.coll, flags |-> s.f.flags, pos |-> s.p.pos,
   theta |-> s.p.theta,
   curve |-> IF s.f.file = NoName THEN s.p.curve ELSE LoadCacheRefl(s, s.f.file)]

PopEckOf(s) ==
  [guide |-> s.f.guide, size |-> s.f.size, focus |-> s.f.focus,
   curv |-> s.f.curv, vert |-> s.f.vert, offset |-> s.f.offset]

TofOf(s) == [tof |-> s.f.tof, sig |-> s.f.sig]

ParamsOf(s) ==
  LET c == CnOf(s)  e == PopEckOf(s)  t == TofOf(s) IN
  [coll |-> c.coll, flags |-> c.flags, pos |-> c.pos, theta |-> c.theta,
   curve |-> c.curve, guide |-> e.guide, size |-> e.size, focus |-> e.focus,
   curv |-> e.curv, vert |-> e.vert, offset |-> e.offset, tof |-> t.tof,
   sig |-> t.sig]

\* The algorithms by their ids.
RunAlgo(algo, p) ==
  CASE algo = "cn" -> CalcCn(p)
    [] algo = "pop" -> CalcPop(p)
    [] algo = "eck" -> CalcEck(p)
    [] algo = "viol" -> CalcViol(p)
    [] algo = "simple" -> CalcSimple(p)

-----------------------------------------------------------------------------
(* The windows.  Each has a matrix per coordinate system.                  *)

NoWindow == [open |-> FALSE, coord |-> "angs", centre |-> TRUE,
             mats |-> <<>>, drawn |-> <<>>]

Axes == [i \in 1 .. 4 |->
           [axis |-> <<"para", "ortho", "up", "E">>[i], int |-> {}]]

\* EllipseDlg::Calc: the plots and their indices (two axes, the one that is
\* integrated over, two that are removed), and the Monte-Carlo points, which
\* only two of the systems have.
Plots2D ==
  <<<<0, 3, 1, 2, -1>>, <<1, 3, 0, 2, -1>>,
    <<2, 3, 0, 1, -1>>, <<0, 1, 3, 2, -1>>,
    <<0, 3, -1, 2, 1>>, <<1, 3, -1, 2, 0>>,
    <<2, 3, -1, 1, 0>>, <<0, 1, -1, 2, 3>>>>

\* What the settings may have instead of each of them: the four axes and a
\* -1, the two of the plot in the order of the matrix.
Configurable ==
  {q \in [1 .. 5 -> -1 .. 3] :
     Range(q) = -1 .. 3 /\ 0 <= q[1] /\ q[1] < q[2]}

Ellipse(q) == CalcEllipse(Axes, q[1], q[2], q[3], q[4], q[5])

\* EllipseDlg3D::Calc: two plots, each projected and sliced.
Plots3D == <<<<0, 1, 3, 2, -1>>, <<0, 1, 2, 3, -1>>,
             <<0, 1, 3, -1, 2>>, <<0, 1, 2, -1, 3>>>>

Ellipsoid(q) == CalcEllipsoid3(Axes, q[1], q[2], q[3], q[4], q[5])

Draw2D(w, mc) ==
  [w EXCEPT !.drawn = [mat |-> w.mats[w.coord], coord |-> w.coord,
                       offs |-> IF w.centre THEN "zero" ELSE "mean",
                       mc |-> CASE w.coord = "angs" -> mc.direct
                                [] w.coord = "rlu" -> mc.hkl
                                [] w.coord = "orient" -> <<>>]]

\* The 3D window always draws around the origin.
Draw3D(w) ==
  [w EXCEPT !.drawn = [mat |-> w.mats[w.coord], coord |-> w.coord,
                       offs |-> "zero", mc |-> <<>>]]

\* EmitResults, and SetParams of both windows.
Matrices(s) == [angs |-> s.res.reso, rlu |-> s.hkl, orient |-> s.orient]

EmitResults(s) ==
  LET take(w) == [w EXCEPT !.mats = Matrices(s)] IN
  [s EXCEPT !.d2 = IF @.open THEN Draw2D(take(@), s.mc) ELSE @,
            !.d3 = IF @.open THEN Draw3D(take(@)) ELSE @]

-----------------------------------------------------------------------------
(* The calculation.                                                        *)

CalcElli4d(s) == [s EXCEPT !.ell = CalcEllipsoid4(s.res)]

\* The neutrons that are drawn while one changes the fields.
LiveMC(s) ==
  LET opts == [angle |-> s.angle, ub |-> s.ub] IN
  IF ~s.f.live THEN [direct |-> <<>>, hkl |-> <<>>]
  ELSE [direct |-> McNeutrons(s.ell, "direct", opts),
        hkl |-> IF s.hasUB THEN McNeutrons(s.ell, "rlu", opts) ELSE <<>>]

\* What follows a calculation that succeeded.
Succeed(s) ==
  LET s1 == IF s.auto THEN [CalcElli4d(s) EXCEPT !.current = TRUE] ELSE s
      s2 == IF s.hasUB
            THEN [s1 EXCEPT
                   !.hkl = LabToRlu(s.angle, s.ub, s.res.reso),
                   !.orient = LabToOrient(s.angle, s.ub, s.res.reso)]
            ELSE s1
      s3 == [s2 EXCEPT
              !.text = [reso |-> s.res.reso, r0 |-> s.res.r0,
                        bragg |-> BraggFwhms(s.res.reso),
                        hkl |-> IF s.hasUB THEN s2.hkl ELSE <<>>],
              !.status = "ok", !.fresh = s.auto]
  IN EmitResults([s3 EXCEPT !.mc = LiveMC(s3)])

\* Calc
Calc(s) ==
  LET s0 == [s EXCEPT !.current = FALSE, !.p = ParamsOf(s),
               !.cache = IF s.f.file = NoName \/ s.f.file \in DOMAIN @
                            \/ FindCurve(s.f.file, s.dir) = <<"bad">>
                         THEN @
                         ELSE [n \in DOMAIN @ \union {s.f.file} |->
                                 LoadCacheRefl(s, n)]]
      s1 == [s0 EXCEPT !.res = RunAlgo(s.f.algo, s0.p)]
  IN IF s1.res.ok THEN Succeed(s1) ELSE [s1 EXCEPT !.status = "error"]

\* RefreshQEPos: nothing is set when the triangle does not close.
RefreshQEPos(s) ==
  IF s.f.pos = Open THEN [s EXCEPT !.closed = FALSE]
  ELSE Calc([s EXCEPT !.p.pos = s.f.pos,
                      !.p.theta = [pos |-> s.f.pos, d |-> s.f.d],
                      !.closed = TRUE])

-----------------------------------------------------------------------------
(* The user changes fields.                                                *)

\* The handler of each field.
Edit(g, v) ==
  /\ rd.f[g] # v
  /\ rd' = Calc([rd EXCEPT !.f[g] = v])

EditPos(q) ==
  /\ rd.f.pos # q
  /\ rd' = RefreshQEPos([rd EXCEPT !.f.pos = q])

\* AlgoChanged: the pages of the fields that the algorithm reads.
Pages(algo) == CASE algo = "cn" -> {0}
                 [] algo = "pop" -> {0, 1}
                 [] algo = "eck" -> {0, 1, 2}
                 [] algo = "viol" -> {3}
                 [] algo = "simple" -> {4}

AlgoChanged(s) == [s EXCEPT !.tabs = Pages(s.f.algo)]

SelectAlgo(algo) ==
  /\ rd.f.algo # algo
  /\ rd' = Calc(AlgoChanged([rd EXCEPT !.f.algo = algo]))

-----------------------------------------------------------------------------
(* The main window.                                                        *)

\* ResoParamsChanged: the spacing of the crystals; the angles are not set.
ResoParamsChanged(d) ==
  /\ rd.main # d
  /\ rd' = Calc([rd EXCEPT !.f.d = d, !.main = d])

\* RecipParamsChanged
RecipParamsChanged(s, q) ==
  Calc([s EXCEPT !.p.pos = q, !.f.pos = q, !.closed = TRUE,
                 !.angle = IF s.hasUB THEN q ELSE @])

\* RealParamsChanged: angles for the main window's spacing.
RealParamsChanged(s, q) ==
  Calc([s EXCEPT !.p.theta = [pos |-> q, d |-> s.main]])

Move(q) == rd' = RealParamsChanged(RecipParamsChanged(rd, q), q)

\* SampleParamsChanged: nothing is calculated.
SampleParamsChanged(u) ==
  /\ <<rd.hasUB, rd.ub>> # <<TRUE, u>>
  /\ rd' = IF u = 0 THEN [rd EXCEPT !.hasUB = FALSE]
           ELSE [rd EXCEPT !.hasUB = TRUE, !.ub = u]

-----------------------------------------------------------------------------
(* Monte-Carlo neutrons.                                                   *)

\* checkAutoCalcElli4dChanged
ToggleAuto ==
  LET s == [rd EXCEPT !.auto = ~@] IN
  rd' = IF s.auto /\ ~s.current THEN CalcElli4d(s) ELSE s

\* MCGenerate: the file of neutrons.
MCGenerate ==
  LET s == IF rd.current THEN rd ELSE CalcElli4d(rd) IN
  rd' = [s EXCEPT !.file = McNeutrons(s.ell, "rlu", [angle |-> s.angle,
                                                     ub |-> s.ub])]

-----------------------------------------------------------------------------
(* Files.                                                                  *)

\* Save: all fields but the one that calculates the ellipsoid; the
\* algorithm by its id, the curvature as the index of its box.
FieldsOf(s) == s.f

SaveRes(dir) == saved' = [dir |-> dir, f |-> FieldsOf(rd)] /\ UNCHANGED rd

\* Load: the fields, with the handlers held back, then the position.
\* Mutant: the results are calculated for the position before.
LoadConfCalcs(s, f) == Calc(AlgoChanged([s EXCEPT !.f = f]))
LoadConf(s, f) == RefreshQEPos(AlgoChanged([s EXCEPT !.f = f,
                    !.current = @ /\ [f EXCEPT !.pos = s.f.pos] = s.f]))

\* LoadRes: the directory is only set afterwards.
LoadRes ==
  /\ saved # <<>>
  /\ rd' = [LoadConf(rd, saved.f) EXCEPT !.dir = saved.dir]
  /\ UNCHANGED saved

\* WriteLastConfig
WriteLastConfig == setts2' = rd.f

-----------------------------------------------------------------------------
(* The windows are opened, and changed.                                    *)

\* ShowResoEllipses, ShowResoEllipses3D
OpenWindow(w) ==
  /\ ~rd[w].open
  /\ rd' = EmitResults([rd EXCEPT ![w].open = TRUE])

\* comboCoord
SetCoord(w, c) ==
  /\ rd[w].open /\ rd[w].coord # c
  /\ rd' = [rd EXCEPT ![w] =
              LET x == [@ EXCEPT !.coord = c] IN
              IF w = "d2" THEN Draw2D(x, rd.mc) ELSE Draw3D(x)]

\* SetCenterOn0
SetCenterOn0 ==
  /\ rd.d2.open
  /\ rd' = [rd EXCEPT !.d2 = Draw2D([rd.d2 EXCEPT !.centre = ~@], rd.mc)]

-----------------------------------------------------------------------------
(* TASReso.                                                                *)

\* The constructor: the algorithm is Cooper-Nathans, kf is fixed.
NewTas == [algo |-> "cn", p |-> <<>>, d |-> 0, kifix |-> FALSE,
           kfix |-> <<>>, foc |-> {}, ub |-> 0, angle |-> Open,
           res |-> Failed, many |-> FALSE, calls |-> "none", src |-> <<>>]

\* LoadRes: the curvature is a flag here, and another key, which is not in
\* the file and 1 by default, says that it is optimal.
FocusOf(focus) == IF focus = 0 THEN 0 ELSE 1

TasParams(c) ==
  [coll |-> c.f.coll, guide |-> c.f.guide, size |-> c.f.size,
   focus |-> FocusOf(c.f.focus), curv |-> c.f.curv, vert |-> c.f.vert,
   offset |-> c.f.offset, tof |-> c.f.tof, sig |-> c.f.sig,
   flags |-> c.f.flags, pos |-> c.f.pos,
   theta |-> [pos |-> Open, d |-> 0],
   curve |-> IF c.f.file = NoName THEN <<>> ELSE FindCurve(c.f.file, c.dir)]

LoadTas(t, c) ==
  [t EXCEPT !.algo = c.f.algo, !.p = TasParams(c), !.d = c.f.d,
            !.kfix = IF t.kifix THEN <<"ki", c.f.pos>> ELSE <<"kf">>,
            !.src = c]

\* LoadLattice, SetLattice: an invalid one changes nothing.
SetLattice(t, u) == IF u = 0 THEN t ELSE [t EXCEPT !.ub = u]

TasLoad(u) ==
  /\ saved # <<>> /\ tas = <<>>
  /\ tas' = SetLattice(LoadTas(NewTas, saved), u)

\* SetKiFix: the fixed wave number stays that of the other one.
SetKiFix == tas # <<>> /\ tas' = [tas EXCEPT !.kifix = ~@]

\* SetOptimalFocus
SetFoc(foc) == tas # <<>> /\ tas' = [tas EXCEPT !.foc = foc]

\* SetRandomSamplePos
SetMany == tas # <<>> /\ tas' = [tas EXCEPT !.many = ~@]

\* get_other_k: the position that is reached with the fixed wave number.
Reached(t, q) ==
  IF t.kfix = IF t.kifix THEN <<"ki", q>> ELSE <<"kf">> THEN q
  ELSE <<q, t.kfix>>

\* The requested curvatures stay in the parameters.
Focused(foc, focus) == IF foc = "flat" THEN 0 ELSE
                       IF foc = "curved" THEN 1 ELSE focus

\* Mutant: the sample's position is reset before the calculation.
OffsetReset(t) == IF t.many THEN 9 ELSE 0

\* The sample's offset: randomly chosen (9) if asked for.
OffsetIn(t) == IF t.many THEN 9 ELSE t.p.offset

\* The calculation, in SetHKLE; the simple one is not known.
TasCalc(t, p) == IF t.algo = "simple" THEN Failed ELSE RunAlgo(t.algo, p)

\* SetHKLE: up is a position outside the scattering plane.
SetHKLE(q, up) ==
  LET r == Reached(tas, q)
      foc == IF tas.foc = {} THEN tas.p.focus
             ELSE Focused(CHOOSE x \in tas.foc : TRUE, tas.p.focus)
      p1 == [tas.p EXCEPT !.pos = r, !.theta = [pos |-> r, d |-> tas.d],
                          !.focus = foc]
      p2 == [p1 EXCEPT !.offset = OffsetIn(tas)]
  IN /\ tas # <<>>
     /\ tas' = [IF tas.ub = 0 THEN [tas EXCEPT !.res.ok = FALSE]
                ELSE IF up THEN [tas EXCEPT !.p = p1, !.res.ok = FALSE]
                ELSE [tas EXCEPT !.p = [p2 EXCEPT !.offset = 0],
                        !.angle = q, !.res = TasCalc(tas, p2)]
                EXCEPT !.calls =
                  IF @ = "none" /\ ~tas.many /\ tas.foc = {}
                  THEN "plain" ELSE "other"]

\* GenerateMC, GenerateMC_deferred
GenerateMC(t) ==
  McNeutrons(CalcEllipsoid4(t.res), "rlu", [angle |-> t.angle, ub |-> t.ub])
-----------------------------------------------------------------------------

\* The constructor, with ReadLastConfig: a position is only taken over, and
\* something calculated, when its triangle closes.
NewDialog(f) ==
  RefreshQEPos(AlgoChanged(
    [f |-> f,
     p |-> [pos |-> Open, theta |-> [pos |-> Open, d |-> 0], curve |-> <<>>],
     res |-> Failed, status |-> "none", text |-> NoReso, closed |-> FALSE,
     auto |-> TRUE, ell |-> NoReso, current |-> FALSE, fresh |-> FALSE,
     hasUB |-> FALSE, ub |-> 0, angle |-> Open, main |-> Start0.d,
     hkl |-> NoReso, orient |-> NoReso,
     mc |-> [direct |-> <<>>, hkl |-> <<>>], file |-> <<>>,
     cache |-> <<>>, dir |-> StartHere, tabs |-> {},
     d2 |-> NoWindow, d3 |-> NoWindow]))

\* The program is started again.
Restart == rd' = NewDialog(IF setts2 = <<>> THEN Start0 ELSE setts2)

\* The dialog on its own, and the one that the main window opens, which is
\* told the sample and the position.
Opened(s) ==
  LET t == [s EXCEPT !.hasUB = TRUE, !.ub = 1]
  IN RealParamsChanged(RecipParamsChanged(t, s.f.pos), s.f.pos)

RsInit ==
  /\ \E algo \in Algos :
       LET s == NewDialog([Start0 EXCEPT !.algo = algo])
       IN rd \in {s, Opened(s)}
  /\ saved = <<>> /\ setts2 = <<>> /\ tas = <<>> /\ acts = 0

FieldStep ==
  /\ \/ \E e \in Edits : Edit(e[1], e[2])
     \/ \E q \in Places4 \union {Open} : EditPos(q)
     \/ \E a \in Algos : SelectAlgo(a)
     \/ \E name \in {c[2] : c \in ReflCurves} \union {NoName, "none"} :
          Edit("file", name)
     \/ \E on \in BOOLEAN : Edit("live", on)
  /\ UNCHANGED <<saved, setts2, tas>>

MainStep ==
  /\ \/ \E d \in 1 .. 2 : ResoParamsChanged(d)
     \/ \E q \in Places4 : Move(q)
     \/ \E u \in 0 .. 2 : SampleParamsChanged(u)
  /\ UNCHANGED <<saved, setts2, tas>>

ButtonStep ==
  /\ ToggleAuto \/ MCGenerate
  /\ UNCHANGED <<saved, setts2, tas>>

FileStep2 ==
  /\ \/ (\E c \in ReflCurves : SaveRes(c[1])) /\ UNCHANGED setts2
     \/ LoadRes /\ UNCHANGED setts2
     \/ WriteLastConfig /\ UNCHANGED <<rd, saved>>
     \/ Restart /\ UNCHANGED <<saved, setts2>>
  /\ UNCHANGED tas

WindowStep ==
  /\ \/ \E w \in {"d2", "d3"} : OpenWindow(w)
     \/ \E w \in {"d2", "d3"}, c \in {"angs", "rlu", "orient"} :
          SetCoord(w, c)
     \/ SetCenterOn0
  /\ UNCHANGED <<saved, setts2, tas>>

TasStep ==
  /\ \/ \E u \in 0 .. 2 : TasLoad(u)
     \/ SetKiFix \/ SetMany
     \/ \E foc \in {"flat", "curved"} : SetFoc({foc})
     \/ \E q \in Places4, up \in BOOLEAN : SetHKLE(q, up)
  /\ UNCHANGED <<rd, saved, setts2>>

RsNext ==
  /\ acts < MaxActs /\ acts' = acts + 1
  /\ \/ FieldStep \/ MainStep \/ ButtonStep \/ FileStep2 \/ WindowStep
     \/ TasStep

RsSpec == RsInit /\ [][RsNext]_rsvars

-----------------------------------------------------------------------------
(* Properties.                                                             *)

\* The parameters with another position and curve.
ParamsAt(s, q, c) == [ParamsOf(s) EXCEPT !.pos = q, !.curve = c]

\* What the dialog says is what the chosen algorithm gives for what its
\* fields say, at the last position that could be used (ResoDlg.cpp:286):
\* the text, the matrices in rlu, the neutrons and the ellipsoid that is
\* marked as current are those of the result, and an error is shown if and
\* only if there is none.  Excepted are fields whose triangle does not close,
\* the spacing of the crystals, which only a change of the position takes
\* over, and a curve whose name was deleted.
ResultsTrue ==
  /\ rd.status = "ok" /\ rd.closed =>
       LET p == ParamsAt(rd, rd.f.pos, rd.p.curve)
       IN /\ rd.res.ok /\ rd.res = RunAlgo(rd.f.algo, p)
          /\ p.theta.pos = rd.f.pos
          /\ rd.f.file # NoName =>
               rd.p.curve = <<"bad">> \/ rd.p.curve[2] = rd.f.file
          /\ rd.text.reso = rd.res.reso /\ rd.text.r0 = rd.res.r0
          /\ rd.text.hkl # <<>> =>
               rd.text.hkl = rd.hkl /\ rd.hkl.reso = rd.res.reso
          /\ rd.fresh /\ rd.f.live =>
               rd.mc.direct.ell = CalcEllipsoid4(rd.res)
  /\ rd.status = "error" => ~rd.res.ok
  /\ rd.current => rd.res.ok /\ rd.ell = CalcEllipsoid4(rd.res)
  /\ rd.tabs = Pages(rd.f.algo)

\* The convolution has the dialog's resolution: when its loader reads the
\* file that was saved for these fields, its first calculation at the
\* dialog's position gives the same result (TASReso.cpp:97, :334), and the
\* same neutrons.  Excepted are a given curvature, which the loader takes for
\* the optimal one, the simple algorithm, which it does not know, and what
\* ResultsTrue excepts.
SameSource ==
  /\ tas # <<>> /\ rd.closed /\ rd.status # "none"
  /\ tas.calls = "plain"
  /\ tas.src.f = rd.f /\ tas.p.pos = rd.p.pos /\ tas.angle = rd.p.pos
  /\ rd.p.theta.d = rd.f.d /\ tas.p.curve = rd.p.curve
  /\ rd.f.focus # 2 \/ rd.f.algo = "cn"
  /\ rd.f.algo # "simple"
SameResolution ==
  SameSource =>
    /\ tas.res = rd.res
    /\ (/\ rd.status = "ok" /\ rd.fresh /\ rd.mc.hkl # <<>>
        /\ rd.mc.hkl.opts = [angle |-> tas.angle, ub |-> tas.ub])
         => GenerateMC(tas) = rd.mc.hkl

\* A plot shows the axes that it is labelled with, also one of the settings:
\* whatever is removed or integrated before, the two or three axes that are
\* left are the requested ones, and only the requested one was integrated over
\* (ellipse.h:268).
IndicesRight ==
  /\ Range(Plots2D) \subseteq Configurable
  /\ \A q \in Configurable :
       LET e == Ellipse(q)
           want == <<Axes[q[1] + 1].axis, Axes[q[2] + 1].axis>>
       IN /\ [i \in 1 .. Len(e.quad) |-> e.quad[i].axis] = want
          /\ e.offs = want
          /\ \A i \in 1 .. 2 : e.quad[i].int =
               IF q[3] < 0 THEN {} ELSE {Axes[q[3] + 1].axis}
  /\ \A q \in Range(Plots3D) :
       LET e == Ellipsoid(q)
           want == [i \in 1 .. 3 |-> Axes[q[i] + 1].axis]
       IN /\ {e.quad[i].axis : i \in 1 .. Len(e.quad)} = Range(want)
          /\ e.offs = want

\* The windows draw the last result that there was in the chosen coordinate
\* system, with the neutrons of the same system, and with the right axes
\* (ResoDlg.cpp:772, EllipseDlg.cpp:117, EllipseDlg3D.cpp:128).
EllipsesTrue ==
  /\ IndicesRight
  /\ rd.status = "ok" => \A w \in {"d2", "d3"} :
       rd[w].open =>
         /\ rd[w].drawn.mat = Matrices(rd)[rd[w].coord]
         /\ rd[w].drawn.coord = rd[w].coord
         /\ rd[w].drawn.mc # <<>> => rd[w].drawn.mc \in {rd.mc.direct, rd.mc.hkl}
-----------------------------------------------------------------------------
(* The inductive invariant of the proofs.                                  *)

\* The dialog's state s has its fields, windows and a position.
DialogOK(s) ==
  /\ DOMAIN s = {"f", "p", "res", "status", "text", "closed", "auto", "ell",
                 "current", "fresh", "hasUB", "ub", "angle", "main", "hkl",
                 "orient", "mc", "file", "cache", "dir", "tabs", "d2", "d3"}
  /\ FieldsOK(s.f) /\ {"pos", "theta", "curve"} \subseteq DOMAIN s.p
  /\ s.status \in {"none", "ok", "error"}
  /\ {s.closed, s.auto, s.current, s.fresh, s.hasUB} \subseteq BOOLEAN
  /\ \A w \in {"d2", "d3"} :
       /\ DOMAIN s[w] = DOMAIN NoWindow
       /\ s[w].coord \in {"angs", "rlu", "orient"} /\ s[w].open \in BOOLEAN
  /\ \A n \in DOMAIN s.cache : s.cache[n] = <<"bad">> \/ s.cache[n][2] = n

\* What was calculated for a triangle that closes is what the fields say.
CalcInv(s) ==
  s.closed =>
    /\ s.status # "none" /\ s.f.pos # Open
    /\ s.p = ParamsAt(s, s.f.pos, s.p.curve)
    /\ s.p.theta = [pos |-> s.f.pos, d |-> s.p.theta.d]
    /\ s.f.file # NoName =>
         s.p.curve = <<"bad">> \/ s.p.curve[2] = s.f.file
    /\ s.res = RunAlgo(s.f.algo, s.p)
    /\ s.status = "ok" /\ s.fresh /\ s.f.live =>
         s.mc.direct.ell = CalcEllipsoid4(s.res)

\* Everything that is derived from a result is of this one, also when the
\* fields have been replaced by some whose triangle does not close.
DerivedInv(s) ==
  /\ s.status = "ok" =>
       /\ s.res.ok
       /\ s.text.reso = s.res.reso /\ s.text.r0 = s.res.r0
       /\ s.text.hkl # <<>> => s.text.hkl = s.hkl /\ s.hkl.reso = s.res.reso
       /\ s.fresh /\ s.mc.hkl # <<>> =>
            s.mc.hkl = McNeutrons(CalcEllipsoid4(s.res), "rlu", s.mc.hkl.opts)
  /\ s.status = "error" => ~s.res.ok
  /\ s.current => s.res.ok /\ s.ell = CalcEllipsoid4(s.res)

\* An open window has been given the matrices and draws them.
WindowInv(s) ==
  s.status = "ok" => \A w \in {"d2", "d3"} :
    s[w].open =>
      /\ s[w].mats = Matrices(s)
      /\ s[w].drawn.mat = Matrices(s)[s[w].coord]
      /\ s[w].drawn.coord = s[w].coord
      /\ s[w].drawn.mc # <<>> => s[w].drawn.mc \in {s.mc.direct, s.mc.hkl}

DialogInv(s) ==
  /\ DialogOK(s) /\ CalcInv(s) /\ DerivedInv(s) /\ WindowInv(s)
  /\ s.tabs = Pages(s.f.algo)

FilesInv ==
  /\ saved # <<>> => DOMAIN saved = {"dir", "f"} /\ FieldsOK(saved.f)
  /\ setts2 # <<>> => FieldsOK(setts2)

\* The loader's first calculation, if it got as far as that, was with the
\* parameters of its file; only the sample's offset was reset afterwards.
TasInv ==
  tas # <<>> =>
    /\ DOMAIN tas = DOMAIN NewTas /\ DOMAIN tas.p = DOMAIN TasParams(tas.src)
    /\ DOMAIN tas.res = DOMAIN Failed /\ FieldsOK(tas.src.f)
    /\ tas.algo = tas.src.f.algo /\ tas.d = tas.src.f.d /\ tas.many \in BOOLEAN
    /\ tas.calls = "none" => tas.p = TasParams(tas.src) /\ tas.angle = Open
    /\ tas.calls = "plain" /\ tas.angle # Open =>
         LET p == [TasParams(tas.src) EXCEPT !.pos = tas.p.pos,
                     !.theta = [pos |-> tas.p.pos, d |-> tas.d]]
         IN tas.p = [p EXCEPT !.offset = 0] /\ tas.res = TasCalc(tas, p)

RsIInv == DialogInv(rd) /\ FilesInv /\ TasInv
==============================================================================
