--------------------------- MODULE ScenesReso_proofs --------------------------
(***************************************************************************)
(* Proofs about the resolution dialog as a listener of the scenes, for any *)
(* numbers of wavenumbers, of angles and of spacings, and any number of    *)
(* events and of calls: after a movement, a change of sense or new         *)
(* variables, the resolution is that of the instrument's position.  They   *)
(* rest on the control, the layouts and the dialogs of Scenes_proofs.      *)
(***************************************************************************)
EXTENDS Scenes_proofs

-----------------------------------------------------------------------------
(* The inductive invariant of ResolutionFollows.  In every state, of the   *)
(* spacings: the triangle has those of the edits and the dialog those of   *)
(* the triangle, or they are to be given them (EditsDue, SpacingDue).      *)
(* After the events that the dialog follows, in each phase of the angles:  *)
(* the parameters of the calculation are those of the triangle or are      *)
(* going to be, and after the last call that can change them the result is *)
(* calculated (PosDue).                                                    *)

\* The functions that end in a call of the resolution dialog with the
\* parameters of the triangle, and those with the angles of the layout.
RecipOps == {"TriangleMoved", "EmitAllParams", "RecipDialogs", "ResoRecip"}
TellerOps == {"EmitAllParams", "RealAngleKiQ", "RealMoved", "RealMovedEnd",
              "RealEmitAllParams", "ResoReal"}

\* What the resolution is calculated from, and the types of the dialog.
Fields == {"ki", "kf", "tt", "mono", "ana", "dm", "da"}
IsPosition(r) == r = [x \in Fields |-> r[x]]
ResoType ==
  /\ DOMAIN reso = {"open", "pars", "result"}
  /\ IsPosition(reso.pars) /\ IsPosition(reso.result)
  /\ DOMAIN update = {"real", "recip"}

\* Spacings that the dialog is going to be given are those of the edits; a
\* file is not loaded while a node is moved.
ResoArg(f, d, m) ==
  /\ f.op = "ResoPars" => f.arg = d
  /\ f.op = "ResoLoad" =>
       IsPosition(f.arg) /\ f.arg.dm = d.mono /\ f.arg.da = d.ana /\ m = "none"
ResoArgs(q, d, m) == \A i \in DOMAIN q : ResoArg(q[i], d, m)

EditsDue == filed \/ "UpdateDs" \in Ops(todo) \/ ds = edits
SpacingDue == reso.open /\ ~filed =>
  \/ {"UpdateDs", "ResoPars"} \cap Ops(todo) # {}
  \/ reso.pars.dm = ds.mono /\ reso.pars.da = ds.ana

\* The dialog listens to the scene in which a node is moved.
UpdateRight == reso.open =>
  /\ pressed = "recip" => update.recip
  /\ pressed \in {"real", "tof"} => update.real

\* The layout is redrawn, and its angles are given to the dialog, before any
\* other call; a sense is set before anything else is under way.
ResoFit(f, O) ==
  /\ O \cap {"RealTriangleChanged", "ResoReal"} = {}
  /\ f.op = "SetSense" => O \subseteq {"SetSense", "TasChanged", "EmitUpdate"}
ResoFits(q) == \A i \in DOMAIN q : ResoFit(q[i], Below(q, i))
LastReal == "ResoReal" \in Ops(todo) =>
  Head(todo).op = "ResoReal" /\ Arg = RealAngles /\ ~dont.real

\* The parameters are those of the triangle, and the result is of them.
WavesRight ==
  /\ reso.pars.ki = tri.ki /\ reso.pars.kf = tri.kf
  /\ reso.pars.tt = FoldedTurn(tri.tt)
CrystalsRight ==
  /\ reso.pars.mono = BraggAngle(tri.ki, ds.mono)
  /\ reso.pars.ana = BraggAngle(tri.kf, ds.ana)
Fresh == \A x \in Fields : reso.result[x] = reso.pars[x]

\* The calls that end in a calculation after which none changes a parameter,
\* u being what the dialog listens to.
Calc(f, O, u) ==
  /\ O \cap (RecipOps \cup TellerOps) = {}
  /\ \/ f.op = "ResoSense" /\ "SetSense" \notin O
     \/ u.recip /\ f.op \in RecipOps
     \/ /\ u.real /\ Reporter(f, O)
        /\ f.op \in {"RealMoved", "RealMovedEnd", "RealEmitAllParams"}
     \/ u.real /\ f.op = "ResoReal"
Calcs(q, u) == \E i \in DOMAIN q : Calc(q[i], Below(q, i), u)

PosDue ==
  /\ WavesRight \/ RecipOps \cap Ops(todo) # {}
  /\ CrystalsRight \/ Reports(todo) \/ "ResoReal" \in Ops(todo)
  /\ Calcs(todo, update) \/ (Fresh /\ WavesRight /\ CrystalsRight)

ResoPhase(w) ==
  \/ Refreshing(w) /\ ("SetSense" \in Ops(todo) \/ Calcs(todo, update))
  \/ Showing(w) /\ PosDue
  \/ Lifting(w) /\ Settled /\ PosDue
  \/ Lifting(w) /\ update.real /\ \E x \in {"mono", "ana", "tt"} : RealUp(x)

ResoFollows == reso.open /\ event \in Follows =>
  ResoFits(todo) /\ LastReal /\ \E w \in Vars : ResoPhase(w)

\* The inductive invariant.
ResoInv ==
  /\ ResoType /\ ResoArgs(todo, edits, pressed)
  /\ EditsDue /\ SpacingDue /\ UpdateRight /\ ResoFollows

-----------------------------------------------------------------------------
(* What these say of calls when one is pushed.                             *)

LEMMA ResoArgsPush ==
  \A f, q, d, m : IsStack(q) =>
    (ResoArgs(Push(f, q), d, m) <=> ResoArg(f, d, m) /\ ResoArgs(q, d, m))
<1> SUFFICES ASSUME NEW f, NEW q, NEW d, NEW m, IsStack(q)
             PROVE ResoArgs(Push(f, q), d, m) <=> ResoArg(f, d, m)
                    /\ ResoArgs(q, d, m)
  OBVIOUS
<1> DEFINE p == Push(f, q)
<1>1. /\ \A i \in DOMAIN p : i = 1 \/ \E j \in DOMAIN q : i = j + 1
      /\ 1 \in DOMAIN p /\ p[1] = f
      /\ \A j \in DOMAIN q : j + 1 \in DOMAIN p /\ p[j + 1] = q[j]
  BY PushIndex
<1> HIDE DEF p
<1>2. ResoArgs(p, d, m) <=> ResoArg(f, d, m) /\ ResoArgs(q, d, m)
  BY <1>1 DEF ResoArgs
<1> QED BY <1>2 DEF p

LEMMA ResoFitsPush ==
  \A f, q : IsStack(q) =>
    (ResoFits(Push(f, q)) <=> ResoFit(f, Ops(q)) /\ ResoFits(q))
<1> SUFFICES ASSUME NEW f, NEW q, IsStack(q)
             PROVE ResoFits(Push(f, q)) <=> ResoFit(f, Ops(q)) /\ ResoFits(q)
  OBVIOUS
<1> DEFINE p == Push(f, q)
<1>1. /\ \A i \in DOMAIN p : i = 1 \/ \E j \in DOMAIN q : i = j + 1
      /\ 1 \in DOMAIN p /\ p[1] = f /\ Below(p, 1) = Ops(q)
      /\ \A j \in DOMAIN q : j + 1 \in DOMAIN p /\ p[j + 1] = q[j]
                              /\ Below(p, j + 1) = Below(q, j)
  BY PushIndex
<1> HIDE DEF p
<1>2. ResoFits(p) <=> ResoFit(f, Ops(q)) /\ ResoFits(q)
  BY <1>1 DEF ResoFits
<1> QED BY <1>2 DEF p

LEMMA CalcsPush ==
  \A f, q, u : IsStack(q) =>
    (Calcs(Push(f, q), u) <=> Calc(f, Ops(q), u) \/ Calcs(q, u))
<1> SUFFICES ASSUME NEW f, NEW q, NEW u, IsStack(q)
             PROVE Calcs(Push(f, q), u) <=> Calc(f, Ops(q), u) \/ Calcs(q, u)
  OBVIOUS
<1> DEFINE p == Push(f, q)
<1>1. /\ \A i \in DOMAIN p : i = 1 \/ \E j \in DOMAIN q : i = j + 1
      /\ 1 \in DOMAIN p /\ p[1] = f /\ Below(p, 1) = Ops(q)
      /\ \A j \in DOMAIN q : j + 1 \in DOMAIN p /\ p[j + 1] = q[j]
                              /\ Below(p, j + 1) = Below(q, j)
  BY PushIndex
<1> HIDE DEF p
<1>2. Calcs(p, u) <=> Calc(f, Ops(q), u) \/ Calcs(q, u)
  BY <1>1 DEF Calcs
<1> QED BY <1>2 DEF p

LEMMA CalcsMore ==
  \A f, q, u : IsStack(q) /\ (Calcs(q, u) \/ Calc(f, Ops(q), u)) =>
    IsStack(Push(f, q)) /\ Calcs(Push(f, q), u)
BY CalcsPush, StackPush

LEMMA OverCalcs == \A p, q, u : Over(p, q) /\ Calcs(q, u) => Calcs(p, u)
<1> SUFFICES ASSUME NEW p, NEW q, NEW u, Over(p, q), Calcs(q, u)
             PROVE Calcs(p, u)
  OBVIOUS
<1>1. \A i \in DOMAIN q : \E j \in DOMAIN p :
        p[j] = q[i] /\ Below(p, j) = Below(q, i)
  BY DEF Over
<1> QED BY <1>1 DEF Calcs

\* No calls, and one.
LEMMA FirstReso ==
  /\ \A d, m : ResoArgs(<<>>, d, m)
  /\ ResoFits(<<>>) /\ \A u : ~Calcs(<<>>, u)
  /\ \A f, d, m : ResoArg(f, d, m) => ResoArgs(<<f>>, d, m)
  /\ \A f : ResoFit(f, {}) => ResoFits(<<f>>)
  /\ \A f, u : Calc(f, {}, u) => Calcs(<<f>>, u)
  /\ \A f : Ops(<<f>>) = {f.op}
<1>1. IsStack(<<>>) /\ Ops(<<>>) = {} /\ DOMAIN <<>> = {} BY EmptyStack
<1>2. \A f : <<f>> = Push(f, <<>>) BY One
<1>3. \A d, m : ResoArgs(<<>>, d, m) BY <1>1 DEF ResoArgs
<1>4. ResoFits(<<>>) /\ \A u : ~Calcs(<<>>, u) BY <1>1 DEF ResoFits, Calcs
<1>5. \A f, d, m : ResoArg(f, d, m) => ResoArgs(Push(f, <<>>), d, m)
  BY <1>1, <1>3, ResoArgsPush
<1>6. \A f : ResoFit(f, {}) => ResoFits(Push(f, <<>>))
      BY <1>1, <1>4, ResoFitsPush
<1>7. \A f, u : Calc(f, {}, u) => Calcs(Push(f, <<>>), u) BY <1>1, CalcsPush
<1>8. \A f : Ops(Push(f, <<>>)) = {f.op} BY <1>1, PushOps
<1> QED BY <1>2, <1>3, <1>4, <1>5, <1>6, <1>7, <1>8

-----------------------------------------------------------------------------
(* What a step adds, and what it leaves of these.                          *)

\* The functions of which only few actions add a call.
Rare == {"SetSense", "UpdateDs", "ResoLoad", "RealTriangleChanged", "ResoReal",
         "ResoPars"}

\* The calls p are calls of q and others, those without a rare one that is not
\* one of q below them.
Adds(p, q) ==
  /\ IsStack(p)
  /\ \A j \in DOMAIN p :
       \/ p[j].op \notin Rare /\ Below(p, j) \cap Rare \subseteq Ops(q)
       \/ \E i \in DOMAIN q : p[j] = q[i] /\ Below(p, j) = Below(q, i)

LEMMA AddsSelf == \A q : IsStack(q) => Adds(q, q)
BY DEF Adds

LEMMA AddsPush ==
  \A f, p, q : Adds(p, q) /\ f.op \notin Rare => Adds(Push(f, p), q)
<1> SUFFICES ASSUME NEW f, NEW p, NEW q, Adds(p, q), f.op \notin Rare
             PROVE Adds(Push(f, p), q)
  OBVIOUS
<1> DEFINE s == Push(f, p)
<1>1. IsStack(p) BY DEF Adds
<1>2. /\ \A i \in DOMAIN s : i = 1 \/ \E j \in DOMAIN p : i = j + 1
      /\ s[1] = f /\ Below(s, 1) = Ops(p)
      /\ \A j \in DOMAIN p : s[j + 1] = p[j] /\ Below(s, j + 1) = Below(p, j)
  BY <1>1, PushIndex
<1>3. IsStack(s) BY <1>1, StackPush
<1> HIDE DEF s
<1>4. Ops(p) \cap Rare \subseteq Ops(q) BY DEF Adds, Ops
<1>5. ASSUME NEW i \in DOMAIN s
      PROVE \/ s[i].op \notin Rare /\ Below(s, i) \cap Rare \subseteq Ops(q)
            \/ \E k \in DOMAIN q : s[i] = q[k] /\ Below(s, i) = Below(q, k)
  <2>1. CASE i = 1 BY <1>2, <1>4, <2>1
  <2>2. CASE i # 1
    <3>1. PICK j \in DOMAIN p : i = j + 1 BY <1>2, <2>2
    <3>2. s[i] = p[j] /\ Below(s, i) = Below(p, j) BY <1>2, <3>1
    <3>3. \/ p[j].op \notin Rare /\ Below(p, j) \cap Rare \subseteq Ops(q)
          \/ \E k \in DOMAIN q : p[j] = q[k] /\ Below(p, j) = Below(q, k)
      BY DEF Adds
    <3> QED BY <3>2, <3>3
  <2> QED BY <2>1, <2>2
<1>6. Adds(s, q) BY <1>3, <1>5 DEF Adds
<1> QED BY <1>6 DEF s

LEMMA AddsSetting ==
  \A o, x, a, p, q : Adds(p, q) /\ o \notin Rare => Adds(Setting(o, x, a, p),
    q)
<1> SUFFICES ASSUME NEW o, NEW x, NEW a, NEW p, NEW q, Adds(p, q),
       o \notin Rare
             PROVE Adds(Setting(o, x, a, p), q)
  OBVIOUS
<1>1. CallWith(o, Only(x, a[x])).op = o BY Calling
<1> QED BY <1>1, AddsPush DEF Setting

\* The calls that are pushed with or without an argument.
LEMMA AddsCall ==
  \A o, p, q : Adds(p, q) /\ o \notin Rare =>
    Adds(Push(CallOf(o), p), q) /\ \A a : Adds(Push(CallWith(o, a), p), q)
BY AddsPush, Calling

LEMMA StepAdds ==
  ASSUME Control, Run, IsStack(Rest),
         ~UpdateDs, ~EmitUpdate, ~TofEmit, ~RealEmitAllParams
  PROVE Adds(todo', Rest)
<1>0. IsStack(todo) /\ Typed(todo) /\ Adds(Rest, Rest) BY AddsSelf DEF Control
<1> DEFINE T(q) == Adds(q, Rest)
<1>a. T(Rest) BY <1>0
<1>b. /\ \A q : T(q) => T(Push(CallOf("EmitUpdate"), q))
      /\ \A q : T(q) => T(Push(CallOf("EmitAllParams"), q))
      /\ \A q : T(q) => T(Push(CallOf("TasChangedEnd"), q))
      /\ \A q : T(q) => T(Push(CallOf("RealTriangleChangedEnd"), q))
      /\ \A q : T(q) => T(Push(CallOf("RealEmitAllParams"), q))
      /\ \A q : T(q) => T(Push(CallOf("TofTriangleChangedEnd"), q))
      /\ \A q : T(q) => T(Push(CallOf("TofMovedEnd"), q))
      /\ \A q : T(q) => T(Push(CallOf("CalcPeaks"), q))
      /\ \A q : T(q) => T(Push(CallOf("SnapToPeak"), q))
      /\ \A q : T(q) => T(Push(CallOf("ResoUpdateOn"), q))
      /\ \A q : T(q) => T(Push(CallOf("ResoSense"), q))
  BY AddsCall DEF Rare
<1>c. /\ \A x, q : T(q) => T(Push(CallWith("TriangleMoved", x), q))
      /\ \A x, q : T(q) => T(Push(CallWith("RealAngleKiQ", x), q))
      /\ \A x, q : T(q) => T(Push(CallWith("TofAngleKiQ", x), q))
      /\ \A x, q : T(q) => T(Push(CallWith("RecipDialogs", x), q))
      /\ \A x, q : T(q) => T(Push(CallWith("ResoRecip", x), q))
      /\ \A x, q : T(q) => T(Push(CallWith("RealMoved", x), q))
      /\ \A x, q : T(q) => T(Push(CallWith("RealMovedFirst", x), q))
      /\ \A x, q : T(q) => T(Push(CallWith("RealMovedEnd", x), q))
      /\ \A x, q : T(q) => T(Push(CallWith("RealEmit", x), q))
      /\ \A x, q : T(q) => T(Push(CallWith("TasChanged", x), q))
      /\ \A x, q : T(q) => T(Push(CallWith("TofTriangleChanged", x), q))
      /\ \A x, q : T(q) => T(Push(CallWith("TofMoved", x), q))
      /\ \A x, q : T(q) => T(Push(CallWith("TofEmit", x), q))
  BY AddsCall DEF Rare
<1>d. /\ \A x, f, q : T(q) => T(Setting("Set", x, f, q))
      /\ \A x, f, q : T(q) => T(Setting("RealSet", x, f, q))
      /\ \A x, f, q : T(q) => T(Setting("TofSet", x, f, q))
  BY AddsSetting DEF Rare
<1>e. /\ \A f, q : T(q) => T(Push(CallWith("Set", f), q))
      /\ \A f, q : T(q) => T(Push(CallWith("RealSet", f), q))
      /\ \A f, q : T(q) => T(Push(CallWith("TofSet", f), q))
  BY AddsCall DEF Rare
<1> SUFFICES T(todo') OBVIOUS
<1> HIDE DEF T
<1>1. CASE TriangleMoved
      BY <1>0, <1>a, <1>b, <1>c, <1>d, <1>e, <1>1, TriangleMovedEffect
<1>3. CASE EmitAllParams
      BY <1>0, <1>a, <1>b, <1>c, <1>d, <1>e, <1>3, EmitAllParamsEffect
<1>4. CASE TasChanged
      BY <1>0, <1>a, <1>b, <1>c, <1>d, <1>e, <1>4, TasChangedEffect
<1>5. CASE TasChangedEnd
      BY <1>0, <1>a, <1>b, <1>c, <1>d, <1>e, <1>5, TasChangedEndEffect
<1>6. CASE Set BY <1>0, <1>a, <1>b, <1>c, <1>d, <1>e, <1>6, SetEffect
<1>7. CASE RealTriangleChanged
      BY <1>0, <1>a, <1>b, <1>c, <1>d, <1>e, <1>7, RealTriangleChangedEffect
<1>8. CASE RealTriangleChangedEnd
      BY <1>0, <1>a, <1>b, <1>c, <1>d, <1>e, <1>8, RealTriangleChangedEndEffect
<1>9. CASE RealSet BY <1>0, <1>a, <1>b, <1>c, <1>d, <1>e, <1>9, RealSetEffect
<1>10. CASE RealAngleKiQ
       BY <1>0, <1>a, <1>b, <1>c, <1>d, <1>e, <1>10, RealAngleKiQEffect
<1>11. CASE RealMoved
       BY <1>0, <1>a, <1>b, <1>c, <1>d, <1>e, <1>11, RealMovedEffect
<1>12. CASE RealMovedEnd
       BY <1>0, <1>a, <1>b, <1>c, <1>d, <1>e, <1>12, RealMovedEndEffect
<1>13. CASE RealEmit
       BY <1>0, <1>a, <1>b, <1>c, <1>d, <1>e, <1>13, RealEmitEffect
<1>15. CASE TofTriangleChanged
       BY <1>0, <1>a, <1>b, <1>c, <1>d, <1>e, <1>15, TofTriangleChangedEffect
<1>16. CASE TofTriangleChangedEnd
       BY <1>0, <1>a, <1>b, <1>c, <1>d, <1>e, <1>16,
         TofTriangleChangedEndEffect
<1>17. CASE TofSet BY <1>0, <1>a, <1>b, <1>c, <1>d, <1>e, <1>17, TofSetEffect
<1>18. CASE TofAngleKiQ
       BY <1>0, <1>a, <1>b, <1>c, <1>d, <1>e, <1>18, TofAngleKiQEffect
<1>19. CASE TofMoved
       BY <1>0, <1>a, <1>b, <1>c, <1>d, <1>e, <1>19, TofMovedEffect
<1>20. CASE TofMovedEnd
       BY <1>0, <1>a, <1>b, <1>c, <1>d, <1>e, <1>20, TofMovedEndEffect
<1>22. CASE RecipDialogs
       BY <1>0, <1>a, <1>b, <1>c, <1>d, <1>e, <1>22, RecipDialogsEffect
<1>23. CASE ResoRecip
       BY <1>0, <1>a, <1>b, <1>c, <1>d, <1>e, <1>23, ResoRecipEffect
<1>24. CASE ResoReal
       BY <1>0, <1>a, <1>b, <1>c, <1>d, <1>e, <1>24, ResoRealEffect
<1>25. CASE ResoPars
       BY <1>0, <1>a, <1>b, <1>c, <1>d, <1>e, <1>25, ResoParsEffect
<1>26. CASE ResoSense
       BY <1>0, <1>a, <1>b, <1>c, <1>d, <1>e, <1>26, ResoSenseEffect
<1>27. CASE ResoLoad
       BY <1>0, <1>a, <1>b, <1>c, <1>d, <1>e, <1>27, ResoLoadEffect
<1>28. CASE ResoUpdateOn
       BY <1>0, <1>a, <1>b, <1>c, <1>d, <1>e, <1>28, ResoUpdateOnEffect
<1>30. CASE SetSense
       BY <1>0, <1>a, <1>b, <1>c, <1>d, <1>e, <1>30, SetSenseEffect
<1>31. CASE CalcPeaks
       BY <1>0, <1>a, <1>b, <1>c, <1>d, <1>e, <1>31, CalcPeaksEffect
<1>32. CASE LoadEnd BY <1>0, <1>a, <1>b, <1>c, <1>d, <1>e, <1>32, LoadEndEffect
<1>33. CASE SnapToPeak
       BY <1>0, <1>a, <1>b, <1>c, <1>d, <1>e, <1>33, SnapToPeakEffect
<1> QED
  BY <1>1, <1>3, <1>4, <1>5, <1>6, <1>7, <1>8, <1>9, <1>10, <1>11, <1>12,
    <1>13, <1>15, <1>16, <1>17, <1>18, <1>19, <1>20, <1>22, <1>23, <1>24,
      <1>25, <1>26, <1>27, <1>28, <1>30, <1>31, <1>32, <1>33
     DEF Run, RealLayout, TofLayout, Dialogs, MainWindow

\* What stays as it is.
LEMMA StepStays ==
  ASSUME Run
  PROVE /\ UNCHANGED <<edits, pressed, event>>
        /\ UpdateDs \/ UNCHANGED <<ds, filed>>
        /\ ResoLoad \/ ResoUpdateOn \/ update' = update
        /\ ResoRecip \/ ResoReal \/ ResoPars \/ ResoSense \/ ResoLoad
             \/ reso' = reso
BY DEF Run, RealLayout, TofLayout, Dialogs, MainWindow,
       TriangleMoved, EmitUpdate, EmitAllParams, TasChanged, TasChangedEnd,
         Set,
       RealTriangleChanged, RealTriangleChangedEnd, RealSet, RealAngleKiQ,
       RealMoved, RealMovedEnd, RealEmit, RealEmitAllParams,
       TofTriangleChanged, TofTriangleChangedEnd, TofSet, TofAngleKiQ,
       TofMoved, TofMovedEnd, TofEmit, RecipDialogs, ResoRecip, ResoReal,
       ResoPars, ResoSense, ResoLoad, ResoUpdateOn, UpdateDs, SetSense,
       CalcPeaks, SnapToPeak, LoadEnd, settings, optics, dialogs, mouse

-----------------------------------------------------------------------------
(* The types, the spacings and what the dialog listens to, in a step.      *)

LEMMA CalculatedIs ==
  ASSUME ResoType, NEW p, NEW now, Calculated(p, now)
  PROVE /\ DOMAIN reso' = DOMAIN reso /\ reso'.open = reso.open
        /\ reso'.pars = p
        /\ now => reso'.result = p
        /\ ~now => reso'.result = reso.result
BY DEF ResoType, Calculated

\* What each of the calls makes of the parameters.
LEMMA ParsOf ==
  ASSUME Control, Run, ResoType
  PROVE LET r == reso.pars IN
    /\ ResoRecip => Calculated([r EXCEPT !.ki = Arg.tri.ki, !.kf = Arg.tri.kf,
                                         !.tt = FoldedTurn(Arg.tri.tt)],
                                           update.recip)
    /\ ResoReal => Calculated([r EXCEPT !.mono = Abs(Arg.mono),
         !.ana = Abs(Arg.ana),
                                        !.tt = FoldedTurn(Arg.tt)],
                                          update.real)
    /\ ResoPars => IF reso.open
                   THEN Calculated([r EXCEPT !.dm = Arg.mono, !.da = Arg.ana],
                     TRUE)
                   ELSE reso' = reso
    /\ ResoSense => IF reso.open THEN Calculated(r, TRUE) ELSE reso' = reso
    /\ ResoLoad => Calculated(Arg, TRUE)
    /\ ~(ResoRecip \/ ResoReal \/ ResoPars \/ ResoSense \/ ResoLoad)
         => reso' = reso
BY StepStays DEF ResoRecip, ResoReal, ResoPars, ResoSense, ResoLoad

LEMMA ResoActs ==
  ASSUME Run
  PROVE /\ At("UpdateDs") => UpdateDs
        /\ At("ResoRecip") => ResoRecip
        /\ At("ResoReal") => ResoReal
        /\ At("ResoPars") => ResoPars
        /\ At("ResoSense") => ResoSense
BY DEF Run, RealLayout, TofLayout, Dialogs, MainWindow, At,
       TriangleMoved, EmitUpdate, EmitAllParams, TasChanged, TasChangedEnd,
         Set,
       RealTriangleChanged, RealTriangleChangedEnd, RealSet, RealAngleKiQ,
       RealMoved, RealMovedEnd, RealEmit, RealEmitAllParams,
       TofTriangleChanged, TofTriangleChangedEnd, TofSet, TofAngleKiQ,
       TofMoved, TofMovedEnd, TofEmit, RecipDialogs, ResoRecip, ResoReal,
       ResoPars, ResoSense, ResoLoad, ResoUpdateOn, UpdateDs, SetSense,
       CalcPeaks, SnapToPeak, LoadEnd

LEMMA ResoTypeRun ==
  ASSUME Control, Run, ResoType, ResoArgs(todo, edits, pressed), todo # <<>>,
         IsStack(Rest), todo = Push(Head(todo), Rest)
  PROVE ResoType' /\ reso'.open = reso.open
<1>1. IsStack(todo) BY DEF Control
<1> DEFINE r == reso.pars
<1>2. IsPosition(r) /\ IsPosition(reso.result)
      /\ DOMAIN update = {"real", "recip"}
  BY DEF ResoType
<1>20. DOMAIN r = Fields BY <1>2 DEF IsPosition
<1>3. DOMAIN update' = {"real", "recip"}
  <2>1. ResoLoad \/ ResoUpdateOn => DOMAIN update' = {"real", "recip"}
    BY <1>1, ResoLoadEffect, ResoUpdateOnEffect
  <2> QED BY <1>2, <2>1, StepStays
<1>4. ASSUME NEW p, NEW now, Calculated(p, now), IsPosition(p)
      PROVE ResoType' /\ reso'.open = reso.open
  <2>1. /\ DOMAIN reso' = DOMAIN reso /\ reso'.open = reso.open
             /\ reso'.pars = p
        /\ reso'.result = p \/ reso'.result = reso.result
    BY <1>4, CalculatedIs
  <2>2. IsPosition(reso'.pars) /\ IsPosition(reso'.result) BY <1>2, <1>4, <2>1
  <2>3. IsPosition(reso.pars)' /\ IsPosition(reso.result)'
        BY <2>2 DEF IsPosition
  <2> QED BY <1>3, <2>1, <2>3 DEF ResoType
<1>5. reso' = reso => ResoType' /\ reso'.open = reso.open
  BY <1>3 DEF ResoType, IsPosition
<1>6. CASE ResoRecip
  <2> DEFINE p == [r EXCEPT !.ki = Arg.tri.ki, !.kf = Arg.tri.kf,
                         !.tt = FoldedTurn(Arg.tri.tt)]
  <2>1. DOMAIN p = Fields /\ p = [y \in DOMAIN p |-> p[y]] BY <1>20
  <2>2. Calculated(p, update.recip) BY <1>6, ParsOf
  <2> HIDE DEF p
  <2>3. IsPosition(p) BY <2>1 DEF IsPosition
  <2> QED BY <1>4, <1>5, <2>2, <2>3
<1>7. CASE ResoReal
  <2> DEFINE p == [r EXCEPT !.mono = Abs(Arg.mono), !.ana = Abs(Arg.ana),
                         !.tt = FoldedTurn(Arg.tt)]
  <2>1. DOMAIN p = Fields /\ p = [y \in DOMAIN p |-> p[y]] BY <1>20
  <2>2. Calculated(p, update.real) BY <1>7, ParsOf
  <2> HIDE DEF p
  <2>3. IsPosition(p) BY <2>1 DEF IsPosition
  <2> QED BY <1>4, <1>5, <2>2, <2>3
<1>8. CASE ResoPars
  <2> DEFINE p == [r EXCEPT !.dm = Arg.mono, !.da = Arg.ana]
  <2>1. DOMAIN p = Fields /\ p = [y \in DOMAIN p |-> p[y]] BY <1>20
  <2>2. reso' = reso \/ Calculated(p, TRUE) BY <1>8, ParsOf
  <2> HIDE DEF p
  <2>3. IsPosition(p) BY <2>1 DEF IsPosition
  <2> QED BY <1>4, <1>5, <2>2, <2>3
<1>9. CASE ResoSense BY <1>2, <1>4, <1>5, <1>9, ParsOf
<1>10. CASE ResoLoad
  <2>1. Head(todo).op = "ResoLoad" /\ Arg = Head(todo).arg
    BY <1>1, <1>10, ResoLoadEffect DEF Arg
  <2> DEFINE h == Head(todo)
  <2>2. todo = Push(h, Rest) OBVIOUS
  <2> HIDE DEF h
  <2>3. ResoArg(h, edits, pressed) BY <2>2, ResoArgsPush
  <2>4. IsPosition(Arg) BY <2>1, <2>3 DEF ResoArg, h
  <2> QED BY <1>4, <1>10, <2>4, ParsOf
<1> QED BY <1>5, <1>6, <1>7, <1>8, <1>9, <1>10, ParsOf

\* The four actions that add a rare call, or none.
LEMMA StepPushes ==
  ASSUME Control, Run, IsStack(Rest), todo = Push(Head(todo), Rest)
  PROVE \/ Adds(todo', Rest)
        \/ /\ UpdateDs
           /\ todo' = Push(CallOf("EmitUpdate"),
                Push(CallWith("ResoPars", edits), Rest))
        \/ /\ EmitUpdate
           /\ todo' = Push(CallWith("RealTriangleChanged", TriangleAngles),
                        Push(CallWith("TofTriangleChanged", TriangleAngles),
                          Rest))
        \/ /\ TofEmit /\ ~dont.tof
           /\ todo' = Push(CallWith("TasChanged", Arg),
                        Push(CallWith("RealTriangleChanged", Arg), Rest))
        \/ /\ RealEmitAllParams /\ ready.real /\ ~dont.real /\ reso.open
           /\ todo' = Push(CallWith("ResoReal", RealAngles), Rest)
<1>1. IsStack(todo) /\ Adds(Rest, Rest) BY AddsSelf DEF Control
<1>2. CASE UpdateDs BY <1>1, <1>2, UpdateDsEffect
<1>3. CASE EmitUpdate BY <1>1, <1>3, EmitUpdateEffect
<1>4. CASE TofEmit BY <1>1, <1>4, TofEmitEffect
<1>5. CASE RealEmitAllParams BY <1>1, <1>5, RealEmitAllParamsEffect
<1> QED BY <1>2, <1>3, <1>4, <1>5, StepAdds

LEMMA ResoArgsRun ==
  ASSUME Control, Run, IsStack(Rest), todo = Push(Head(todo), Rest),
         ResoArgs(todo, edits, pressed)
  PROVE ResoArgs(todo', edits, pressed)
<1> DEFINE h == Head(todo)
           G(q) == IsStack(q) /\ ResoArgs(q, edits, pressed)
           S(f) == f.op \notin {"ResoPars", "ResoLoad"}
<1>1. G(Rest) /\ ResoArg(h, edits, pressed)
  <2>1. todo = Push(h, Rest) OBVIOUS
  <2> HIDE DEF h
  <2> QED BY <2>1, ResoArgsPush
<1>2. \A f, q : G(q) /\ (S(f) \/ ResoArg(f, edits, pressed)) => G(Push(f, q))
  BY ResoArgsPush, StackPush DEF ResoArg
<1>3. CASE Adds(todo', Rest)
  <2>1. ASSUME NEW j \in DOMAIN todo' PROVE ResoArg(todo'[j], edits, pressed)
    <3>1. CASE todo'[j].op \notin Rare BY <3>1 DEF Rare, ResoArg
    <3>2. CASE \E i \in DOMAIN Rest : todo'[j] = Rest[i]
      <4>1. \A i \in DOMAIN Rest : ResoArg(Rest[i], edits, pressed)
            BY <1>1 DEF ResoArgs
      <4> QED BY <3>2, <4>1
    <3> QED BY <1>3, <3>1, <3>2 DEF Adds
  <2> QED BY <2>1 DEF ResoArgs
<1> DEFINE u == CallOf("EmitUpdate")
           p == CallWith("ResoPars", edits)
           r(a) == CallWith("RealTriangleChanged", a)
           t(a) == CallWith("TofTriangleChanged", a)
           k(a) == CallWith("TasChanged", a)
           z == CallWith("ResoReal", RealAngles)
<1>4. S(u) /\ S(z) /\ p.op = "ResoPars" /\ p.arg = edits
      /\ \A a : S(r(a)) /\ S(t(a)) /\ S(k(a))
  BY Calling
<1>5. \/ todo' = Push(u, Push(p, Rest))
           \/ (\E a : todo' = Push(r(a), Push(t(a), Rest)))
      \/ (\E a : todo' = Push(k(a), Push(r(a), Rest))) \/ todo' = Push(z, Rest)
      \/ Adds(todo', Rest)
  BY StepPushes
<1>6. ResoArg(p, edits, pressed) BY <1>4 DEF ResoArg
<1> HIDE DEF G, S, u, p, r, t, k, z
<1>7. G(Push(u, Push(p, Rest))) BY <1>1, <1>2, <1>4, <1>6
<1>8. \A a : G(Push(r(a), Push(t(a), Rest)))
  <2>1. \A a : G(Push(t(a), Rest)) BY <1>1, <1>2, <1>4
  <2> QED BY <1>2, <1>4, <2>1
<1>9. \A a : G(Push(k(a), Push(r(a), Rest)))
  <2>1. \A a : G(Push(r(a), Rest)) BY <1>1, <1>2, <1>4
  <2> QED BY <1>2, <1>4, <2>1
<1>10. G(Push(z, Rest)) BY <1>1, <1>2, <1>4
<1>11. G(todo') \/ Adds(todo', Rest) BY <1>5, <1>7, <1>8, <1>9, <1>10
<1> QED BY <1>3, <1>11 DEF G

LEMMA DueRun ==
  ASSUME Control, Run, IsStack(Rest), todo = Push(Head(todo), Rest),
    todo # <<>>,
         ResoType, ResoArgs(todo, edits, pressed), EditsDue, SpacingDue,
           UpdateRight
  PROVE EditsDue' /\ SpacingDue' /\ UpdateRight'
<1> DEFINE h == Head(todo)
           r == reso.pars
<1>1. IsStack(todo) /\ \A o : h.op = o => At(o) BY RunHead DEF Control
<1>2. reso'.open = reso.open /\ UNCHANGED <<edits, pressed>>
  BY ResoTypeRun, StepStays
<1>3. Ops(Rest) \subseteq Ops(todo') /\ Ops(todo) = {h.op} \cup Ops(Rest)
  <2>1. todo = Push(h, Rest) OBVIOUS
  <2> HIDE DEF h
  <2>2. Ops(todo) = {h.op} \cup Ops(Rest) BY <2>1, PushOps
  <2>3. Over(todo', Rest) BY StepOver
  <2> QED BY <2>2, <2>3, OverKeeps
<1>4. ResoArg(h, edits, pressed)
  <2>1. todo = Push(h, Rest) OBVIOUS
  <2> HIDE DEF h
  <2> QED BY <2>1, ResoArgsPush
<1>5. Arg = h.arg BY DEF Arg
<1>6. CASE UpdateDs
  <2> DEFINE p == CallWith("ResoPars", edits)
             q == Push(p, Rest)
             u == CallOf("EmitUpdate")
  <2>1. ds' = edits /\ update' = update /\ todo' = Push(u, q)
    BY <1>1, <1>6, UpdateDsEffect
  <2>2. "ResoPars" \in Ops(todo')
    <3>1. p.op = "ResoPars" BY Calling
    <3> HIDE DEF p, u
    <3>2. IsStack(q) /\ Ops(q) = {p.op} \cup Ops(Rest) BY StackPush, PushOps
    <3> HIDE DEF q
    <3>3. Ops(todo') = {u.op} \cup Ops(q) BY <2>1, <3>2, PushOps
    <3> QED BY <3>1, <3>2, <3>3
  <2> QED BY <1>2, <2>1, <2>2 DEF EditsDue, SpacingDue, UpdateRight
<1>7. CASE ~UpdateDs
  <2>1. UNCHANGED <<ds, filed>> BY <1>7, StepStays
  <2>2. h.op # "UpdateDs" BY <1>1, <1>7, ResoActs
  <2>3. EditsDue' BY <1>2, <1>3, <2>1, <2>2 DEF EditsDue
  <2>4. UpdateRight'
    <3>1. CASE ResoLoad
      <4>1. h.op = "ResoLoad" BY <1>1, <3>1, ResoLoadEffect
      <4> QED BY <1>2, <1>4, <4>1 DEF ResoArg, UpdateRight
    <3>2. CASE ResoUpdateOn
      <4>1. update'.real /\ update'.recip BY <1>1, <3>2, ResoUpdateOnEffect
      <4> QED BY <4>1 DEF UpdateRight
    <3>3. CASE ~ResoLoad /\ ~ResoUpdateOn
      <4>1. update' = update BY <3>3, StepStays
      <4> QED BY <1>2, <4>1 DEF UpdateRight
    <3> QED BY <3>1, <3>2, <3>3
  <2>5. ASSUME reso.open, ~filed, {"UpdateDs", "ResoPars"} \cap Ops(todo') = {}
        PROVE reso'.pars.dm = ds.mono /\ reso'.pars.da = ds.ana
    <3>1. "UpdateDs" \notin Ops(todo) /\ "ResoPars" \notin Ops(Rest)
      BY <1>3, <2>2, <2>5
    <3>2. ds = edits BY <2>5, <3>1 DEF EditsDue
    <3>3. DOMAIN r = Fields BY DEF ResoType, IsPosition
    <3>4. h.op = "ResoPars" \/ (r.dm = ds.mono /\ r.da = ds.ana)
      BY <1>3, <2>5, <3>1 DEF SpacingDue
    <3>5. \A p, now : Calculated(p, now) => reso'.pars = p BY CalculatedIs
    <3>6. CASE ResoPars
      <4>1. h.op = "ResoPars" BY <1>1, <3>6, ResoParsEffect
      <4>2. Arg = edits BY <1>4, <1>5, <4>1 DEF ResoArg
      <4>3. reso'.pars = [r EXCEPT !.dm = Arg.mono, !.da = Arg.ana]
        BY <2>5, <3>5, <3>6, ParsOf
      <4> QED BY <3>2, <3>3, <4>2, <4>3 DEF Fields
    <3>7. CASE ResoLoad
      <4>1. h.op = "ResoLoad" BY <1>1, <3>7, ResoLoadEffect
      <4>2. Arg.dm = edits.mono /\ Arg.da = edits.ana
            BY <1>4, <1>5, <4>1 DEF ResoArg
      <4>3. reso'.pars = Arg BY <3>5, <3>7, ParsOf
      <4> QED BY <3>2, <4>2, <4>3
    <3>8. CASE ~ResoPars /\ ~ResoLoad
      <4>1. h.op # "ResoPars" BY <1>1, <3>8, ResoActs
      <4>2. CASE ResoRecip
        <5>1. reso'.pars = [r EXCEPT !.ki = Arg.tri.ki, !.kf = Arg.tri.kf,
                                     !.tt = FoldedTurn(Arg.tri.tt)]
          BY <3>5, <4>2, ParsOf
        <5> QED BY <3>3, <3>4, <4>1, <5>1 DEF Fields
      <4>3. CASE ResoReal
        <5>1. reso'.pars = [r EXCEPT !.mono = Abs(Arg.mono),
              !.ana = Abs(Arg.ana),
                                     !.tt = FoldedTurn(Arg.tt)]
          BY <3>5, <4>3, ParsOf
        <5> QED BY <3>3, <3>4, <4>1, <5>1 DEF Fields
      <4>4. CASE ResoSense
        <5>1. reso'.pars = r BY <2>5, <3>5, <4>4, ParsOf
        <5> QED BY <3>4, <4>1, <5>1
      <4>5. CASE ~ResoRecip /\ ~ResoReal /\ ~ResoSense
        <5>1. reso' = reso BY <3>8, <4>5, ParsOf
        <5> QED BY <3>4, <4>1, <5>1
      <4> QED BY <4>2, <4>3, <4>4, <4>5
    <3> QED BY <3>6, <3>7, <3>8
  <2>6. SpacingDue' BY <1>2, <2>1, <2>5 DEF SpacingDue
  <2> QED BY <2>3, <2>4, <2>6
<1> QED BY <1>6, <1>7

-----------------------------------------------------------------------------
(* The rare calls after the events that the dialog follows.                *)

LEMMA RareRun ==
  ASSUME Control, Run, IsStack(Rest), todo = Push(Head(todo), Rest),
         NEW c, Fits(todo, c), ResoFits(todo)
  PROVE ResoFits(todo') /\ LastReal'
<1> DEFINE h == Head(todo)
           O == Ops(Rest)
           R == {"RealTriangleChanged", "ResoReal"}
           G(q) == IsStack(q) /\ ResoFits(q) /\ Ops(q) \cap R = {}
<1>1. IsStack(todo) BY DEF Control
<1>2. ResoFit(h, O) /\ G(Rest)
  <2>1. todo = Push(h, Rest) OBVIOUS
  <2> HIDE DEF h
  <2> QED BY <2>1, ResoFitsPush DEF ResoFit
<1>3. Fit(h, O, c) /\ Ops(todo) = {h.op} \cup O
      /\ (dont.tof <=> "TofTriangleChangedEnd" \in Ops(todo))
  BY FitHead
<1>4. \A f, q : G(q) /\ f.op # "SetSense" =>
        /\ IsStack(Push(f, q)) /\ ResoFits(Push(f, q))
        /\ Ops(Push(f, q)) = {f.op} \cup Ops(q)
  BY ResoFitsPush, StackPush, PushOps DEF ResoFit
<1>5. CASE Adds(todo', Rest)
  <2>1. ASSUME NEW j \in DOMAIN todo' PROVE ResoFit(todo'[j], Below(todo', j))
    <3>1. CASE todo'[j].op \notin Rare
          /\ Below(todo', j) \cap Rare \subseteq Ops(Rest)
      BY <1>2, <3>1 DEF Rare, ResoFit
    <3>2. CASE \E i \in DOMAIN Rest : todo'[j] = Rest[i]
          /\ Below(todo', j) = Below(Rest, i)
      <4>1. \A i \in DOMAIN Rest : ResoFit(Rest[i], Below(Rest, i))
            BY <1>2 DEF ResoFits
      <4> QED BY <3>2, <4>1
    <3> QED BY <1>5, <3>1, <3>2 DEF Adds
  <2>2. "ResoReal" \notin Ops(todo')
    <3>1. SUFFICES ASSUME NEW j \in DOMAIN todo', todo'[j].op = "ResoReal"
           PROVE FALSE
      BY DEF Ops
    <3>2. \E i \in DOMAIN Rest : todo'[j] = Rest[i]
          BY <1>5, <3>1 DEF Adds, Rare
    <3>3. "ResoReal" \in Ops(Rest) BY <3>1, <3>2 DEF Ops
    <3> QED BY <1>2, <3>3
  <2> QED BY <2>1, <2>2 DEF ResoFits, LastReal
<1>6. CASE UpdateDs
  <2>1. h.op = "UpdateDs" BY <1>1, <1>6, UpdateDsEffect
  <2> QED BY <1>3, <2>1 DEF Fit, FollowOps
<1>7. CASE EmitUpdate
      /\ todo' = Push(CallWith("RealTriangleChanged", TriangleAngles),
                        Push(CallWith("TofTriangleChanged", TriangleAngles),
                          Rest))
  <2> DEFINE f == CallWith("RealTriangleChanged", TriangleAngles)
             g == CallWith("TofTriangleChanged", TriangleAngles)
             p == Push(g, Rest)
  <2>1. f.op = "RealTriangleChanged" /\ g.op = "TofTriangleChanged" BY Calling
  <2>2. todo' = Push(f, p) BY <1>7
  <2> HIDE DEF f, g
  <2>3. IsStack(p) /\ ResoFits(p) /\ Ops(p) = {g.op} \cup O BY <1>2, <1>4, <2>1
  <2> HIDE DEF p
  <2>4. G(p) BY <1>2, <2>1, <2>3
  <2>5. ResoFits(todo') /\ Ops(todo') = {f.op} \cup Ops(p)
        BY <1>4, <2>1, <2>2, <2>4
  <2>6. "ResoReal" \notin Ops(todo') BY <2>1, <2>4, <2>5
  <2> QED BY <2>5, <2>6 DEF LastReal
<1>8. CASE TofEmit /\ ~dont.tof
  <2>1. h.op = "TofEmit" BY <1>1, <1>8, TofEmitEffect
  <2> QED BY <1>3, <1>8, <2>1 DEF Fit, TofLifts
<1>9. CASE /\ RealEmitAllParams /\ ready.real /\ ~dont.real
           /\ todo' = Push(CallWith("ResoReal", RealAngles), Rest)
  <2> DEFINE f == CallWith("ResoReal", RealAngles)
  <2>1. f.op = "ResoReal" /\ f.arg = RealAngles BY Calling
  <2>2. UNCHANGED <<real, dont>> BY <1>1, <1>9, RealEmitAllParamsEffect
  <2>3. RealAngles' = RealAngles BY <2>2 DEF RealAngles
  <2>4. todo' = Push(f, Rest) BY <1>9
  <2> HIDE DEF f
  <2>5. ResoFits(todo') BY <1>2, <1>4, <2>1, <2>4
  <2>6. Head(todo') = f BY <1>2, <2>4, PushParts
  <2> QED BY <1>9, <2>1, <2>2, <2>3, <2>5, <2>6 DEF LastReal, Arg
<1> QED BY <1>5, <1>6, <1>7, <1>8, <1>9, StepPushes

-----------------------------------------------------------------------------
(* What the calls of the dialog make of the parameters and of the result.  *)

Right == Fresh /\ WavesRight /\ CrystalsRight

\* The parameters p of which the result is calculated now or later.
LEMMA CalculatedFresh ==
  ASSUME ResoType, NEW p, NEW now, Calculated(p, now)
  PROVE /\ now => Fresh'
        /\ Fresh /\ (\A x \in Fields : p[x] = reso.pars[x]) => Fresh'
<1>1. /\ reso'.pars = p /\ (now => reso'.result = p)
      /\ (~now => reso'.result = reso.result)
  BY CalculatedIs
<1> QED BY <1>1 DEF Fresh

LEMMA RecipGives ==
  ASSUME Control, Run, ResoType, ResoRecip, Arg = Params
  PROVE /\ WavesRight' /\ (CrystalsRight => CrystalsRight')
        /\ update.recip \/ Right => Fresh'
<1> DEFINE r == reso.pars
           p == [r EXCEPT !.ki = Arg.tri.ki, !.kf = Arg.tri.kf,
                          !.tt = FoldedTurn(Arg.tri.tt)]
<1>1. Calculated(p, update.recip) BY ParsOf
<1>2. DOMAIN r = Fields BY DEF ResoType, IsPosition
<1>3. UNCHANGED <<tri, ds>> BY DEF ResoRecip, nodes, optics
<1>4. /\ p.ki = tri.ki /\ p.kf = tri.kf /\ p.tt = FoldedTurn(tri.tt)
      /\ \A x \in Fields \ {"ki", "kf", "tt"} : p[x] = r[x]
  BY <1>2 DEF Params, Fields
<1> HIDE DEF p
<1>5. reso'.pars = p BY <1>1, CalculatedIs
<1>6. WavesRight' BY <1>3, <1>4, <1>5 DEF WavesRight
<1>7. CrystalsRight => CrystalsRight'
      BY <1>3, <1>4, <1>5 DEF CrystalsRight, Fields
<1>8. WavesRight => \A x \in Fields : p[x] = r[x]
      BY <1>4 DEF WavesRight, Fields
<1> QED BY <1>1, <1>6, <1>7, <1>8, CalculatedFresh DEF Right

LEMMA RealGives ==
  ASSUME Control, Run, ResoType, ResoReal, Arg = RealAngles,
         \A x \in {"mono", "ana", "tt"} : Like(x, real[x], TriangleAngles[x])
  PROVE /\ CrystalsRight' /\ (WavesRight => WavesRight')
        /\ update.real \/ Right => Fresh'
<1> DEFINE r == reso.pars
           m == Abs(Arg.mono)
           n == Abs(Arg.ana)
           t == FoldedTurn(Arg.tt)
           p == [r EXCEPT !.mono = m, !.ana = n, !.tt = t]
<1>1. Calculated(p, update.real) BY ParsOf
<1>2. DOMAIN r = Fields BY DEF ResoType, IsPosition
<1>3. UNCHANGED <<tri, ds>> BY DEF ResoReal, nodes, optics
<1>4. /\ m = BraggAngle(tri.ki, ds.mono) /\ n = BraggAngle(tri.kf, ds.ana)
      /\ t = FoldedTurn(tri.tt)
  <2>1. Arg.mono = real.mono /\ Arg.ana = real.ana /\ Arg.tt = real.tt
    BY DEF RealAngles
  <2>2. DataType /\ tri.tt \in Turns /\ sense.sample \in BOOLEAN
    BY DEF Control, DataType
  <2>3. /\ Abs(real.mono) = Abs(TriangleAngles.mono)
        /\ Abs(real.ana) = Abs(TriangleAngles.ana)
        /\ real.tt = TriangleAngles.tt
    BY DEF Like, Crystals
  <2>4. TriangleAngles.tt = Turn(tri.tt, sense.sample) BY DEF TriangleAngles
  <2> QED BY <2>1, <2>2, <2>3, <2>4, AnglesTyped, TurnTwice
<1> HIDE DEF m, n, t
<1>5. /\ p.mono = m /\ p.ana = n /\ p.tt = t
      /\ \A x \in Fields \ {"mono", "ana", "tt"} : p[x] = r[x]
  BY <1>2 DEF Fields
<1> HIDE DEF p
<1>6. reso'.pars = p BY <1>1, CalculatedIs
<1>7. CrystalsRight' BY <1>3, <1>4, <1>5, <1>6 DEF CrystalsRight
<1>8. WavesRight => WavesRight'
      BY <1>3, <1>4, <1>5, <1>6 DEF WavesRight, Fields
<1>9. WavesRight /\ CrystalsRight => \A x \in Fields : p[x] = r[x]
  BY <1>4, <1>5 DEF WavesRight, CrystalsRight, Fields
<1> QED BY <1>1, <1>7, <1>8, <1>9, CalculatedFresh DEF Right

LEMMA SenseGives ==
  ASSUME Control, Run, ResoType, ResoSense, reso.open
  PROVE /\ WavesRight => WavesRight'
        /\ CrystalsRight => CrystalsRight'
        /\ Fresh'
<1>1. Calculated(reso.pars, TRUE) BY ParsOf
<1>2. UNCHANGED <<tri, ds>> BY DEF ResoSense, nodes, optics
<1>3. reso'.pars = reso.pars BY <1>1, CalculatedIs
<1> QED BY <1>1, <1>2, <1>3, CalculatedFresh DEF WavesRight, CrystalsRight

\* All of them, while the triangle stays as it is.
LEMMA ResoGives ==
  ASSUME Control, Run, ResoType, reso.open, IsStack(Rest),
    todo = Push(Head(todo), Rest),
         NEW c, Fits(todo, c), Current(c), LastReal, UNCHANGED <<tri, ds>>,
         ResoReal => \A x \in {"mono", "ana", "tt"} : Like(x, real[x],
           TriangleAngles[x])
  PROVE /\ WavesRight => WavesRight'
        /\ CrystalsRight => CrystalsRight'
        /\ ResoRecip => WavesRight'
        /\ ResoReal => CrystalsRight'
        /\ Right => Right'
        /\ \/ ResoSense \/ (ResoRecip /\ update.recip)
                \/ (ResoReal /\ update.real)
           => Fresh'
<1> DEFINE h == Head(todo)
<1>1. IsStack(todo) /\ Arg = h.arg BY DEF Control, Arg
<1>2. Fit(h, Ops(Rest), c) /\ Ops(todo) = {h.op} \cup Ops(Rest) BY FitHead
<1>3. ResoRecip => Arg = Params
  BY <1>1, <1>2, ResoRecipEffect DEF Fit, ParOps, Current
<1>4. ResoReal => Arg = RealAngles
  BY <1>1, <1>2, ResoRealEffect DEF LastReal
<1>5. ~ResoPars /\ ~ResoLoad
  BY <1>1, <1>2, ResoParsEffect, ResoLoadEffect DEF Fit, FollowOps
<1>6. CASE ResoRecip
  <2>1. ~ResoReal /\ ~ResoSense
    BY <1>1, <1>6, ResoRecipEffect, ResoRealEffect, ResoSenseEffect
  <2> QED BY <1>3, <1>6, <2>1, RecipGives DEF Right
<1>7. CASE ResoReal
  <2>1. ~ResoRecip /\ ~ResoSense
    BY <1>1, <1>7, ResoRecipEffect, ResoRealEffect, ResoSenseEffect
  <2> QED BY <1>4, <1>7, <2>1, RealGives DEF Right
<1>8. CASE ResoSense
  <2>1. ~ResoRecip /\ ~ResoReal
    BY <1>1, <1>8, ResoRecipEffect, ResoRealEffect, ResoSenseEffect
  <2> QED BY <1>8, <2>1, SenseGives DEF Right
<1>9. CASE ~ResoRecip /\ ~ResoReal /\ ~ResoSense
  <2>1. reso' = reso BY <1>5, <1>9, ParsOf
  <2> QED BY <1>9, <2>1 DEF Right, Fresh, WavesRight, CrystalsRight
<1> QED BY <1>6, <1>7, <1>8, <1>9

-----------------------------------------------------------------------------
(* As long as the triangle stays as it is.                                 *)

Makes ==
  ResoSense \/ (ResoRecip /\ update.recip) \/ (ResoReal /\ update.real)

\* The call that ends in a calculation calls another one that does, until it is
\* made.
LEMMA CalcerStep ==
  ASSUME Control, Run, reso.open, IsStack(Rest), todo = Push(Head(todo), Rest),
         NEW c, Fits(todo, c), Calc(Head(todo), Ops(Rest), update)
  PROVE Calcs(todo', update) \/ Makes
<1>1. IsStack(todo) /\ Typed(todo) BY DEF Control
<1> DEFINE h == Head(todo)
           O == Ops(Rest)
           U == update
           T(q) == IsStack(q) /\ Calcs(q, U)
<1>2. /\ ready.tri /\ ready.real /\ Ops(todo) = {h.op} \cup O
      /\ dont.real <=> "RealTriangleChangedEnd" \in Ops(todo)
      /\ busy.real <=> "RealMovedEnd" \in Ops(todo)
  BY FitHead
<1>3. Arg = h.arg /\ \A o : h.op = o => At(o) BY RunHead DEF Arg
<1>4. O \cap (RecipOps \cup TellerOps) = {} BY DEF Calc
<1>5. \A f, q : T(q) => T(Push(f, q)) BY CalcsMore
<1>6. \A f : Calc(f, O, U) => T(Push(f, Rest)) BY CalcsMore
<1> HIDE DEF T
<1>7. T(todo') => Calcs(todo', update) BY DEF T
<1>8. CASE h.op = "ResoSense" BY <1>3, <1>8, ResoActs DEF Makes
<1>9. CASE U.recip /\ h.op \in RecipOps
  <2>1. \A f : f.op \in RecipOps => T(Push(f, Rest))
        BY <1>4, <1>6, <1>9 DEF Calc
  <2>2. CASE h.op = "TriangleMoved"
    <3> DEFINE t == CallWith("TriangleMoved", "Gq")
               u == CallOf("EmitUpdate")
               a == CallOf("EmitAllParams")
    <3>1. TriangleMoved BY <1>3, <2>2, ActsOf
    <3>2. a.op \in RecipOps BY Calling DEF RecipOps
    <3>3. \/ todo' = Push(t, Push(u, Push(a, Rest)))
          \/ todo' = Push(u, Push(a, Rest))
      BY <1>1, <1>2, <3>1, TriangleMovedEffect
    <3> HIDE DEF t, u, a
    <3>4. T(Push(u, Push(a, Rest))) BY <1>5, <2>1, <3>2
    <3> QED BY <1>5, <1>7, <3>3, <3>4
  <2>3. CASE h.op = "EmitAllParams"
    <3> DEFINE f == CallWith("RealAngleKiQ", Params)
               g == CallWith("TofAngleKiQ", Params)
               l == CallWith("RecipDialogs", Params)
    <3>1. EmitAllParams BY <1>3, <2>3, ActsOf
    <3>2. l.op \in RecipOps BY Calling DEF RecipOps
    <3>3. todo' = Push(f, Push(g, Push(l, Rest)))
      BY <1>1, <1>2, <3>1, EmitAllParamsEffect
    <3> HIDE DEF f, g, l
    <3>4. T(Push(g, Push(l, Rest))) BY <1>5, <2>1, <3>2
    <3> QED BY <1>5, <1>7, <3>3, <3>4
  <2>4. CASE h.op = "RecipDialogs"
    <3> DEFINE f == CallWith("ResoRecip", Arg)
    <3>1. RecipDialogs BY <1>3, <2>4, ActsOf
    <3>2. f.op \in RecipOps BY Calling DEF RecipOps
    <3>3. todo' = Push(f, Rest) BY <1>1, <3>1, RecipDialogsEffect
    <3> HIDE DEF f
    <3> QED BY <1>7, <2>1, <3>2, <3>3
  <2>5. CASE h.op = "ResoRecip" BY <1>3, <1>9, <2>5, ResoActs DEF Makes
  <2> QED BY <1>9, <2>2, <2>3, <2>4, <2>5 DEF RecipOps
<1>10. CASE U.real /\ Reporter(h, O)
            /\ h.op \in {"RealMoved", "RealMovedEnd", "RealEmitAllParams"}
  <2>1. O \cap (Drawers \cup {"RealTriangleChangedEnd", "RealMovedEnd"}) = {}
    BY <1>10 DEF Reporter
  <2>2. CASE h.op = "RealMoved"
    <3> DEFINE e == CallWith("RealMovedEnd", At("RealMoved"))
               p == Push(e, Rest)
    <3>1. RealMoved BY <1>3, <2>2, HeadActs
    <3>2. ~busy.real BY <1>2, <2>1, <2>2
    <3>3. todo' = p \/ \E x \in {"mono", "tt", "ana"} :
            todo' = Push(CallWith("RealEmit", Only(x, real[x])), p)
      BY <1>1, <1>2, <3>1, <3>2, RealMovedCases
    <3>4. e.op = "RealMovedEnd" /\ e.arg BY <1>3, <2>2, Calling
    <3> HIDE DEF e
    <3>5. Calc(e, O, U) BY <1>4, <1>10, <2>1, <3>4 DEF Calc, Reporter
    <3>6. T(p) BY <1>6, <3>5
    <3> HIDE DEF p
    <3> QED BY <1>5, <1>7, <3>3, <3>6
  <2>3. CASE h.op = "RealMovedEnd"
    <3> DEFINE f == CallOf("RealEmitAllParams")
    <3>1. RealMovedEnd /\ h.arg BY <1>3, <1>10, <2>3, ActsOf DEF Reporter
    <3>2. todo' = Push(f, Rest) BY <1>1, <1>3, <3>1, RealMovedEndEffect
    <3>3. f.op = "RealEmitAllParams" BY Calling
    <3> HIDE DEF f
    <3>4. Calc(f, O, U) BY <1>4, <1>10, <2>1, <3>3 DEF Calc, Reporter
    <3> QED BY <1>6, <1>7, <3>2, <3>4
  <2>4. CASE h.op = "RealEmitAllParams"
    <3> DEFINE f == CallWith("ResoReal", RealAngles)
    <3>1. RealEmitAllParams BY <1>3, <2>4, ActsOf
    <3>2. ~dont.real BY <1>2, <2>1, <2>4
    <3>3. todo' = Push(f, Rest)
          BY <1>1, <1>2, <3>1, <3>2, RealEmitAllParamsEffect
    <3>4. f.op = "ResoReal" BY Calling
    <3> HIDE DEF f
    <3>5. Calc(f, O, U) BY <1>4, <1>10, <3>4 DEF Calc
    <3> QED BY <1>6, <1>7, <3>3, <3>5
  <2> QED BY <1>10, <2>2, <2>3, <2>4
<1>11. CASE U.real /\ h.op = "ResoReal" BY <1>3, <1>11, ResoActs DEF Makes
<1> QED BY <1>8, <1>9, <1>10, <1>11 DEF Calc

\* After such an event it listens as before.
LEMMA UpdateStays ==
  ASSUME Control, Run, IsStack(Rest), todo = Push(Head(todo), Rest),
         NEW c, Fits(todo, c)
  PROVE update' = update
<1>1. IsStack(todo) /\ Fit(Head(todo), Ops(Rest), c) BY FitHead DEF Control
<1>2. ~ResoLoad /\ ~ResoUpdateOn
  BY <1>1, ResoLoadEffect, ResoUpdateOnEffect DEF Fit, FollowOps
<1> QED BY <1>2, StepStays

LEMMA CalcsRun ==
  ASSUME Control, Run, reso.open, IsStack(Rest), todo = Push(Head(todo), Rest),
         NEW c, Fits(todo, c), Calcs(todo, update)
  PROVE \/ Calcs(todo', update')
        \/ /\ Makes /\ Calc(Head(todo), Ops(Rest), update)
           /\ todo' = Rest
<1> DEFINE h == Head(todo)
<1>1. IsStack(todo) BY DEF Control
<1>2. Calc(h, Ops(Rest), update) \/ Calcs(Rest, update)
  <2>1. todo = Push(h, Rest) OBVIOUS
  <2> HIDE DEF h
  <2> QED BY <2>1, CalcsPush
<1>3. update' = update BY UpdateStays
<1>4. CASE Calcs(Rest, update)
  <2>1. Over(todo', Rest) BY StepOver
  <2> QED BY <1>3, <1>4, <2>1, OverCalcs
<1>5. CASE Calc(h, Ops(Rest), update)
  <2>1. Calcs(todo', update) \/ Makes BY <1>5, CalcerStep
  <2>2. Makes => todo' = Rest
    BY <1>1, ResoSenseEffect, ResoRecipEffect, ResoRealEffect DEF Makes
  <2> QED BY <1>3, <1>5, <2>1, <2>2
<1> QED BY <1>2, <1>4, <1>5

\* The parameters of the triangle.
LEMMA WavesRun ==
  ASSUME Control, Run, reso.open, IsStack(Rest), todo = Push(Head(todo), Rest),
         NEW c, Fits(todo, c), RecipOps \cap Ops(todo) # {}
  PROVE RecipOps \cap Ops(todo') # {} \/ ResoRecip
<1>1. IsStack(todo) /\ Typed(todo) BY DEF Control
<1> DEFINE h == Head(todo)
           O == Ops(Rest)
           T(q) == IsStack(q) /\ RecipOps \cap Ops(q) # {}
<1>2. ready.tri /\ Ops(todo) = {h.op} \cup O BY FitHead
<1>3. Arg = h.arg /\ \A o : h.op = o => At(o) BY RunHead DEF Arg
<1>4. CASE T(Rest)
  <2>1. Over(todo', Rest) BY StepOver
  <2> QED BY <1>4, <2>1, OverKeeps
<1>5. \A f, q : T(q) => T(Push(f, q)) BY StackPush, PushOps
<1>6. \A f : f.op \in RecipOps => T(Push(f, Rest)) BY StackPush, PushOps
<1>7. CASE h.op \in RecipOps
  <2>1. T(todo') => RecipOps \cap Ops(todo') # {} OBVIOUS
  <2> HIDE DEF T
  <2>2. CASE h.op = "TriangleMoved"
    <3> DEFINE t == CallWith("TriangleMoved", "Gq")
               u == CallOf("EmitUpdate")
               a == CallOf("EmitAllParams")
    <3>1. TriangleMoved BY <1>3, <2>2, ActsOf
    <3>2. a.op \in RecipOps BY Calling DEF RecipOps
    <3>3. \/ todo' = Push(t, Push(u, Push(a, Rest)))
          \/ todo' = Push(u, Push(a, Rest))
      BY <1>1, <1>2, <3>1, TriangleMovedEffect
    <3> HIDE DEF t, u, a
    <3>4. T(Push(u, Push(a, Rest))) BY <1>5, <1>6, <3>2
    <3> QED BY <1>5, <2>1, <3>3, <3>4
  <2>3. CASE h.op = "EmitAllParams"
    <3> DEFINE f == CallWith("RealAngleKiQ", Params)
               g == CallWith("TofAngleKiQ", Params)
               l == CallWith("RecipDialogs", Params)
    <3>1. EmitAllParams BY <1>3, <2>3, ActsOf
    <3>2. l.op \in RecipOps BY Calling DEF RecipOps
    <3>3. todo' = Push(f, Push(g, Push(l, Rest)))
      BY <1>1, <1>2, <3>1, EmitAllParamsEffect
    <3> HIDE DEF f, g, l
    <3>4. T(Push(g, Push(l, Rest))) BY <1>5, <1>6, <3>2
    <3> QED BY <1>5, <2>1, <3>3, <3>4
  <2>4. CASE h.op = "RecipDialogs"
    <3> DEFINE f == CallWith("ResoRecip", Arg)
    <3>1. RecipDialogs BY <1>3, <2>4, ActsOf
    <3>2. f.op \in RecipOps BY Calling DEF RecipOps
    <3>3. todo' = Push(f, Rest) BY <1>1, <3>1, RecipDialogsEffect
    <3> HIDE DEF f
    <3> QED BY <1>6, <2>1, <3>2, <3>3
  <2>5. CASE h.op = "ResoRecip" BY <1>3, <2>5, ResoActs
  <2> QED BY <1>7, <2>2, <2>3, <2>4, <2>5 DEF RecipOps
<1> QED BY <1>2, <1>4, <1>7

\* The angles of the layout.
LEMMA CrystalsRun ==
  ASSUME Control, ShownType, Run, reso.open, IsStack(Rest),
    todo = Push(Head(todo), Rest),
         NEW c, Fits(todo, c), LastReal, Reports(todo)
           \/ "ResoReal" \in Ops(todo)
  PROVE Reports(todo') \/ "ResoReal" \in Ops(todo') \/ ResoReal
<1> DEFINE h == Head(todo)
           O == Ops(Rest)
<1>1. IsStack(todo) /\ \A o : h.op = o => At(o) BY RunHead DEF Control
<1>2. /\ ready.real /\ Ops(todo) = {h.op} \cup O
      /\ dont.real <=> "RealTriangleChangedEnd" \in Ops(todo)
  BY FitHead
<1>3. CASE "ResoReal" \in Ops(todo) BY <1>1, <1>3, ResoActs DEF LastReal
<1>4. CASE Reports(todo)
  <2>1. Reporter(h, O) \/ Reports(Rest)
    <3>1. todo = Push(h, Rest) OBVIOUS
    <3> HIDE DEF h
    <3> QED BY <1>4, <3>1, ReportsPush
  <2>2. CASE Reports(Rest)
    <3>1. Over(todo', Rest) BY StepOver
    <3> QED BY <2>2, <3>1, OverKeeps
  <2>3. CASE Reporter(h, O)
    <3>1. Reports(todo') \/ h.op = "RealEmitAllParams" BY <2>3, ReporterStep
    <3>2. CASE h.op = "RealEmitAllParams"
      <4> DEFINE f == CallWith("ResoReal", RealAngles)
      <4>1. RealEmitAllParams BY <1>1, <3>2, ActsOf
      <4>2. ~dont.real BY <1>2, <2>3, <3>2 DEF Reporter
      <4>3. todo' = Push(f, Rest)
            BY <1>1, <1>2, <4>1, <4>2, RealEmitAllParamsEffect
      <4>4. f.op = "ResoReal" BY Calling
      <4> HIDE DEF f
      <4>5. Ops(todo') = {f.op} \cup O BY <4>3, PushOps
      <4> QED BY <4>4, <4>5
    <3> QED BY <3>1, <3>2
  <2> QED BY <2>1, <2>2, <2>3
<1> QED BY <1>3, <1>4

LEMMA PosDueRun ==
  ASSUME Control, ShownType, Run, ResoType, reso.open,
         IsStack(Rest), todo = Push(Head(todo), Rest),
         NEW c, Fits(todo, c), Current(c), LastReal, UNCHANGED <<tri, ds>>,
         ResoReal => \A x \in {"mono", "ana", "tt"} : Like(x, real[x],
           TriangleAngles[x]),
         PosDue
  PROVE PosDue'
<1>1. /\ WavesRight => WavesRight'
      /\ CrystalsRight => CrystalsRight'
      /\ ResoRecip => WavesRight'
      /\ ResoReal => CrystalsRight'
      /\ Right => Right'
      /\ Makes => Fresh'
  BY ResoGives DEF Makes
<1>2. WavesRight' \/ RecipOps \cap Ops(todo') # {}
  BY <1>1, WavesRun DEF PosDue
<1>3. CrystalsRight' \/ Reports(todo') \/ "ResoReal" \in Ops(todo')
  BY <1>1, CrystalsRun DEF PosDue
<1>4. Calcs(todo', update') \/ Right'
  <2>1. CASE Right BY <1>1, <2>1
  <2>2. CASE Calcs(todo, update)
    <3>1. CASE Makes /\ Calc(Head(todo), Ops(Rest), update) /\ todo' = Rest
      <4>1. Ops(todo') \cap (RecipOps \cup TellerOps) = {} BY <3>1 DEF Calc
      <4>2. RecipOps \cap Ops(todo') = {} BY <4>1
      <4>3. ~Reports(todo') /\ "ResoReal" \notin Ops(todo')
        BY <4>1 DEF Reports, Reporter, Ops, TellerOps
      <4> QED BY <1>1, <1>2, <1>3, <3>1, <4>2, <4>3 DEF Right
    <3> QED BY <2>2, <3>1, CalcsRun
  <2> QED BY <2>1, <2>2 DEF PosDue, Right
<1> QED BY <1>2, <1>3, <1>4 DEF PosDue, Right

-----------------------------------------------------------------------------
(* The resolution in each of the phases of the angles.                     *)

\* A sense that is set, or a call that ends in a calculation, before and after
\* the layout is told all angles.
LEMMA CalcsWait ==
  ASSUME Control, Run, reso.open, IsStack(Rest), todo = Push(Head(todo), Rest),
         NEW c, Fits(todo, c), ResoFits(todo), Refreshes(todo'),
         "SetSense" \in Ops(todo) \/ Calcs(todo, update)
  PROVE "SetSense" \in Ops(todo') \/ Calcs(todo', update')
<1> DEFINE h == Head(todo)
           O == Ops(Rest)
           u == update
<1>1. IsStack(todo) /\ Typed(todo) /\ \A o : h.op = o => At(o)
      BY RunHead DEF Control
<1>2. Ops(todo) = {h.op} \cup O /\ u' = u BY FitHead, UpdateStays
<1>3. ResoFit(h, O)
  <2>1. todo = Push(h, Rest) OBVIOUS
  <2> HIDE DEF h
  <2> QED BY <2>1, ResoFitsPush
<1>4. CASE "SetSense" \in O
  <2>1. Over(todo', Rest) BY StepOver
  <2> QED BY <1>4, <2>1, OverKeeps
<1>5. CASE "SetSense" \notin O /\ h.op = "SetSense"
  <2> DEFINE e == CallOf("EmitUpdate")
             a == CallOf("EmitAllParams")
             r == CallOf("ResoSense")
             p == Push(e, Rest)
             T(q) == IsStack(q) /\ Calcs(q, u)
  <2>1. SetSense BY <1>1, <1>5, ActsOf
  <2>2. \/ todo' = Push(e, Push(a, Push(r, p)))
             \/ todo' = Push(e, Push(a, Push(r, Rest)))
    BY <1>1, <2>1, SetSenseEffect
  <2>3. e.op = "EmitUpdate" /\ r.op = "ResoSense" BY Calling
  <2>4. O \subseteq {"TasChanged", "EmitUpdate"} BY <1>3, <1>5 DEF ResoFit
  <2> HIDE DEF e, a, r
  <2>5. IsStack(p) /\ Ops(p) = {e.op} \cup O BY StackPush, PushOps
  <2> HIDE DEF p
  <2>6. Calc(r, O, u) /\ Calc(r, Ops(p), u)
    BY <2>3, <2>4, <2>5 DEF Calc, RecipOps, TellerOps
  <2>7. \A f, q : T(q) => T(Push(f, q)) BY CalcsMore
  <2>8. T(Push(r, Rest)) /\ T(Push(r, p)) BY <2>5, <2>6, CalcsMore
  <2>9. T(todo') => Calcs(todo', update') BY <1>2
  <2> HIDE DEF T
  <2> QED BY <2>2, <2>7, <2>8, <2>9
<1>6. CASE "SetSense" \notin O /\ h.op # "SetSense"
  <2>1. Calcs(todo, update) BY <1>2, <1>6
  <2>2. ~(Calc(h, O, u) /\ todo' = Rest)
    <3>1. SUFFICES ASSUME Calc(h, O, u), todo' = Rest PROVE FALSE OBVIOUS
    <3>2. PICK i \in DOMAIN Rest : Refresher(Rest[i], Below(Rest, i))
      BY <3>1 DEF Refreshes
    <3>3. Below(Rest, i) \subseteq O /\ Rest[i].op \in O BY BelowOps DEF Ops
    <3>4. O \cap RecipOps = {} BY <3>1 DEF Calc
    <3> HIDE DEF O
    <3> QED BY <1>6, <3>2, <3>3, <3>4 DEF Refresher, RecipOps
  <2> QED BY <2>1, <2>2, CalcsRun
<1> QED BY <1>2, <1>4, <1>5, <1>6

LEMMA RefreshReso ==
  ASSUME Control, Control', Run, NEW w \in Vars, Refreshing(w), reso.open,
         IsStack(Rest), todo = Push(Head(todo), Rest), ResoFits(todo),
         "SetSense" \in Ops(todo) \/ Calcs(todo, update)
  PROVE \E v \in Vars : ResoPhase(v)'
<1> DEFINE h == Head(todo)
           O == Ops(Rest)
           c == Context("refresh", w)
<1>1. Fits(todo, c) BY DEF Refreshing
<1>2. CASE \E v \in Vars : Refreshing(v)'
  <2>1. PICK v \in Vars : Refreshing(v)' BY <1>2
  <2>2. Refreshes(todo') BY <2>1 DEF Refreshing
  <2> HIDE DEF c
  <2>3. "SetSense" \in Ops(todo') \/ Calcs(todo', update')
        BY <1>1, <2>2, CalcsWait
  <2>4. ResoPhase(v)' BY <2>1, <2>3 DEF ResoPhase
  <2> QED BY <2>4
<1>3. CASE EmitUpdate /\ Refresher(h, O) /\ Showing(w)'
  <2>1. h.op = "EmitUpdate" /\ Ops(todo) = {h.op} \cup O
    BY <1>1, <1>3, EmitUpdateEffect, FitHead DEF Control
  <2>2. /\ "EmitAllParams" \in O
        /\ O \subseteq {"EmitAllParams", "ResoSense", "EmitUpdate",
             "TasChanged"}
    BY <1>3, <2>1 DEF Refresher
  <2>3. Over(todo', Rest) BY StepOver
  <2>4. Calcs(todo', update')
    <3>1. Calcs(todo, update) BY <2>1, <2>2
    <3>2. ~Calc(h, O, update) BY <2>2 DEF Calc, RecipOps
    <3> HIDE DEF c
    <3> QED BY <1>1, <3>1, <3>2, CalcsRun
  <2>5. RecipOps \cap Ops(todo') # {}
    <3>1. "EmitAllParams" \in Ops(todo') BY <2>2, <2>3, OverKeeps
    <3> QED BY <3>1 DEF RecipOps
  <2>6. Reports(todo')
    <3>1. PICK i \in DOMAIN Rest : Rest[i].op = "EmitAllParams" BY <2>2 DEF Ops
    <3>2. Below(Rest, i) \subseteq O BY BelowOps
    <3>3. Reporter(Rest[i], Below(Rest, i))
          BY <2>2, <3>1, <3>2 DEF Reporter, Drawers
    <3>4. Reports(Rest) BY <3>3 DEF Reports
    <3> QED BY <2>3, <3>4, OverKeeps
  <2>7. PosDue' BY <2>4, <2>5, <2>6 DEF PosDue
  <2>8. ResoPhase(w)' BY <1>3, <2>7 DEF ResoPhase
  <2> QED BY <2>8
<1>4. \/ \E v \in Vars : Refreshing(v)'
      \/ EmitUpdate /\ Refresher(h, O) /\ Showing(w)'
  BY RefreshingRun
<1> QED BY <1>2, <1>3, <1>4

\* What the layout tells the dialog when it is drawn.
LEMMA ShowReso ==
  ASSUME Control, ShownType, Run, NEW w \in Vars, Showing(w), PosDue, ResoType,
         reso.open, IsStack(Rest), todo = Push(Head(todo), Rest),
         ResoFits(todo), LastReal
  PROVE ResoPhase(w)'
<1> DEFINE h == Head(todo)
           O == Ops(Rest)
           c == Context("show", w)
<1>1. /\ Fits(todo, c) /\ c.phase = "show" /\ Current(c)
      /\ \A x \in Angles : real[x] = TriangleAngles[x] \/ RealPending(todo, x)
  BY ContextIs DEF Showing
<1> HIDE DEF c
<1>2. Showing(w)' /\ UNCHANGED <<tri, ds>> BY ShowingRun, ShowingStays
<1>3. ASSUME ResoReal, NEW x \in {"mono", "ana", "tt"}
      PROVE Like(x, real[x], TriangleAngles[x])
  <2>1. h.op = "ResoReal" BY <1>3, ResoRealEffect DEF Control
  <2>2. /\ Fits(Rest, c) /\ Ops(todo) = {h.op} \cup O
        /\ dont.real <=> "RealTriangleChangedEnd" \in Ops(todo)
    BY <1>1, FitHead
  <2>3. ~dont.real BY <2>1, <2>2 DEF LastReal
  <2>4. ResoFit(h, O) /\ (RealPending(todo, x) => RealPending(Rest, x))
    <3>1. todo = Push(h, Rest) OBVIOUS
    <3>2. h.op = "ResoReal" BY <2>1
    <3> HIDE DEF h
    <3> QED BY <3>1, <3>2, ResoFitsPush, RealPendingPush
  <2>5. ~RealPending(Rest, x)
    <3>1. SUFFICES ASSUME NEW i \in DOMAIN Rest,
                          Rest[i].op \in {"RealTriangleChanged", "RealSet"}
                   PROVE FALSE
      BY DEF RealPending
    <3>2. Rest[i].op \in O BY DEF Ops
    <3>3. Rest[i].op = "RealSet" BY <2>4, <3>1, <3>2 DEF ResoFit
    <3>4. Fit(Rest[i], Below(Rest, i), c) BY <2>2 DEF Fits
    <3>5. "RealTriangleChangedEnd" \in O BY <3>3, <3>4, BelowOps DEF Fit
    <3> QED BY <2>2, <2>3, <3>5
  <2>6. x \in Angles BY DEF Angles
  <2>7. real[x] = TriangleAngles[x] BY <1>1, <2>4, <2>5, <2>6
  <2> QED BY <2>7, LikeSelf
<1>4. PosDue' BY <1>1, <1>2, <1>3, PosDueRun
<1> QED BY <1>2, <1>4 DEF ResoPhase

\* ... and when its node is moved and the triangle has its angle.
LEMMA LiftReso ==
  ASSUME Control, ShownType, Run, NEW w \in Vars, Lifting(w), Settled, PosDue,
         ResoType, reso.open, IsStack(Rest), todo = Push(Head(todo), Rest),
           LastReal
  PROVE ResoPhase(w)'
<1> DEFINE c == Context("lift", w)
<1>1. Fits(todo, c) /\ c.phase = "lift" /\ Current(c) BY ContextIs DEF Lifting
<1> HIDE DEF c
<1>2. Lifting(w)' /\ Settled' BY LiftingRun, SettledRun
<1>3. Head(todo).op \in CalmOps BY SettledHead DEF CalmFit
<1>4. ~Set /\ ~SetSense /\ ~UpdateDs
  BY <1>3 DEF Set, SetSense, UpdateDs, At, CalmOps
<1>5. UNCHANGED <<tri, ds>> BY <1>4, TriangleStays
<1>6. \A x : ~RealPending(todo, x)
  BY <1>1 DEF RealPending, Fits, Fit, Drawers
<1>7. \A x \in {"mono", "ana", "tt"} : Like(x, real[x], TriangleAngles[x])
  BY <1>6 DEF Settled, Angles
<1>8. PosDue' BY <1>1, <1>5, <1>7, PosDueRun
<1> QED BY <1>2, <1>8 DEF ResoPhase

\* ... and before it has.
LEMMA RiseReso ==
  ASSUME Control, ShownType, Run, NEW w \in Vars, Lifting(w), update.real,
         NEW x \in {"mono", "ana", "tt"}, RealUp(x),
         IsStack(Rest), todo = Push(Head(todo), Rest)
  PROVE ResoPhase(w)'
<1>1. Lifting(w)' BY LiftingRun
<1>2. update' = update
  <2> DEFINE c == Context("lift", w)
  <2>1. Fits(todo, c) BY DEF Lifting
  <2> HIDE DEF c
  <2> QED BY <2>1, UpdateStays
<1>3. Others(x) BY DEF RealUp, Others
<1>4. ASSUME RealUp(x)' PROVE ResoPhase(w)' BY <1>1, <1>2, <1>4 DEF ResoPhase
<1>5. CASE todo = <<CallWith("RealMoved", Mover[x])>>
      BY <1>3, <1>4, <1>5, RealUpMoved
<1>6. CASE todo = <<CallWith("RealEmit", Only(x, real[x])),
                    CallWith("RealMovedEnd", TRUE)>>
  BY <1>3, <1>4, <1>6, RealUpEmit
<1>7. CASE todo = <<CallWith("TasChanged", Only(x, real[x])),
                    CallWith("TofTriangleChanged", Only(x, real[x])),
                    CallWith("RealMovedEnd", TRUE)>>
  BY <1>3, <1>4, <1>7, RealUpTas
<1>8. CASE todo = <<CallWith("Set", Only(x, real[x])), CallOf("TasChangedEnd"),
                    CallWith("TofTriangleChanged", Only(x, real[x])),
                    CallWith("RealMovedEnd", TRUE)>>
  <2> DEFINE v == Only(x, real[x])
             s == CallWith("Set", v)
             i == CallOf("TasChangedEnd")
             t == CallWith("TofTriangleChanged", v)
             e == CallWith("RealMovedEnd", TRUE)
             m == CallWith("TriangleMoved", "KfQ")
             q1 == Push(e, <<>>)
             q2 == Push(t, q1)
             q3 == Push(i, q2)
             U == update
  <2>1. Settled' BY <1>3, <1>8, RealUpSet
  <2>2. todo = Push(s, q3) BY <1>8, Four
  <2>3. /\ s.op = "Set" /\ i.op = "TasChangedEnd"
             /\ t.op = "TofTriangleChanged"
        /\ e.op = "RealMovedEnd" /\ e.arg /\ m.op = "TriangleMoved"
    BY Calling
  <2> HIDE DEF s, i, t, e, m
  <2>4. IsStack(q1) /\ Reports(q1) /\ Calcs(q1, U)
    <3>1. IsStack(<<>>) /\ Ops(<<>>) = {} BY EmptyStack
    <3>2. Reporter(e, {}) /\ Calc(e, {}, U) BY <2>3 DEF Reporter, Calc
    <3> QED BY <3>1, <3>2, ReportsMore, CalcsMore
  <2> HIDE DEF q1
  <2>5. IsStack(q2) /\ Reports(q2) /\ Calcs(q2, U)
        BY <2>4, ReportsMore, CalcsMore
  <2> HIDE DEF q2
  <2>6. IsStack(q3) /\ Reports(q3) /\ Calcs(q3, U)
        BY <2>5, ReportsMore, CalcsMore
  <2> HIDE DEF q3
  <2>7. Head(todo) = s /\ Rest = q3 BY <2>2, <2>6, PushParts DEF Rest
  <2>8. todo' = Push(m, q3)
    <3>1. At("Set") BY <2>3, <2>7, RunHead
    <3>2. Set BY <3>1, HeadActs
    <3> QED BY <2>7, <3>2, SetEffect DEF Control, m
  <2>9. Reports(todo') /\ Calcs(todo', U) BY <2>6, <2>8, ReportsMore, CalcsMore
  <2>10. RecipOps \cap Ops(todo') # {}
    <3>1. Ops(todo') = {m.op} \cup Ops(q3) BY <2>6, <2>8, PushOps
    <3> QED BY <2>3, <3>1 DEF RecipOps
  <2>11. PosDue' BY <1>2, <2>9, <2>10 DEF PosDue
  <2> QED BY <1>1, <2>1, <2>11 DEF ResoPhase
<1> QED BY <1>5, <1>6, <1>7, <1>8 DEF RealUp

LEMMA RunReso ==
  ASSUME Control, Control', ShownType, ResoInv, Run PROVE ResoInv'
<1>1. IsStack(todo) /\ todo # <<>> BY RunHead DEF Control
<1>2. IsStack(Rest) /\ todo = Push(Head(todo), Rest) BY <1>1, Popped
<1>3. ResoType /\ ResoArgs(todo, edits, pressed) /\ EditsDue /\ SpacingDue
      /\ UpdateRight /\ ResoFollows
  BY DEF ResoInv
<1>4. ResoType' /\ reso'.open = reso.open BY <1>1, <1>2, <1>3, ResoTypeRun
<1>5. UNCHANGED <<edits, pressed, event>> BY StepStays
<1>6. ResoArgs(todo, edits, pressed)'
  <2>1. ResoArgs(todo', edits, pressed) BY <1>2, <1>3, ResoArgsRun
  <2> QED BY <1>5, <2>1 DEF ResoArgs
<1>7. EditsDue' /\ SpacingDue' /\ UpdateRight' BY <1>1, <1>2, <1>3, DueRun
<1>8. ASSUME reso.open, event \in Follows
      PROVE ResoFits(todo') /\ LastReal' /\ \E w \in Vars : ResoPhase(w)'
  <2>1. ResoFits(todo) /\ LastReal BY <1>3, <1>8 DEF ResoFollows
  <2>2. PICK w \in Vars : ResoPhase(w) BY <1>3, <1>8 DEF ResoFollows
  <2>3. PICK p \in {"refresh", "show", "lift"} : Fits(todo, Context(p, w))
    BY <2>2 DEF ResoPhase, Refreshing, Showing, Lifting
  <2>4. ResoFits(todo') /\ LastReal'
    <3> DEFINE c == Context(p, w)
    <3>1. Fits(todo, c) BY <2>3
    <3> HIDE DEF c
    <3> QED BY <1>2, <2>1, <3>1, RareRun
  <2>5. \E v \in Vars : ResoPhase(v)'
    <3>1. CASE Refreshing(w) /\ ("SetSense" \in Ops(todo)
          \/ Calcs(todo, update))
      BY <1>2, <1>8, <2>1, <3>1, RefreshReso
    <3>2. CASE Showing(w) /\ PosDue BY <1>2, <1>3, <1>8, <2>1, <3>2, ShowReso
    <3>3. CASE Lifting(w) /\ Settled /\ PosDue
      BY <1>2, <1>3, <1>8, <2>1, <3>3, LiftReso
    <3>4. CASE Lifting(w) /\ update.real
          /\ \E x \in {"mono", "ana", "tt"} : RealUp(x)
      BY <1>2, <3>4, RiseReso
    <3> QED BY <2>2, <3>1, <3>2, <3>3, <3>4 DEF ResoPhase
  <2> QED BY <2>4, <2>5
<1>9. ResoFollows' BY <1>4, <1>5, <1>8 DEF ResoFollows, Follows, Vars, ResoFits
<1> QED BY <1>4, <1>6, <1>7, <1>9 DEF ResoInv

-----------------------------------------------------------------------------
(* What the events do to the resolution.                                   *)

\* When all calls have returned.
LEMMA IdleReso ==
  ASSUME ResoInv, todo = <<>>
  PROVE /\ filed \/ ds = edits
        /\ reso.open /\ ~filed => reso.pars.dm = ds.mono
             /\ reso.pars.da = ds.ana
        /\ reso.open /\ event \in Follows =>
             Right /\ \E w \in Vars : Showing(w) \/ (Lifting(w) /\ Settled)
<1>1. DOMAIN todo = {} /\ Ops(todo) = {} BY EmptyStack
<1>2. EditsDue /\ SpacingDue /\ ResoFollows BY DEF ResoInv
<1>3. ~Refreshes(todo) /\ \A u : ~Calcs(todo, u) BY <1>1 DEF Refreshes, Calcs
<1>4. \A x : ~RealUp(x) BY DEF RealUp
<1>5. PosDue => Right BY <1>3 DEF PosDue, Right
<1>6. reso.open /\ event \in Follows =>
        Right /\ \E w \in Vars : Showing(w) \/ (Lifting(w) /\ Settled)
  BY <1>2, <1>3, <1>4, <1>5 DEF ResoFollows, ResoPhase, Refreshing
<1> QED BY <1>1, <1>2, <1>6 DEF EditsDue, SpacingDue

\* An event that changes neither the spacings nor the dialog.
LEMMA KeptReso ==
  ASSUME ResoInv, todo = <<>>,
         UNCHANGED <<ds, edits, filed, reso, update, pressed>>,
         \A d, m : ResoArgs(todo', d, m)
  PROVE /\ ResoType' /\ ResoArgs(todo, edits, pressed)'
        /\ EditsDue' /\ SpacingDue' /\ UpdateRight'
<1>1. ResoType' BY DEF ResoInv, ResoType, IsPosition
<1>2. UpdateRight' BY DEF ResoInv, UpdateRight
<1>3. EditsDue' /\ SpacingDue' BY IdleReso DEF EditsDue, SpacingDue
<1>4. ResoArgs(todo', edits', pressed') OBVIOUS
<1>5. ResoArgs(todo, edits, pressed)' BY <1>4 DEF ResoArgs
<1> QED BY <1>1, <1>2, <1>3, <1>5

\* One call that is none of the resolution dialog.
LEMMA OneArg ==
  \A f : f.op \notin {"ResoPars", "ResoLoad"} => \A d,
    m : ResoArgs(<<f>>, d, m)
<1>1. \A f, d, m : f.op \notin {"ResoPars", "ResoLoad"} => ResoArg(f, d, m)
  BY DEF ResoArg
<1> QED BY <1>1, FirstReso

LEMMA DragTriangleReso ==
  ASSUME Control, DataType', ShownType, ResoInv, DragKiKf \/ DragKfQ \/ DragGq
  PROVE ResoInv'
<1>1. /\ todo = <<>> /\ pressed = "recip"
      /\ UNCHANGED <<ds, edits, filed, reso, update, pressed>>
      /\ \E s : todo' = <<CallWith("TriangleMoved", s)>>
  <2>1. CASE DragKiKf
    BY <2>1 DEF DragKiKf, Event, Idle, dialogs, optics, settings
  <2>2. CASE DragKfQ
    <3>1. todo = <<>> /\ pressed = "recip"
      BY <2>2, ZenonT(30) DEF DragKfQ, Event, Idle
    <3>2. UNCHANGED <<peak, settings, optics, layouts, flags, dialogs,
          pressed>>
      BY <2>2, ZenonT(30) DEF DragKfQ
    <3>3. todo' = <<CallWith("TriangleMoved", "KfQ")>>
          BY <2>2, ZenonT(30) DEF DragKfQ
    <3> QED BY <3>1, <3>2, <3>3 DEF dialogs, optics, settings
  <2>3. CASE DragGq BY <2>3 DEF DragGq, Event, Idle, dialogs, optics, settings
  <2> QED BY <2>1, <2>2, <2>3
<1>2. PICK s : todo' = <<CallWith("TriangleMoved", s)>> BY <1>1
<1> DEFINE f == CallWith("TriangleMoved", s)
<1>3. f.op = "TriangleMoved" /\ todo' = <<f>> BY <1>2, Calling
<1> HIDE DEF f
<1>4. PICK w \in Vars : Refreshing(w)' BY DragTriangleFollows
<1>5. ResoFits(todo') /\ Ops(todo') = {"TriangleMoved"}
  <2>1. ResoFit(f, {}) BY <1>3 DEF ResoFit
  <2> QED BY <1>3, <2>1, FirstReso
<1>6. reso.open => Calcs(todo', update')
  <2>1. SUFFICES ASSUME reso.open PROVE Calcs(todo', update) BY <1>1
  <2>2. update.recip BY <1>1, <2>1 DEF ResoInv, UpdateRight
  <2>3. Calc(f, {}, update) BY <1>3, <2>2 DEF Calc, RecipOps
  <2> QED BY <1>3, <2>3, FirstReso
<1>7. reso.open => ResoPhase(w)' BY <1>4, <1>6 DEF ResoPhase
<1>8. ResoFollows'
  <2>1. LastReal' BY <1>5 DEF LastReal
  <2>2. ResoFits(todo)' BY <1>5 DEF ResoFits
  <2>3. reso.open => \E v \in Vars : ResoPhase(v)' BY <1>7
  <2> QED BY <1>1, <2>1, <2>2, <2>3 DEF ResoFollows, Vars
<1>9. \A d, m : ResoArgs(todo', d, m) BY <1>3, OneArg
<1> QED BY <1>1, <1>8, <1>9, KeptReso DEF ResoInv

LEMMA CheckSenseReso ==
  ASSUME Control, DataType', ShownType, ResoInv, CheckSense PROVE ResoInv'
<1>1. todo = <<>> /\ UNCHANGED <<ds, edits, filed, reso, update, pressed>>
  BY DEF CheckSense, Event, Idle, dialogs, optics, settings
<1>2. PICK a : todo' = <<CallWith("SetSense", a)>> BY DEF CheckSense
<1> DEFINE f == CallWith("SetSense", a)
<1>3. f.op = "SetSense" /\ todo' = <<f>> BY <1>2, Calling
<1> HIDE DEF f
<1>4. PICK w \in Vars : Refreshing(w)' BY CheckSenseFollows
<1>5. ResoFits(todo') /\ Ops(todo') = {"SetSense"}
  <2>1. ResoFit(f, {}) BY <1>3 DEF ResoFit
  <2> QED BY <1>3, <2>1, FirstReso
<1>6. ResoPhase(w)' BY <1>4, <1>5 DEF ResoPhase
<1>7. ResoFollows'
  <2>1. LastReal' BY <1>5 DEF LastReal
  <2>2. ResoFits(todo)' BY <1>5 DEF ResoFits
  <2>3. \E v \in Vars : ResoPhase(v)' BY <1>6
  <2> QED BY <2>1, <2>2, <2>3 DEF ResoFollows, Vars
<1>8. \A d, m : ResoArgs(todo', d, m) BY <1>3, OneArg
<1> QED BY <1>1, <1>7, <1>8, KeptReso DEF ResoInv

LEMMA DragRealReso ==
  ASSUME Control, DataType', ShownType, LayoutInv, ResoInv, DragReal
    PROVE ResoInv'
<1>1. /\ todo = <<>> /\ pressed = "real"
      /\ UNCHANGED <<ds, edits, filed, reso, update, pressed>>
  BY DEF DragReal, Event, Idle, dialogs, optics, settings
<1>2. PICK x \in {"mono", "ana", "tt"} :
        /\ todo' = <<CallWith("RealMoved", Mover[x])>>
        /\ \A y \in Angles \ {x} : real'[y] = real[y]
  BY DragRealStarts
<1>3. UNCHANGED <<tri, ds, sense, tof>> BY DragRealStarts
<1> DEFINE f == CallWith("RealMoved", Mover[x])
<1>4. f.op = "RealMoved" /\ todo' = <<f>> BY <1>2, Calling
<1>5. RealUp(x)'
  <2>1. TriangleAngles' = TriangleAngles BY <1>3, SameAngles
  <2>2. /\ \A y \in Angles : Like(y, real[y], TriangleAngles[y])
        /\ \A y \in {"tt", "th"} : tof[y] = TriangleAngles[y]
    BY <1>1, IdleAgrees
  <2> QED BY <1>2, <1>3, <2>1, <2>2 DEF RealUp
<1> HIDE DEF f
<1>6. PICK w \in Vars : Lifting(w)' BY DragRealFollows
<1>7. reso.open => update'.real BY <1>1 DEF ResoInv, UpdateRight
<1>8. reso.open => ResoPhase(w)' BY <1>5, <1>6, <1>7 DEF ResoPhase
<1>9. ResoFits(todo') /\ Ops(todo') = {"RealMoved"}
  <2>1. ResoFit(f, {}) BY <1>4 DEF ResoFit
  <2> QED BY <1>4, <2>1, FirstReso
<1>10. ResoFollows'
  <2>1. LastReal' BY <1>9 DEF LastReal
  <2>2. ResoFits(todo)' BY <1>9 DEF ResoFits
  <2>3. reso.open => \E v \in Vars : ResoPhase(v)' BY <1>8
  <2> QED BY <1>1, <2>1, <2>2, <2>3 DEF ResoFollows, Vars
<1>11. \A d, m : ResoArgs(todo', d, m) BY <1>4, OneArg
<1> QED BY <1>1, <1>10, <1>11, KeptReso DEF ResoInv

LEMMA VarsChangedReso ==
  ASSUME Control, DataType', ShownType, ResoInv, VarsChanged PROVE ResoInv'
<1>1. todo = <<>> /\ UNCHANGED <<ds, edits, filed, reso, update, pressed>>
  BY DEF VarsChanged, Event, Idle, dialogs, optics, settings
<1>2. PICK w, r :
        /\ IsStack(r)
        /\ \/ r = <<>>
           \/ r = Push(CallWith("TasChanged", w),
                Push(CallOf("EmitUpdate"), <<>>))
        /\ todo' = Push(CallWith("RealTriangleChanged", w),
                   Push(CallWith("RealEmit", w),
                   Push(CallWith("SetSense", Only("mono", sense.mono)),
                   Push(CallWith("SetSense", Only("ana", sense.ana)),
                   Push(CallWith("SetSense", Only("sample", sense.sample)),
                     r)))))
  BY VarsCalls
<1> DEFINE a == CallWith("RealTriangleChanged", w)
           b == CallWith("RealEmit", w)
           c == CallWith("SetSense", Only("mono", sense.mono))
           d == CallWith("SetSense", Only("ana", sense.ana))
           e == CallWith("SetSense", Only("sample", sense.sample))
           f == CallWith("TasChanged", w)
           g == CallOf("EmitUpdate")
           S == {"TasChanged", "EmitUpdate", "SetSense"}
           T(q) == IsStack(q) /\ ResoFits(q) /\ \A k, m : ResoArgs(q, k, m)
           B(q) == T(q) /\ Ops(q) \subseteq S
<1>3. /\ a.op = "RealTriangleChanged" /\ b.op = "RealEmit" /\ c.op = "SetSense"
      /\ d.op = "SetSense" /\ e.op = "SetSense" /\ f.op = "TasChanged"
      /\ g.op = "EmitUpdate"
  BY Calling
<1>4. /\ todo' = Push(a, Push(b, Push(c, Push(d, Push(e, r)))))
      /\ r = <<>> \/ r = Push(f, Push(g, <<>>))
  BY <1>2
<1> HIDE DEF a, b, c, d, e, f, g
<1>5. ASSUME NEW h, NEW q, T(q), ResoFit(h, Ops(q)),
             h.op \notin {"ResoPars", "ResoLoad"}
      PROVE T(Push(h, q)) /\ Ops(Push(h, q)) = {h.op} \cup Ops(q)
  <2>1. \A k, m : ResoArg(h, k, m) BY <1>5 DEF ResoArg
  <2>2. \A k, m : ResoArgs(Push(h, q), k, m) BY <1>5, <2>1, ResoArgsPush
  <2> QED BY <1>5, <2>2, ResoFitsPush, StackPush, PushOps
<1>6. \A h, q : B(q) /\ h.op \in S \ {"SetSense"} => B(Push(h, q))
  <2>1. \A h, q : B(q) /\ h.op \in S \ {"SetSense"} => ResoFit(h, Ops(q))
    BY DEF ResoFit
  <2> QED BY <1>5, <2>1
<1>7. \A h, q : B(q) /\ h.op = "SetSense" => B(Push(h, q))
  <2>1. \A h, q : B(q) /\ h.op = "SetSense" => ResoFit(h, Ops(q))
    BY DEF ResoFit
  <2> QED BY <1>5, <2>1
<1>8. B(<<>>) BY FirstReso, EmptyStack
<1> DEFINE p == Push(c, Push(d, Push(e, r)))
<1>9. B(p) /\ "SetSense" \in Ops(p)
  <2> HIDE DEF T, B
  <2>1. B(r) BY <1>3, <1>4, <1>6, <1>8
  <2>2. B(Push(d, Push(e, r))) BY <1>3, <1>7, <2>1
  <2>3. B(p) BY <1>3, <1>7, <2>2
  <2>4. Ops(p) = {c.op} \cup Ops(Push(d, Push(e, r))) BY <2>2, PushOps DEF B, T
  <2> QED BY <1>3, <2>3, <2>4
<1>10. todo' = Push(a, Push(b, p)) BY <1>4
<1> HIDE DEF p
<1> DEFINE q == Push(b, p)
<1>11. T(q) /\ Ops(q) = {b.op} \cup Ops(p)
  <2>1. ResoFit(b, Ops(p)) BY <1>3, <1>9 DEF ResoFit
  <2> QED BY <1>3, <1>5, <1>9, <2>1
<1> HIDE DEF q
<1>12. T(Push(a, q)) /\ Ops(Push(a, q)) = {a.op} \cup Ops(q)
  <2>1. ResoFit(a, Ops(q)) BY <1>3, <1>9, <1>11 DEF ResoFit
  <2> QED BY <1>3, <1>5, <1>11, <2>1
<1>13. /\ ResoFits(todo') /\ \A k, m : ResoArgs(todo', k, m)
       /\ "SetSense" \in Ops(todo') /\ "ResoReal" \notin Ops(todo')
  BY <1>3, <1>9, <1>10, <1>11, <1>12 DEF q
<1>14. PICK v \in Vars : Refreshing(v)' BY VarsChangedFollows
<1>15. ResoPhase(v)' BY <1>13, <1>14 DEF ResoPhase
<1>16. ResoFollows'
  <2>1. LastReal' BY <1>13 DEF LastReal
  <2>2. ResoFits(todo)' BY <1>13 DEF ResoFits
  <2>3. \E u \in Vars : ResoPhase(u)' BY <1>15
  <2> QED BY <2>1, <2>2, <2>3 DEF ResoFollows, Vars
<1> QED BY <1>1, <1>13, <1>16, KeptReso DEF ResoInv

LEMMA ResoArgsJoin ==
  \A a, b, d, m : IsStack(a) /\ IsStack(b) /\ ResoArgs(a, d, m)
    /\ ResoArgs(b, d, m) =>
    IsStack(a \o b) /\ ResoArgs(a \o b, d, m)
<1> SUFFICES ASSUME NEW a, NEW b, NEW d, NEW m, IsStack(a), IsStack(b),
                    ResoArgs(a, d, m), ResoArgs(b, d, m)
             PROVE IsStack(a \o b) /\ ResoArgs(a \o b, d, m)
  OBVIOUS
<1> DEFINE p == a \o b
           S == {a[i] : i \in DOMAIN a} \cup {b[i] : i \in DOMAIN b}
<1>1. a \in Seq(S) /\ b \in Seq(S) BY StackJoin DEF IsStack
<1>2. \A i \in DOMAIN p : (i \in DOMAIN a /\ p[i] = a[i])
        \/ \E j \in DOMAIN b : p[i] = b[j]
  <2>1. SUFFICES ASSUME NEW i \in DOMAIN p, i \notin DOMAIN a
                 PROVE i - Len(a) \in DOMAIN b /\ p[i] = b[i - Len(a)]
    BY <1>1
  <2> QED BY <1>1, <2>1
<1> HIDE DEF p
<1>3. ResoArgs(p, d, m) BY <1>2 DEF ResoArgs
<1> QED BY <1>3, JoinStack DEF p

\* The events that are not of those.
LEMMA PressReso ==
  ASSUME Control, ResoInv, NEW s \in {"recip", "real", "tof"}, Press(s)
  PROVE ResoInv'
<1>1. /\ todo = <<>> /\ todo' = <<>> /\ event' \notin Follows /\ pressed' = s
      /\ UNCHANGED <<ds, edits, filed, reso>>
  BY DEF Press, Event, Idle, optics, settings, Follows
<1>2. update' = IF reso.open THEN [real |-> s # "recip", recip |-> s = "recip"]
                             ELSE update
  BY DEF Press
<1>3. ResoType' BY <1>1, <1>2 DEF ResoInv, ResoType, IsPosition
<1>4. UpdateRight' BY <1>1, <1>2 DEF UpdateRight
<1>5. EditsDue' /\ SpacingDue' BY <1>1, IdleReso DEF EditsDue, SpacingDue
<1>6. ResoArgs(todo', edits', pressed') BY <1>1, FirstReso
<1>7. ResoArgs(todo, edits, pressed)' BY <1>6 DEF ResoArgs
<1>8. ResoFollows' BY <1>1 DEF ResoFollows
<1> QED BY <1>3, <1>4, <1>5, <1>7, <1>8 DEF ResoInv

LEMMA ReleaseReso ==
  ASSUME Control, ResoInv, Release PROVE ResoInv'
<1>1. /\ todo = <<>> /\ todo' = <<>> /\ pressed' = "none" /\ event' = event
      /\ UNCHANGED <<ds, edits, filed, reso, tri, sense, real, tof, shown>>
  BY DEF Release, Idle, optics, settings, nodes, layouts
<1>2. update' = IF reso.open THEN [real |-> TRUE, recip |-> TRUE] ELSE update
  BY DEF Release
<1>3. ResoType' BY <1>1, <1>2 DEF ResoInv, ResoType, IsPosition
<1>4. UpdateRight' BY <1>1 DEF UpdateRight
<1>5. EditsDue' /\ SpacingDue' BY <1>1, IdleReso DEF EditsDue, SpacingDue
<1>6. ResoArgs(todo', edits', pressed') BY <1>1, FirstReso
<1>7. ResoArgs(todo, edits, pressed)' BY <1>6 DEF ResoArgs
<1>8. ASSUME reso.open, event \in Follows
      PROVE ResoFits(todo') /\ LastReal' /\ \E w \in Vars : ResoPhase(w)'
  <2>1. Right /\ \E w \in Vars : Showing(w) \/ (Lifting(w) /\ Settled)
    BY <1>1, <1>8, IdleReso
  <2>2. TriangleAngles' = TriangleAngles BY <1>1, SameAngles
  <2>3. \A w : Showing(w) => Showing(w)'
    BY <1>1, <2>2, SameContext DEF Showing, Exact, RealAngles
  <2>4. \A w : Lifting(w) => Lifting(w)'
    BY <1>1, SameContext DEF Lifting, RealAngles
  <2>5. Settled => Settled' BY <1>1, <2>2 DEF Settled
  <2>6. Right' BY <1>1, <2>1 DEF Right, Fresh, WavesRight, CrystalsRight
  <2>7. PosDue' BY <2>6 DEF PosDue, Right
  <2>8. \E w \in Vars : ResoPhase(w)'
    BY <2>1, <2>3, <2>4, <2>5, <2>7 DEF ResoPhase
  <2>9. ResoFits(todo') BY <1>1, FirstReso
  <2>10. LastReal' BY <1>1, EmptyStack DEF LastReal
  <2> QED BY <2>8, <2>9, <2>10
<1>9. ResoFollows' BY <1>1, <1>8 DEF ResoFollows, Vars, ResoFits
<1> QED BY <1>3, <1>4, <1>5, <1>7, <1>9 DEF ResoInv

LEMMA QuietReso ==
  ASSUME Control, ResoInv,
         DragMono \/ DragTof \/ EditCrystal \/ ToggleSnap \/ ToggleKeep
  PROVE ResoInv'
<1>1. /\ todo = <<>> /\ event' \notin Follows
      /\ UNCHANGED <<ds, edits, filed, reso, update, pressed>>
  BY DEF DragMono, DragTof, EditCrystal, ToggleSnap, ToggleKeep, Event, Idle,
         Follows, dialogs, optics, settings
<1>2. \/ todo' = <<>> \/ todo' = <<CallOf("CalcPeaks")>>
      \/ \E o \in {"RealMoved", "TofMoved", "TriangleMoved"} :
           \E a : todo' = <<CallWith(o, a)>>
  BY <1>1 DEF DragMono, DragTof, EditCrystal, ToggleSnap, ToggleKeep
<1>3. \A d, m : ResoArgs(todo', d, m)
  <2>1. CallOf("CalcPeaks").op = "CalcPeaks" /\ \A o, a : CallWith(o, a).op = o
    BY Calling
  <2> QED BY <1>2, <2>1, FirstReso, OneArg
<1>4. ResoFollows' BY <1>1 DEF ResoFollows
<1> QED BY <1>1, <1>3, <1>4, KeptReso DEF ResoInv

LEMMA EditReso ==
  ASSUME Control, ResoInv, EditSpacing PROVE ResoInv'
<1> DEFINE f == CallOf("UpdateDs")
<1>1. /\ todo' = <<f>> /\ event' \notin Follows
      /\ UNCHANGED <<reso, update, pressed>>
  BY DEF EditSpacing, Event, Follows, dialogs
<1>2. f.op = "UpdateDs" BY Calling
<1> HIDE DEF f
<1>3. "UpdateDs" \in Ops(todo') BY <1>1, <1>2, FirstReso
<1>4. ResoType' /\ UpdateRight'
      BY <1>1 DEF ResoInv, ResoType, IsPosition, UpdateRight
<1>5. EditsDue' /\ SpacingDue' BY <1>3 DEF EditsDue, SpacingDue
<1>6. ResoArgs(todo', edits', pressed') BY <1>1, <1>2, OneArg
<1>7. ResoArgs(todo, edits, pressed)' BY <1>6 DEF ResoArgs
<1>8. ResoFollows' BY <1>1 DEF ResoFollows
<1> QED BY <1>4, <1>5, <1>7, <1>8 DEF ResoInv

\* InitReso() gives the dialog its spacings.
LEMMA InitResoArgs ==
  /\ IsStack(InitReso) /\ "UpdateDs" \in Ops(InitReso)
  /\ \A d, m : ResoArgs(InitReso, d, m)
<1> DEFINE u == CallOf("UpdateDs")
           a == CallWith("SetSense", Only("mono", sense.mono))
           b == CallWith("SetSense", Only("sample", sense.sample))
           c == CallWith("SetSense", Only("ana", sense.ana))
           d == CallOf("EmitAllParams")
           e == CallOf("RealEmitAllParams")
           R == {"ResoPars", "ResoLoad"}
           T(q) == IsStack(q) /\ \A k, m : ResoArgs(q, k, m)
<1>1. InitReso = Push(u, Push(a, Push(b, Push(c, Push(d, Push(e, <<>>))))))
  BY Six DEF InitReso
<1>2. /\ u.op = "UpdateDs" /\ a.op \notin R /\ b.op \notin R /\ c.op \notin R
      /\ d.op \notin R /\ e.op \notin R
  BY Calling
<1> HIDE DEF u, a, b, c, d, e
<1>3. ASSUME NEW f, NEW q, T(q), f.op \notin R PROVE T(Push(f, q))
  <2>1. \A k, m : ResoArg(f, k, m) BY <1>3 DEF ResoArg
  <2> QED BY <1>3, <2>1, ResoArgsPush, StackPush
<1>4. T(<<>>) BY FirstReso, EmptyStack
<1> HIDE DEF T
<1>5. T(Push(c, Push(d, Push(e, <<>>)))) BY <1>2, <1>3, <1>4
<1> DEFINE p == Push(a, Push(b, Push(c, Push(d, Push(e, <<>>)))))
<1>6. T(p) BY <1>2, <1>3, <1>5
<1>7. InitReso = Push(u, p) BY <1>1
<1> HIDE DEF p
<1>8. T(InitReso) BY <1>2, <1>3, <1>6, <1>7
<1>9. Ops(InitReso) = {u.op} \cup Ops(p) BY <1>6, <1>7, PushOps DEF T
<1> QED BY <1>2, <1>8, <1>9 DEF T

LEMMA OpenGives ==
  ASSUME Control, ResoInv, OpenReso PROVE ResoInv'
<1>1. /\ todo = <<>> /\ todo' = InitReso /\ event' \notin Follows
      /\ reso' = [reso EXCEPT !.open = TRUE]
      /\ update' = [real |-> TRUE, recip |-> TRUE]
      /\ UNCHANGED <<ds, edits, filed, pressed>>
  BY DEF OpenReso, Event, Idle, Follows, optics, settings
<1>2. ResoType' BY <1>1 DEF ResoInv, ResoType, IsPosition
<1>3. UpdateRight' BY <1>1 DEF UpdateRight
<1>4. "UpdateDs" \in Ops(todo') BY <1>1, InitResoArgs
<1>5. EditsDue' /\ SpacingDue' BY <1>4 DEF EditsDue, SpacingDue
<1>6. ResoArgs(todo', edits', pressed') BY <1>1, InitResoArgs
<1>7. ResoArgs(todo, edits, pressed)' BY <1>6 DEF ResoArgs
<1>8. ResoFollows' BY <1>1 DEF ResoFollows
<1> QED BY <1>2, <1>3, <1>5, <1>7, <1>8 DEF ResoInv

\* The position that is loaded has the spacings of the edits.
LEMMA LoadReso ==
  ASSUME Control, ResoInv, Load PROVE ResoInv'
<1>1. /\ filed' = TRUE /\ event' \notin Follows /\ pressed = "none"
      /\ UNCHANGED <<update, pressed>>
  BY DEF Load, Event, Follows
<1>2. PICK k \in Waves, t \in Turns, s \in BOOLEAN, withReso \in BOOLEAN,
           a \in Spacings :
        LET new == [ki |-> k, kf |-> k, tt |-> t, th |-> t]
            d == [mono |-> 0, ana |-> a]
        IN  /\ tri' = new
            /\ peak' = EndOfQ(new)
            /\ edits' = d /\ filed' = TRUE
            /\ reso' = [reso EXCEPT !.open = @ \/ withReso]
            /\ todo' =
                 (IF s # sense.sample
                   THEN <<CallWith("SetSense", Only("sample", s))>>
                                      ELSE <<>>)
                 \o <<CallWith("TriangleMoved", "KfQ"),
                      CallWith("RealMoved", "sample")>>
                 \o (IF withReso /\ ~reso.open THEN InitReso ELSE <<>>)
                 \o (IF withReso
                     THEN <<CallWith("ResoLoad",
                              [ki |-> k, kf |-> k, tt |-> FoldedTurn(t),
                               mono |-> BraggAngle(k, d.mono),
                               ana |-> BraggAngle(k, d.ana),
                               dm |-> d.mono, da |-> d.ana])>>
                     ELSE <<>>)
                 \o <<CallOf("LoadEnd")>>
  BY DEF Load
<1> DEFINE d == [mono |-> 0, ana |-> a]
           u == [ki |-> k, kf |-> k, tt |-> FoldedTurn(t),
                 mono |-> BraggAngle(k, d.mono), ana |-> BraggAngle(k, d.ana),
                 dm |-> d.mono, da |-> d.ana]
           f == CallWith("SetSense", Only("sample", s))
           g == CallWith("TriangleMoved", "KfQ")
           h == CallWith("RealMoved", "sample")
           l == CallWith("ResoLoad", u)
           e == CallOf("LoadEnd")
           A == IF s # sense.sample THEN <<f>> ELSE <<>>
           B == <<g, h>>
           C == IF withReso /\ ~reso.open THEN InitReso ELSE <<>>
           D == IF withReso THEN <<l>> ELSE <<>>
           E == <<e>>
           G(q) == IsStack(q) /\ ResoArgs(q, d, "none")
<1>3. todo' = A \o B \o C \o D \o E /\ edits' = d
      /\ reso' = [reso EXCEPT !.open = @ \/ withReso]
  BY <1>2
<1>4. /\ f.op = "SetSense" /\ g.op = "TriangleMoved" /\ h.op = "RealMoved"
      /\ l.op = "ResoLoad" /\ l.arg = u /\ e.op = "LoadEnd"
  BY Calling
<1>5. ResoArg(l, d, "none")
  <2>1. u.dm = d.mono /\ u.da = d.ana /\ DOMAIN u = Fields
        /\ u = [x \in DOMAIN u |-> u[x]]
    BY DEF Fields
  <2> HIDE DEF u, d, l
  <2>2. IsPosition(u) BY <2>1 DEF IsPosition
  <2> QED BY <1>4, <2>1, <2>2 DEF ResoArg
<1> HIDE DEF d, u, f, g, h, l, e
<1>6. G(<<>>) BY FirstReso, EmptyStack
<1>7. G(A)
  <2>1. G(<<f>>) BY <1>4, OneArg, One
  <2> QED BY <1>6, <2>1 DEF A
<1>8. G(B)
  <2>1. B = Push(g, Push(h, <<>>)) BY Two DEF B
  <2>2. ResoArg(g, d, "none") /\ ResoArg(h, d, "none") BY <1>4 DEF ResoArg
  <2>3. G(Push(h, <<>>)) BY <1>6, <2>2, ResoArgsPush, StackPush
  <2> HIDE DEF B
  <2> QED BY <2>1, <2>2, <2>3, ResoArgsPush, StackPush
<1>9. G(C) BY <1>6, InitResoArgs DEF C
<1>10. G(D)
  <2>1. G(<<l>>) BY <1>5, FirstReso, One
  <2> QED BY <1>6, <2>1 DEF D
<1>11. G(E) BY <1>4, OneArg, One DEF E
<1> HIDE DEF A, B, C, D, E
<1>12. \A p, q : G(p) /\ G(q) => G(p \o q) BY ResoArgsJoin
<1> HIDE DEF G
<1>13. G(A \o B) BY <1>7, <1>8, <1>12
<1>14. G(A \o B \o C) BY <1>9, <1>12, <1>13
<1>15. G(A \o B \o C \o D) BY <1>10, <1>12, <1>14
<1>16. G(todo') BY <1>3, <1>11, <1>12, <1>15
<1>17. ResoArgs(todo', edits', pressed') BY <1>1, <1>3, <1>16 DEF G
<1>18. ResoArgs(todo, edits, pressed)' BY <1>17 DEF ResoArgs
<1>19. ResoType' BY <1>1, <1>3 DEF ResoInv, ResoType, IsPosition
<1>20. UpdateRight' BY <1>1 DEF UpdateRight
<1>21. EditsDue' /\ SpacingDue' BY <1>1 DEF EditsDue, SpacingDue
<1>22. ResoFollows' BY <1>1 DEF ResoFollows
<1> QED BY <1>18, <1>19, <1>20, <1>21, <1>22 DEF ResoInv

LEMMA UserReso ==
  ASSUME Control, DataType', ShownType, LayoutInv, ResoInv, User PROVE ResoInv'
<1>1. CASE DragKiKf \/ DragKfQ \/ DragGq BY <1>1, DragTriangleReso
<1>2. CASE CheckSense BY <1>2, CheckSenseReso
<1>3. CASE DragReal BY <1>3, DragRealReso
<1>4. CASE VarsChanged BY <1>4, VarsChangedReso
<1>5. CASE \E s \in {"recip", "real", "tof"} : Press(s) BY <1>5, PressReso
<1>6. CASE Release BY <1>6, ReleaseReso
<1>7. CASE DragMono \/ DragTof \/ EditCrystal \/ ToggleSnap \/ ToggleKeep
  BY <1>7, QuietReso
<1>8. CASE EditSpacing \/ OpenReso \/ Load
  BY <1>8, EditReso, OpenGives, LoadReso
<1> QED BY <1>1, <1>2, <1>3, <1>4, <1>5, <1>6, <1>7, <1>8 DEF User

LEMMA SameReso ==
  ASSUME ResoInv, UNCHANGED scvars PROVE ResoInv'
<1>1. UNCHANGED <<todo, event, shown, tri, ds, sense, real, tof, edits, filed,
                  dont, reso, update, pressed>>
  BY DEF scvars, nodes, settings, optics, layouts, flags, dialogs, mouse
<1>2. TriangleAngles' = TriangleAngles /\ RealAngles' = RealAngles
  BY <1>1, SameAngles DEF RealAngles
<1>3. ResoType' /\ UpdateRight' /\ EditsDue' /\ SpacingDue'
  BY <1>1 DEF ResoInv, ResoType, IsPosition, UpdateRight, EditsDue, SpacingDue
<1>4. ResoArgs(todo, edits, pressed)' BY <1>1 DEF ResoInv, ResoArgs
<1>5. LastReal => LastReal' BY <1>1, <1>2 DEF LastReal, Arg
<1>6. PosDue => PosDue'
  BY <1>1 DEF PosDue, Fresh, WavesRight, CrystalsRight
<1>7. \A w : Refreshing(w) => Refreshing(w)'
      BY <1>1, SameContext DEF Refreshing
<1>8. \A w : Lifting(w) => Lifting(w)' BY <1>1, <1>2, SameContext DEF Lifting
<1>9. \A w : Showing(w) => Showing(w)'
  BY <1>1, <1>2, SameContext DEF Showing, Exact
<1>10. Settled => Settled' BY <1>1, <1>2 DEF Settled
<1>11. \A x : RealUp(x) => RealUp(x)' BY <1>1, <1>2 DEF RealUp
<1>12. ASSUME NEW w, ResoPhase(w) PROVE ResoPhase(w)'
  <2>1. CASE Refreshing(w) /\ ("SetSense" \in Ops(todo) \/ Calcs(todo, update))
    BY <1>1, <1>7, <2>1 DEF ResoPhase
  <2>2. CASE Showing(w) /\ PosDue BY <1>6, <1>9, <2>2 DEF ResoPhase
  <2>3. CASE Lifting(w) /\ Settled /\ PosDue
    BY <1>6, <1>8, <1>10, <2>3 DEF ResoPhase
  <2>4. CASE Lifting(w) /\ update.real
        /\ \E x \in {"mono", "ana", "tt"} : RealUp(x)
    BY <1>1, <1>8, <1>11, <2>4 DEF ResoPhase
  <2> QED BY <1>12, <2>1, <2>2, <2>3, <2>4 DEF ResoPhase
<1>13. ResoFits(todo) => ResoFits(todo)' BY <1>1 DEF ResoFits
<1>14. ResoFollows'
  BY <1>1, <1>5, <1>12, <1>13 DEF ResoInv, ResoFollows, Vars
<1> QED BY <1>3, <1>4, <1>14 DEF ResoInv

LEMMA ResoHolds == ScInit => ResoInv
<1> SUFFICES ASSUME ScInit PROVE ResoInv OBVIOUS
<1>1. /\ todo = <<>> /\ ~filed /\ event = "none" /\ edits = ds
      /\ reso = [open |-> FALSE, pars |-> Position, result |-> Position]
      /\ update = [real |-> TRUE, recip |-> TRUE]
  BY DEF ScInit
<1>2. DOMAIN Position = Fields /\ Position = [x \in DOMAIN Position
      |-> Position[x]]
  BY DEF Position, Fields
<1>3. IsPosition(Position) BY <1>2 DEF IsPosition
<1>4. ResoType
  <2>1. reso.pars = Position /\ reso.result = Position BY <1>1
  <2>2. DOMAIN reso = {"open", "pars", "result"} BY <1>1
  <2>3. DOMAIN update = {"real", "recip"} BY <1>1
  <2> QED BY <1>3, <2>1, <2>2, <2>3 DEF ResoType
<1>5. ResoArgs(todo, edits, pressed) BY <1>1, FirstReso
<1> QED BY <1>1, <1>4, <1>5
       DEF ResoInv, EditsDue, SpacingDue, UpdateRight, ResoFollows

\* ResoInvariance: after a movement in the triangle or in the triple-axis
\* layout, a change of sense or new variables, the parameters of the resolution
\* dialog are those of the instrument or going to be, and the last call that
\* changes one calculates the result, whichever of the two scenes the dialog
\* listens to while a node is moved (nodeEvent() in tools/taz/taz.cpp, and
\* RecipParamsChanged() and RealParamsChanged() in tools/res/ResoDlg.cpp); the
\* inductive invariant of ResolutionFollows.
THEOREM ResoInvariance == ScSpec => [](Control /\ LayoutInv /\ DialogInv
  /\ ResoInv)
<1> DEFINE Inv == Control /\ LayoutInv /\ DialogInv /\ ResoInv
<1>1. Control /\ LayoutInv /\ DialogInv /\ ResoInv /\ [ScNext]_scvars
      => ResoInv'
  <2> SUFFICES ASSUME Control, LayoutInv, DialogInv, ResoInv, [ScNext]_scvars
               PROVE ResoInv'
    OBVIOUS
  <2>1. ShownType BY DEF DialogInv
  <2>2. CASE Run BY <2>1, <2>2, RunControl, RunReso
  <2>3. CASE User
    <3>1. Control' BY <2>3, UserControl
    <3> QED BY <2>1, <2>3, <3>1, UserReso DEF Control
  <2>4. CASE UNCHANGED scvars BY <2>4, SameReso
  <2> QED BY <2>2, <2>3, <2>4 DEF ScNext, Spent
<1>2. ScInit => ResoInv BY ResoHolds
<1> QED BY <1>1, <1>2, LayoutInvariance, DialogInvariance, PTL DEF ScSpec

\* ResolutionFollowsAlways: whenever no call is under way and the last event
\* was one of these, the resolution that an open dialog shows is that of the
\* instrument's position, with the spacings that it was last given.
THEOREM ResolutionFollowsAlways == ScSpec => []ResolutionFollows
<1>1. ResoInv => ResolutionFollows
  <2> SUFFICES ASSUME ResoInv, todo = <<>>, reso.open, event \in Follows
               PROVE reso.result =
                 IF filed THEN [Position EXCEPT !.dm = reso.pars.dm,
                   !.da = reso.pars.da]
                          ELSE Position
    BY DEF ResolutionFollows, Idle, Follows
  <2> DEFINE r == reso.result
             p == reso.pars
             P == Position
             E == [Position EXCEPT !.dm = reso.pars.dm, !.da = reso.pars.da]
  <2>1. Right /\ (~filed => p.dm = ds.mono /\ p.da = ds.ana) BY IdleReso
  <2>2. r = [x \in Fields |-> r[x]] BY DEF ResoInv, ResoType, IsPosition
  <2>3. DOMAIN P = Fields /\ P = [x \in DOMAIN P |-> P[x]]
        BY DEF Position, Fields
  <2>4. DOMAIN E = Fields /\ E = [x \in DOMAIN E |-> E[x]]
        BY DEF Position, Fields
  <2>5. /\ P.ki = tri.ki /\ P.kf = tri.kf /\ P.tt = FoldedTurn(tri.tt)
        /\ P.mono = BraggAngle(tri.ki, ds.mono) /\ P.ana = BraggAngle(tri.kf,
             ds.ana)
        /\ P.dm = ds.mono /\ P.da = ds.ana
    BY DEF Position
  <2>6. /\ E.dm = p.dm /\ E.da = p.da
        /\ \A x \in Fields \ {"dm", "da"} : E[x] = P[x]
    BY DEF Position, Fields
  <2>7. \A x \in Fields \ {"dm", "da"} : r[x] = P[x]
    BY <2>1, <2>5 DEF Right, Fresh, WavesRight, CrystalsRight, Fields
  <2>8. r.dm = p.dm /\ r.da = p.da BY <2>1 DEF Right, Fresh, Fields
  <2> HIDE DEF r, p, P, E
  <2>9. CASE filed
    <3>1. \A x \in Fields : r[x] = E[x] BY <2>6, <2>7, <2>8 DEF Fields
    <3>2. r = E BY <2>2, <2>4, <3>1
    <3> QED BY <2>9, <3>2 DEF r, E
  <2>10. CASE ~filed
    <3>1. \A x \in Fields : r[x] = P[x]
          BY <2>1, <2>5, <2>7, <2>8, <2>10 DEF Fields
    <3>2. r = P BY <2>2, <2>3, <3>1
    <3> QED BY <2>10, <3>2 DEF r, P
  <2> QED BY <2>9, <2>10
<1> QED BY ResoInvariance, <1>1, PTL

==============================================================================
