------------------------------- MODULE Scenes -------------------------------
(***************************************************************************)
(* The views of the instrument in the main window: the scattering triangle *)
(* (tools/taz/scattering_triangle.cpp), the triple-axis and the time-of-   *)
(* flight layout (tas_layout.cpp, tof_layout.cpp), which set each other by *)
(* signals that TazDlg connects in a ring, and what listens to them: the   *)
(* parameter dialogs and the resolution dialog (tools/res/ResoDlg.cpp).    *)
(*                                                                         *)
(* All of it runs in the GUI thread.  A signal calls its slots at once, in *)
(* the order they were connected, and a slot may emit before it returns:   *)
(* todo is the stack of the calls that are still to be made or to be       *)
(* completed, and a step makes the first of them.                          *)
(*                                                                         *)
(* A wavenumber is one of NWaves values, the angles 2theta of the sample   *)
(* and theta are turns in Z_NTurns, and Bragg's law relates wavenumber,    *)
(* lattice spacing and angle of the monochromator and of the analyser one  *)
(* to one for each spacing.  Positions, lengths and drawing are left out.  *)
(***************************************************************************)
EXTENDS Integers, Sequences

CONSTANTS
  NWaves,     \* number of wavenumbers
  NTurns,     \* number of values of an angle at the sample
  NSpacings,  \* number of lattice spacings
  MaxEvents   \* bound: events of the user, the network and of files

ASSUME ScAssumption ==
  /\ NWaves \in Nat \ {0}
  /\ NTurns \in Nat \ {0, 1}
  /\ NSpacings \in Nat \ {0}

VARIABLES
  tri,      \* the nodes of the triangle: ki, kf, 2theta, theta
  peak,     \* where the node between G and q is
  snap,     \* m_bSnapq
  keep,     \* m_bKeepAbsKiKf
  ds,       \* m_dMonoD, m_dAnaD of the triangle
  edits,    \* editMonoD, editAnaD of the main window
  sense,    \* m_bMonoPosSense, m_bSamplePosSense, m_bAnaPosSense
  filed,    \* history: the edits have a file's spacings that nobody took over
  real,     \* the angles of the triple-axis layout
  tof,      \* the angles of the time-of-flight layout
  ready,    \* m_bReady of the triangle and of the triple-axis layout
  dont,     \* m_bDontEmitChange of the three scenes
  busy,     \* ~bAllowUpdate of the nodeMoved() of the two layouts
  shown,    \* what the dialogs show of the triangle and of the layout
  reso,     \* the resolution dialog: its parameters, those of the result
  update,   \* m_bUpdateOnRealEvent, m_bUpdateOnRecipEvent
  todo,     \* the calls to be made or completed
  pressed,  \* the scene in which the mouse is pressed
  event,    \* history: the last event
  events    \* number of events so far

nodes == <<tri, peak>>
settings == <<snap, keep, edits>>
optics == <<ds, sense, filed>>
layouts == <<real, tof>>
flags == <<ready, dont, busy>>
dialogs == <<shown, reso, update>>
mouse == <<pressed, event, events>>
scvars == <<nodes, settings, optics, layouts, flags, dialogs, todo, mouse>>

Waves == 0 .. NWaves - 1
Turns == 0 .. NTurns - 1
Spacings == 0 .. NSpacings - 1
BraggPeaks == 0 .. 1
Between == 2

Crystals == {"mono", "ana"}
Magnitudes == 1 .. NWaves
SignedAngles == (0 - NWaves .. NWaves) \ {0}

Abs(a) == IF a < 0 THEN 0 - a ELSE a
Signed(a, pos) == IF pos THEN a ELSE 0 - a
Turn(t, pos) == IF pos THEN t ELSE (NTurns - t) % NTurns
BraggAngle(k, d) == ((k + d) % NWaves) + 1
Wavenumber(a, d) == CHOOSE k \in Waves : BraggAngle(k, d) = a

\* Q is the third side of the triangle; the peak that is nearest to its end.
EndOfQ(t) == (t.ki + t.kf + t.tt + t.th) % 2

\* GetMonoTwoTheta, GetAnaTwoTheta, GetTwoTheta, GetTheta
TriangleAngles ==
  [mono |-> Signed(BraggAngle(tri.ki, ds.mono), sense.mono),
   ana |-> Signed(BraggAngle(tri.kf, ds.ana), sense.ana),
   tt |-> Turn(tri.tt, sense.sample),
   th |-> Turn(tri.th, sense.sample)]

\* The parameters of emitAllParams().  They determine the angle of ki and Q.
Params == [tri |-> tri, pos |-> sense.sample]

RealAngles == [x \in {"mono", "ana", "tt", "th"} |-> real[x]]

\* What the resolution depends on: units::abs() of the angles.
FoldedTurn(t) == IF 2 * t > NTurns THEN NTurns - t ELSE t
Position ==
  [ki |-> tri.ki, kf |-> tri.kf, tt |-> FoldedTurn(tri.tt),
   mono |-> BraggAngle(tri.ki, ds.mono), ana |-> BraggAngle(tri.kf, ds.ana),
   dm |-> ds.mono, da |-> ds.ana]

-----------------------------------------------------------------------------
(* The stack of calls.                                                     *)

CallOf(o) == [op |-> o]
CallWith(o, a) == [op |-> o, arg |-> a]
At(o) == todo # <<>> /\ Head(todo).op = o
Arg == Head(todo).arg
Calls(s) == todo' = s \o Tail(todo)
Idle == todo = <<>>

Only(x, v) == [y \in {x} |-> v]

-----------------------------------------------------------------------------
(* The scattering triangle.                                                *)

\* nodeMoved() with m_bUpdate: the setters' first call, made without it for
\* the node of ki and kf, does nothing.
TriangleMoved ==
  /\ At("TriangleMoved")
  /\ IF ~ready.tri
     THEN peak' = peak /\ Calls(<<>>)
     ELSE LET moved == snap /\ Arg = "KfQ" /\ peak # EndOfQ(tri)
          IN  /\ peak' = IF moved THEN EndOfQ(tri) ELSE peak
              /\ Calls((IF moved THEN <<CallWith("TriangleMoved", "Gq")>>
                                 ELSE <<>>)
                       \o <<CallOf("EmitUpdate"), CallOf("EmitAllParams")>>)
  /\ UNCHANGED <<tri, settings, optics, layouts, flags, dialogs, mouse>>

\* emitUpdate(): triangleChanged(opts), to both layouts.
EmitUpdate ==
  /\ At("EmitUpdate")
  /\ Calls(IF ready.tri /\ ~dont.recip
           THEN <<CallWith("RealTriangleChanged", TriangleAngles),
                  CallWith("TofTriangleChanged", TriangleAngles)>>
           ELSE <<>>)
  /\ UNCHANGED <<nodes, settings, optics, layouts, flags, dialogs, mouse>>

\* Mutant: nothing is emitted while changes are not.
EmitAllParamsQuietly ==
  /\ At("EmitAllParams")
  /\ Calls(IF ready.tri /\ ~dont.recip
           THEN <<CallWith("RealAngleKiQ", Params),
                  CallWith("TofAngleKiQ", Params),
                  CallWith("RecipDialogs", Params)>>
           ELSE <<>>)
  /\ UNCHANGED <<nodes, settings, optics, layouts, flags, dialogs, mouse>>

\* emitAllParams(): "emit even with m_bDontEmitChange because of Q vector in
\* real space".
EmitAllParams ==
  /\ At("EmitAllParams")
  /\ Calls(IF ready.tri
           THEN <<CallWith("RealAngleKiQ", Params),
                  CallWith("TofAngleKiQ", Params),
                  CallWith("RecipDialogs", Params)>>
           ELSE <<>>)
  /\ UNCHANGED <<nodes, settings, optics, layouts, flags, dialogs, mouse>>

\* tasChanged() of the triangle: the setters for what is said to be changed.
TasChanged ==
  /\ At("TasChanged")
  /\ IF ~ready.tri
     THEN dont' = dont /\ Calls(<<>>)
     ELSE LET Setters(x) == IF x \in DOMAIN Arg
                            THEN <<CallWith("Set", Only(x, Arg[x]))>>
                            ELSE <<>>
          IN  /\ dont' = [dont EXCEPT !.recip = TRUE]
              /\ Calls(Setters("mono") \o Setters("ana") \o Setters("tt")
                       \o Setters("kivec") \o <<CallOf("TasChangedEnd")>>)
  /\ UNCHANGED <<nodes, settings, optics, layouts, ready, busy, dialogs,
                 mouse>>

TasChangedEnd ==
  /\ At("TasChangedEnd")
  /\ dont' = [dont EXCEPT !.recip = FALSE]
  /\ Calls(<<>>)
  /\ UNCHANGED <<nodes, settings, optics, layouts, ready, busy, dialogs,
                 mouse>>

\* Mutant: the wavenumber is that of another lattice spacing.
SetOtherSpacing ==
  /\ At("Set")
  /\ LET x == CHOOSE y \in DOMAIN Arg : TRUE
     IN  tri' = CASE x = "mono" ->
                       [tri EXCEPT !.ki = Wavenumber(Abs(Arg[x]), ds.ana)]
                  [] x = "ana" ->
                       [tri EXCEPT !.kf = Wavenumber(Abs(Arg[x]), ds.ana)]
                  [] x = "tt" -> [tri EXCEPT !.tt = Turn(Arg[x], sense.sample)]
                  [] x = "kivec" -> [tri EXCEPT !.th = Turn(Arg[x], FALSE)]
  /\ Calls(<<CallWith("TriangleMoved", "KfQ")>>)
  /\ UNCHANGED <<peak, settings, optics, layouts, flags, dialogs, mouse>>

\* SetMonoTwoTheta, SetAnaTwoTheta, SetTwoTheta, RotateKiVec0To.
Set ==
  /\ At("Set")
  /\ LET x == CHOOSE y \in DOMAIN Arg : TRUE
     IN  tri' = CASE x = "mono" ->
                       [tri EXCEPT !.ki = Wavenumber(Abs(Arg[x]), ds.mono)]
                  [] x = "ana" ->
                       [tri EXCEPT !.kf = Wavenumber(Abs(Arg[x]), ds.ana)]
                  [] x = "tt" -> [tri EXCEPT !.tt = Turn(Arg[x], sense.sample)]
                  [] x = "kivec" -> [tri EXCEPT !.th = Turn(Arg[x], FALSE)]
  /\ Calls(<<CallWith("TriangleMoved", "KfQ")>>)
  /\ UNCHANGED <<peak, settings, optics, layouts, flags, dialogs, mouse>>

-----------------------------------------------------------------------------
(* The triple-axis layout.                                                 *)

\* triangleChanged() of the layout, without changes of lengths and angles by
\* nodeMoved().  SetSampleTwoTheta calls it twice, at first without m_bUpdate.
RealTriangleChanged ==
  /\ At("RealTriangleChanged")
  /\ IF ~ready.real
     THEN dont' = dont /\ Calls(<<>>)
     ELSE LET Setters(x) == IF x \in DOMAIN Arg
                            THEN <<CallWith("RealSet", Only(x, Arg[x]))>>
                            ELSE <<>>
          IN  /\ dont' = [dont EXCEPT !.real = TRUE]
              /\ Calls(Setters("mono") \o Setters("ana") \o Setters("th")
                       \o Setters("tt") \o <<CallOf("RealTriangleChangedEnd")>>)
  /\ UNCHANGED <<nodes, settings, optics, layouts, ready, busy, dialogs,
                 mouse>>

RealTriangleChangedEnd ==
  /\ At("RealTriangleChangedEnd")
  /\ dont' = [dont EXCEPT !.real = FALSE]
  /\ Calls(<<>>)
  /\ UNCHANGED <<nodes, settings, optics, layouts, ready, busy, dialogs,
                 mouse>>

RealSet ==
  /\ At("RealSet")
  /\ LET x == CHOOSE y \in DOMAIN Arg : TRUE
     IN  /\ real' = [real EXCEPT ![x] = Arg[x]]
         /\ Calls(CASE x = "mono" -> <<CallWith("RealMoved", "mono")>>
                    [] x = "ana" -> <<CallWith("RealMoved", "ana")>>
                    [] x = "th" -> <<CallWith("RealMoved", "none")>>
                    [] x = "tt" -> <<CallWith("RealMovedFirst", "sample"),
                                     CallWith("RealMoved", "ana")>>)
  /\ UNCHANGED <<nodes, settings, optics, tof, flags, dialogs, mouse>>

\* recipParamsChanged(): SetAngleKiQ
RealAngleKiQ ==
  /\ At("RealAngleKiQ")
  /\ real' = [real EXCEPT !.kiq = Arg]
  /\ Calls(<<CallWith("RealMoved", "none")>>)
  /\ UNCHANGED <<nodes, settings, optics, tof, flags, dialogs, mouse>>

\* nodeMoved(), which "prevents recursive calling of update".
RealMoved ==
  /\ At("RealMoved") \/ At("RealMovedFirst")
  /\ IF ~ready.real \/ busy.real
     THEN busy' = busy /\ Calls(<<>>)
     ELSE /\ busy' = [busy EXCEPT !.real = TRUE]
          /\ Calls((CASE Arg = "sample" ->
                          <<CallWith("RealEmit", Only("mono", real.mono))>>
                      [] Arg = "ana" ->
                          <<CallWith("RealEmit", Only("tt", real.tt))>>
                      [] Arg = "det" ->
                          <<CallWith("RealEmit", Only("ana", real.ana))>>
                      [] OTHER -> <<>>)
                   \o <<CallWith("RealMovedEnd", At("RealMoved"))>>)
  /\ UNCHANGED <<nodes, settings, optics, layouts, ready, dont, dialogs,
                 mouse>>

RealMovedEnd ==
  /\ At("RealMovedEnd")
  /\ busy' = [busy EXCEPT !.real = FALSE]
  /\ Calls(IF Arg THEN <<CallOf("RealEmitAllParams")>> ELSE <<>>)
  /\ UNCHANGED <<nodes, settings, optics, layouts, ready, dont, dialogs,
                 mouse>>

\* emitUpdate(): tasChanged(opts), to the triangle and to the other layout.
RealEmit ==
  /\ At("RealEmit")
  /\ Calls(IF ready.real /\ ~dont.real
           THEN <<CallWith("TasChanged", Arg),
                  CallWith("TofTriangleChanged", Arg)>>
           ELSE <<>>)
  /\ UNCHANGED <<nodes, settings, optics, layouts, flags, dialogs, mouse>>

\* emitAllParams() of the layout, to its dialog and to the resolution dialog.
RealEmitAllParams ==
  /\ At("RealEmitAllParams")
  /\ IF ready.real /\ ~dont.real
     THEN /\ shown' = [shown EXCEPT !.real = RealAngles]
          /\ Calls(IF reso.open THEN <<CallWith("ResoReal", RealAngles)>>
                                ELSE <<>>)
     ELSE shown' = shown /\ Calls(<<>>)
  /\ UNCHANGED <<nodes, settings, optics, layouts, flags, reso, update, mouse>>

RealLayout ==
  \/ RealTriangleChanged \/ RealTriangleChangedEnd \/ RealSet
  \/ RealAngleKiQ \/ RealMoved \/ RealMovedEnd
  \/ RealEmit \/ RealEmitAllParams

-----------------------------------------------------------------------------
(* The time-of-flight layout.  Nothing is connected to its parameters.     *)

TofTriangleChanged ==
  /\ At("TofTriangleChanged")
  /\ LET Setters(x) == IF x \in DOMAIN Arg
                       THEN <<CallWith("TofSet", Only(x, Arg[x]))>>
                       ELSE <<>>
     IN  /\ dont' = [dont EXCEPT !.tof = TRUE]
         /\ Calls(Setters("th") \o Setters("tt")
                  \o <<CallOf("TofTriangleChangedEnd")>>)
  /\ UNCHANGED <<nodes, settings, optics, layouts, ready, busy, dialogs,
                 mouse>>

TofTriangleChangedEnd ==
  /\ At("TofTriangleChangedEnd")
  /\ dont' = [dont EXCEPT !.tof = FALSE]
  /\ Calls(<<>>)
  /\ UNCHANGED <<nodes, settings, optics, layouts, ready, busy, dialogs,
                 mouse>>

TofSet ==
  /\ At("TofSet")
  /\ LET x == CHOOSE y \in DOMAIN Arg : TRUE
     IN  /\ tof' = [tof EXCEPT ![x] = Arg[x]]
         /\ Calls(IF x = "tt" THEN <<CallWith("TofMoved", "sample"),
                                     CallWith("TofMoved", "det")>>
                              ELSE <<CallWith("TofMoved", "none")>>)
  /\ UNCHANGED <<nodes, settings, optics, real, flags, dialogs, mouse>>

TofAngleKiQ ==
  /\ At("TofAngleKiQ")
  /\ tof' = [tof EXCEPT !.kiq = Arg]
  /\ Calls(<<CallWith("TofMoved", "none")>>)
  /\ UNCHANGED <<nodes, settings, optics, real, flags, dialogs, mouse>>

TofMoved ==
  /\ At("TofMoved")
  /\ IF busy.tof
     THEN busy' = busy /\ Calls(<<>>)
     ELSE /\ busy' = [busy EXCEPT !.tof = TRUE]
          /\ Calls((IF Arg \in {"sample", "det"}
                    THEN <<CallWith("TofEmit", Only("tt", tof.tt))>>
                    ELSE <<>>) \o <<CallOf("TofMovedEnd")>>)
  /\ UNCHANGED <<nodes, settings, optics, layouts, ready, dont, dialogs,
                 mouse>>

TofMovedEnd ==
  /\ At("TofMovedEnd")
  /\ busy' = [busy EXCEPT !.tof = FALSE]
  /\ Calls(<<>>)
  /\ UNCHANGED <<nodes, settings, optics, layouts, ready, dont, dialogs,
                 mouse>>

\* emitUpdate(): tasChanged(opts), to the triangle and to the other layout.
TofEmit ==
  /\ At("TofEmit")
  /\ Calls(IF dont.tof THEN <<>>
           ELSE <<CallWith("TasChanged", Arg),
                  CallWith("RealTriangleChanged", Arg)>>)
  /\ UNCHANGED <<nodes, settings, optics, layouts, flags, dialogs, mouse>>

TofLayout ==
  \/ TofTriangleChanged \/ TofTriangleChangedEnd \/ TofSet
  \/ TofAngleKiQ \/ TofMoved \/ TofMovedEnd \/ TofEmit

-----------------------------------------------------------------------------
(* The dialogs.                                                            *)

\* The parameter dialog and the status bar show the triangle; the resolution
\* dialog is connected after them.
RecipDialogs ==
  /\ At("RecipDialogs")
  /\ shown' = [shown EXCEPT !.recip = Arg]
  /\ Calls(IF reso.open THEN <<CallWith("ResoRecip", Arg)>> ELSE <<>>)
  /\ UNCHANGED <<nodes, settings, optics, layouts, flags, reso, update, mouse>>

\* Calc(), of the parameters p, if it is to be made now.
Calculated(p, now) ==
  reso' = [reso EXCEPT !.pars = p, !.result = IF now THEN p ELSE @]

\* Mutant: the result is not calculated again while the triangle is moved.
ResoRecipWaits ==
  /\ At("ResoRecip")
  /\ Calculated([reso.pars EXCEPT !.ki = Arg.tri.ki, !.kf = Arg.tri.kf,
                                  !.tt = FoldedTurn(Arg.tri.tt)],
                update.recip /\ pressed = "none")
  /\ Calls(<<>>)
  /\ UNCHANGED <<nodes, settings, optics, layouts, flags, shown, update,
                 mouse>>

\* RecipParamsChanged
ResoRecip ==
  /\ At("ResoRecip")
  /\ Calculated([reso.pars EXCEPT !.ki = Arg.tri.ki, !.kf = Arg.tri.kf,
                                  !.tt = FoldedTurn(Arg.tri.tt)], update.recip)
  /\ Calls(<<>>)
  /\ UNCHANGED <<nodes, settings, optics, layouts, flags, shown, update,
                 mouse>>

\* RealParamsChanged: the angles of the crystals and at the sample.
ResoReal ==
  /\ At("ResoReal")
  /\ Calculated([reso.pars EXCEPT !.mono = Abs(Arg.mono), !.ana = Abs(Arg.ana),
                                  !.tt = FoldedTurn(Arg.tt)], update.real)
  /\ Calls(<<>>)
  /\ UNCHANGED <<nodes, settings, optics, layouts, flags, shown, update,
                 mouse>>

\* ResoParamsChanged: the lattice spacings, or a scattering sense.
ResoPars ==
  /\ At("ResoPars")
  /\ IF reso.open
     THEN Calculated([reso.pars EXCEPT !.dm = Arg.mono, !.da = Arg.ana], TRUE)
     ELSE reso' = reso
  /\ Calls(<<>>)
  /\ UNCHANGED <<nodes, settings, optics, layouts, flags, shown, update,
                 mouse>>

ResoSense ==
  /\ At("ResoSense")
  /\ IF reso.open THEN Calculated(reso.pars, TRUE) ELSE reso' = reso
  /\ Calls(<<>>)
  /\ UNCHANGED <<nodes, settings, optics, layouts, flags, shown, update,
                 mouse>>

\* InitReso()
InitReso == <<CallOf("UpdateDs"),
              CallWith("SetSense", Only("mono", sense.mono)),
              CallWith("SetSense", Only("sample", sense.sample)),
              CallWith("SetSense", Only("ana", sense.ana)),
              CallOf("EmitAllParams"), CallOf("RealEmitAllParams")>>

\* Load() of the resolution dialog, which has the position of the file.
ResoLoad ==
  /\ At("ResoLoad")
  /\ Calculated(Arg, TRUE)
  /\ update' = [real |-> FALSE, recip |-> FALSE]
  /\ Calls(<<>>)
  /\ UNCHANGED <<nodes, settings, optics, layouts, flags, shown, mouse>>

ResoUpdateOn ==
  /\ At("ResoUpdateOn")
  /\ update' = [real |-> TRUE, recip |-> TRUE]
  /\ Calls(<<>>)
  /\ UNCHANGED <<nodes, settings, optics, layouts, flags, shown, reso, mouse>>

Dialogs ==
  \/ RecipDialogs \/ ResoRecip \/ ResoReal \/ ResoPars \/ ResoSense
  \/ ResoLoad \/ ResoUpdateOn

-----------------------------------------------------------------------------
(* The main window.                                                        *)

\* UpdateDs(): SetDs() and the resolution dialog.
UpdateDs ==
  /\ At("UpdateDs")
  /\ ds' = edits /\ filed' = FALSE
  /\ Calls(<<CallOf("EmitUpdate"), CallWith("ResoPars", edits)>>)
  /\ UNCHANGED <<nodes, settings, sense, layouts, flags, dialogs, mouse>>

\* UpdateMonoSense, UpdateSampleSense, UpdateAnaSense.
SetSense ==
  /\ At("SetSense")
  /\ LET x == CHOOSE y \in DOMAIN Arg : TRUE
     IN  /\ sense' = [sense EXCEPT ![x] = Arg[x]]
         /\ Calls(<<CallOf("EmitUpdate"), CallOf("EmitAllParams"),
                    CallOf("ResoSense")>>
                  \o IF x = "sample" THEN <<CallOf("EmitUpdate")>> ELSE <<>>)
  /\ UNCHANGED <<nodes, settings, ds, filed, layouts, flags, dialogs, mouse>>

\* CalcPeaks(): the peaks of a crystal, by the triangle's own CalcPeaks() that
\* emits the parameters.
CalcPeaks ==
  /\ At("CalcPeaks")
  /\ Calls(<<CallOf("EmitAllParams"), CallOf("SnapToPeak"),
             CallOf("EmitUpdate")>>)
  /\ UNCHANGED <<nodes, settings, optics, layouts, flags, dialogs, mouse>>

\* SnapToNearestPeak(), of the node of G and q.
SnapToPeak ==
  /\ At("SnapToPeak")
  /\ \E p \in IF snap THEN BraggPeaks ELSE {peak} :
       /\ peak' = p
       /\ Calls(IF p # peak THEN <<CallWith("TriangleMoved", "Gq")>> ELSE <<>>)
  /\ UNCHANGED <<tri, settings, optics, layouts, flags, dialogs, mouse>>

\* Load(): the scenes are ready and emit again.
LoadEnd ==
  /\ At("LoadEnd")
  /\ ready' = [tri |-> TRUE, real |-> TRUE]
  /\ dont' = [dont EXCEPT !.recip = FALSE, !.real = FALSE]
  /\ Calls(<<CallOf("CalcPeaks"), CallOf("EmitUpdate")>>
           \o IF reso.open THEN <<CallOf("ResoUpdateOn"), CallOf("EmitAllParams")>>
                           ELSE <<>>)
  /\ UNCHANGED <<nodes, settings, optics, layouts, busy, dialogs, mouse>>

MainWindow == UpdateDs \/ SetSense \/ CalcPeaks \/ SnapToPeak \/ LoadEnd

Run ==
  \/ TriangleMoved \/ EmitUpdate \/ EmitAllParams
  \/ TasChanged \/ TasChangedEnd \/ Set
  \/ RealLayout \/ TofLayout \/ Dialogs \/ MainWindow

-----------------------------------------------------------------------------
(* Events: when all calls have returned.                                   *)

Event(e) ==
  /\ Idle /\ events < MaxEvents
  /\ event' = e
  /\ events' = events + 1

\* mousePressEvent and mouseReleaseEvent: nodeEvent(), by which the main
\* window "optimises reso dialog update policy".
Press(s) ==
  /\ Event("press") /\ pressed = "none"
  /\ pressed' = s
  /\ update' = IF reso.open THEN [real |-> s # "recip", recip |-> s = "recip"]
                              ELSE update
  /\ UNCHANGED <<nodes, settings, optics, layouts, flags, shown, reso, todo>>

Release ==
  /\ Idle /\ pressed # "none"
  /\ pressed' = "none"
  /\ update' = IF reso.open THEN [real |-> TRUE, recip |-> TRUE] ELSE update
  /\ UNCHANGED <<nodes, settings, optics, layouts, flags, shown, reso, todo,
                 event, events>>

\* The node of ki and kf is dragged: the other two, and so Q, stay.
DragKiKf ==
  /\ Event("recip") /\ pressed = "recip"
  /\ \E t \in [ki : Waves, kf : Waves, tt : Turns, th : Turns] :
       t # tri /\ EndOfQ(t) = EndOfQ(tri) /\ tri' = t
  /\ todo' = <<CallWith("TriangleMoved", "KiKf")>>
  /\ UNCHANGED <<peak, settings, optics, layouts, flags, dialogs, pressed>>

\* The node of kf and Q is dragged.  With m_bKeepAbsKiKf the node of ki and kf
\* follows, before and without m_bReady, so that ki and kf keep their lengths.
DragKfQ ==
  /\ Event("recip") /\ pressed = "recip"
  /\ \E k \in Waves, t, h \in Turns :
       /\ tri' = IF keep THEN [tri EXCEPT !.tt = t, !.th = h]
                         ELSE [tri EXCEPT !.kf = k, !.tt = t]
       /\ tri' # tri
  /\ todo' = <<CallWith("TriangleMoved", "KfQ")>>
  /\ UNCHANGED <<peak, settings, optics, layouts, flags, dialogs, pressed>>

\* The node of G and q is dragged, from peak to peak if it snaps.
DragGq ==
  /\ Event("recip") /\ pressed = "recip"
  /\ \E p \in IF snap THEN BraggPeaks ELSE BraggPeaks \cup {Between} :
       p # peak /\ peak' = p
  /\ todo' = <<CallWith("TriangleMoved", "Gq")>>
  /\ UNCHANGED <<tri, settings, optics, layouts, flags, dialogs, pressed>>

\* A node of the triple-axis layout is dragged; nodeMoved() takes the angle
\* from the positions.
DragReal ==
  /\ Event("real") /\ pressed = "real"
  /\ \/ \E a \in SignedAngles :
          /\ real' = [real EXCEPT !.mono = a]
          /\ todo' = <<CallWith("RealMoved", "sample")>>
     \/ \E a \in SignedAngles :
          /\ real' = [real EXCEPT !.ana = a]
          /\ todo' = <<CallWith("RealMoved", "det")>>
     \/ \E t \in Turns :
          /\ real' = [real EXCEPT !.tt = t]
          /\ todo' = <<CallWith("RealMoved", "ana")>>
  /\ UNCHANGED <<nodes, settings, optics, tof, flags, dialogs, pressed>>

\* The monochromator takes the others along.
DragMono ==
  /\ Event("mono") /\ pressed = "real"
  /\ todo' = <<CallWith("RealMoved", "mono")>>
  /\ UNCHANGED <<nodes, settings, optics, layouts, flags, dialogs, pressed>>

DragTof ==
  /\ Event("tof") /\ pressed = "tof"
  /\ \/ tof' = tof /\ todo' = <<CallWith("TofMoved", "sample")>>
     \/ \E t \in Turns :
          /\ tof' = [tof EXCEPT !.tt = t]
          /\ todo' = <<CallWith("TofMoved", "det")>>
  /\ UNCHANGED <<nodes, settings, optics, real, flags, dialogs, pressed>>

\* The user checks the sense of scattering.
CheckSense ==
  /\ Event("sense")
  /\ \E x \in DOMAIN sense : todo' = <<CallWith("SetSense", Only(x, ~sense[x]))>>
  /\ UNCHANGED <<nodes, settings, optics, layouts, flags, dialogs, pressed>>

\* The user edits a lattice spacing, the crystal, or the options of q.
EditSpacing ==
  /\ Event("spacing")
  /\ \E x \in Crystals, d \in Spacings :
       edits[x] # d /\ edits' = [edits EXCEPT ![x] = d]
  /\ todo' = <<CallOf("UpdateDs")>>
  /\ UNCHANGED <<nodes, snap, keep, optics, layouts, flags, dialogs, pressed>>

EditCrystal ==
  /\ Event("crystal")
  /\ todo' = <<CallOf("CalcPeaks")>>
  /\ UNCHANGED <<nodes, settings, optics, layouts, flags, dialogs, pressed>>

\* setSnapq
ToggleSnap ==
  /\ Event("snap")
  /\ snap' = ~snap
  /\ peak' = IF snap' THEN EndOfQ(tri) ELSE peak
  /\ todo' = IF peak' # peak THEN <<CallWith("TriangleMoved", "Gq")>> ELSE <<>>
  /\ UNCHANGED <<tri, keep, edits, optics, layouts, flags, dialogs, pressed>>

ToggleKeep ==
  /\ Event("keep")
  /\ keep' = ~keep
  /\ UNCHANGED <<nodes, snap, edits, optics, layouts, flags, dialogs, pressed,
                 todo>>

\* VarsChanged(), from the "goto" dialog, an instrument or New(); "hack!": the
\* angle at the sample is that of the sense that is checked.
VarsOf(v) ==
  IF "tt" \in DOMAIN v THEN [v EXCEPT !.tt = Turn(@, sense.sample)] ELSE v

VarsChanged ==
  /\ Event("vars")
  /\ \E v \in [{"mono"} -> SignedAngles] \cup [{"ana"} -> SignedAngles]
              \cup [{"tt"} -> Turns] \cup [{"tt", "kivec"} -> Turns] :
       todo' = <<CallWith("RealTriangleChanged", VarsOf(v)),
                 CallWith("RealEmit", VarsOf(v)),
                 CallWith("SetSense", Only("mono", sense.mono)),
                 CallWith("SetSense", Only("ana", sense.ana)),
                 CallWith("SetSense", Only("sample", sense.sample))>>
               \o IF "kivec" \in DOMAIN v
                  THEN <<CallWith("TasChanged", VarsOf(v)), CallOf("EmitUpdate")>>
                  ELSE <<>>
  /\ UNCHANGED <<nodes, settings, optics, layouts, flags, dialogs, pressed>>

\* ShowResoParams(), the first time.
OpenReso ==
  /\ Event("reso") /\ ~reso.open
  /\ reso' = [reso EXCEPT !.open = TRUE]
  /\ update' = [real |-> TRUE, recip |-> TRUE]
  /\ todo' = InitReso
  /\ UNCHANGED <<nodes, settings, optics, layouts, flags, shown, pressed>>

\* Load(): while the file is read, the scenes are not ready and do not emit.
\* The edits of the spacings get the text of the file: no textEdited() signal.
Load ==
  /\ Event("load") /\ pressed = "none"
  /\ \E k \in Waves, t \in Turns, s \in BOOLEAN, withReso \in BOOLEAN,
        a \in Spacings :
       LET new == [ki |-> k, kf |-> k, tt |-> t, th |-> t]
           d == [mono |-> 0, ana |-> a]
       IN  /\ tri' = new
           /\ peak' = EndOfQ(new)
           /\ edits' = d /\ filed' = TRUE
           /\ reso' = [reso EXCEPT !.open = @ \/ withReso]
           /\ todo' =
                (IF s # sense.sample THEN <<CallWith("SetSense", Only("sample", s))>>
                                     ELSE <<>>)
                \o <<CallWith("TriangleMoved", "KfQ"),
                     CallWith("RealMoved", "sample")>>
                \o (IF withReso /\ ~reso.open THEN InitReso ELSE <<>>)
                \o (IF withReso
                    THEN <<CallWith("ResoLoad",
                             [ki |-> k, kf |-> k, tt |-> FoldedTurn(t),
                              mono |-> BraggAngle(k, d.mono),
                              ana |-> BraggAngle(k, d.ana),
                              dm |-> d.mono, da |-> d.ana])>>
                    ELSE <<>>)
                \o <<CallOf("LoadEnd")>>
  /\ ready' = [tri |-> FALSE, real |-> FALSE]
  /\ dont' = [dont EXCEPT !.recip = TRUE, !.real = TRUE]
  /\ UNCHANGED <<snap, keep, ds, sense, layouts, busy, shown, update, pressed>>

User ==
  \/ \E s \in {"recip", "real", "tof"} : Press(s)
  \/ Release
  \/ DragKiKf \/ DragKfQ \/ DragGq \/ DragReal \/ DragMono \/ DragTof
  \/ CheckSense \/ EditSpacing \/ EditCrystal \/ ToggleSnap \/ ToggleKeep
  \/ VarsChanged \/ OpenReso \/ Load

\* The constructor of the main window has set the layouts from the triangle.
ScInit ==
  /\ tri = [ki |-> 0, kf |-> 0, tt |-> 1, th |-> 0]
  /\ peak = EndOfQ(tri)
  /\ snap = TRUE /\ keep = TRUE
  /\ ds = [x \in Crystals |-> 0] /\ edits = ds
  /\ sense = [mono |-> FALSE, sample |-> TRUE, ana |-> FALSE] /\ filed = FALSE
  /\ real = [mono |-> TriangleAngles.mono, ana |-> TriangleAngles.ana,
             tt |-> TriangleAngles.tt, th |-> TriangleAngles.th, kiq |-> Params]
  /\ tof = [tt |-> TriangleAngles.tt, th |-> TriangleAngles.th, kiq |-> Params]
  /\ ready = [tri |-> TRUE, real |-> TRUE]
  /\ dont = [recip |-> FALSE, real |-> FALSE, tof |-> FALSE]
  /\ busy = [real |-> FALSE, tof |-> FALSE]
  /\ shown = [recip |-> Params, real |-> RealAngles]
  /\ reso = [open |-> FALSE, pars |-> Position, result |-> Position]
  /\ update = [real |-> TRUE, recip |-> TRUE]
  /\ todo = <<>> /\ pressed = "none" /\ event = "none" /\ events = 0

Spent == Idle /\ events = MaxEvents /\ UNCHANGED scvars

ScNext == Run \/ User \/ Spent

ScSpec == ScInit /\ [][ScNext]_scvars

-----------------------------------------------------------------------------
\* The instrument that the layouts show is the one of the triangle, up to the
\* side on which the user has put the analyser and the detector.
LayoutsAgree ==
  Idle => /\ Abs(real.mono) = BraggAngle(tri.ki, ds.mono)
          /\ Abs(real.ana) = BraggAngle(tri.kf, ds.ana)
          /\ real.tt = TriangleAngles.tt /\ tof.tt = TriangleAngles.tt
          /\ real.th = TriangleAngles.th /\ tof.th = TriangleAngles.th

\* After a movement in the triangle or in the triple-axis layout, a change of
\* sense or new variables, the dialogs show the instrument as it is.
DialogsFollow ==
  Idle /\ event \in {"recip", "real", "sense", "vars"} =>
    /\ shown.recip = Params /\ real.kiq = Params /\ tof.kiq = Params
    /\ shown.real = RealAngles

\* ... and the resolution is that of this position: "a live view of the
\* resolution function at the current instrument position".  The spacings are
\* those that the dialog was last given, which are not the triangle's if a
\* file was loaded since.
ResolutionFollows ==
  Idle /\ reso.open /\ event \in {"recip", "real", "sense", "vars"} =>
    reso.result =
      IF filed THEN [Position EXCEPT !.dm = reso.pars.dm, !.da = reso.pars.da]
               ELSE Position

\* doc/reso.html promises "a live view of the resolution function at the
\* current instrument position"; see the README for where it is not one.
ResolutionLive == Idle /\ reso.open /\ pressed = "none" => reso.result = Position
=============================================================================
