------------------------------ MODULE Session -------------------------------
(***************************************************************************)
(* What a session of the main window keeps, the "goto" dialog, and saving, *)
(* loading and importing of it (tools/taz/taz_file.cpp, taz_crys.cpp;      *)
(* dialogs/GotoDlg.cpp, AtomsDlg.cpp, DeadAnglesDlg.cpp).                  *)
(*                                                                         *)
(* The window's fields, the scattering triangle and the goto dialog have   *)
(* each their own copy of the lattice spacings, the scattering sense and   *)
(* the crystal, and the tables of atoms and dead angles are copies as      *)
(* well; handlers pass them on.  A crystal stands for lattice, space group *)
(* and scattering plane.  Q and the nodes are named by the Miller indices  *)
(* they have in a crystal: in another crystal they have Other ones.        *)
(* How the scenes set each other's angles is in Scenes.                    *)
(***************************************************************************)
EXTENDS Integers, Sequences

CONSTANTS
  CrystalData, \* lattices with a scattering plane
  BadPlane,    \* a crystal whose scattering plane is not one
  Peaks,       \* Miller indices of Bragg peaks
  Lists,       \* lists of atoms, of dead angles, settings of the resolution
  Empty,       \* the list without elements
  Files,       \* names of session files
  MaxSession   \* bound: events

ASSUME SessionAssumption == BadPlane \notin CrystalData /\ Empty \in Lists

Other == "other"
Closed == "closed"
NoFile == "none"
WaveNumbers == 0 .. 1
DSpacings == 0 .. 1

VARIABLES
  window,   \* the fields: crys, d, pos (checkSenseS); m_vecAtoms, m_vecDeadAngles
  triangle, \* d, pos; its nodes: ki, kf, q, peak; m_bSnapq
  latt,     \* m_latticecommon: the crystal and the atoms it is calculated for
  go,       \* the goto dialog
  tables,   \* of the atoms' and the dead angles' dialogs
  resopars, \* the settings in the resolution dialog
  curfile,  \* m_strCurFile
  disk,     \* the saved sessions
  saved,    \* history: the sessions when they were saved
  last,     \* history: the last event; for Load the file, and if it snapped q
  count     \* number of events

files == <<curfile, disk, saved>>
sevars == <<window, triangle, latt, go, tables, resopars, files, last, count>>

Hkl(h, c) == [hkl |-> h, crys |-> c]
Place(h, ki, kf) == [hkl |-> h, ki |-> ki, kf |-> kf]

\* Bound: positions with energy loss, without energy transfer, and one that is
\* not reachable; the energy's field also brings one with energy gain.
Positions ==
  {p \in [hkl : Peaks, ki : WaveNumbers, kf : WaveNumbers] : p.ki <= p.kf}

\* The indices of a vector; the peaks that may be the nearest one to it.
Rlu(v, c) == IF v.crys = c THEN v.hkl ELSE Other
Near(v, c) == IF v.crys = c /\ v.hkl \in Peaks THEN {v}
              ELSE {Hkl(h, c) : h \in Peaks}

\* Bragg's law can be solved, and the triangle closed, for most of them only.
BraggSolvable(k, d) == k + d > 0
TriangleCloses(p) == ~(p.ki = 0 /\ p.kf = 0 /\ p.hkl # Other)

-----------------------------------------------------------------------------
(* The goto dialog.                                                        *)

Fields(g) == Place(g.hkl, g.ki, g.kf)

\* CalcMonoAna
CalcMonoAna(g) ==
  LET ok == BraggSolvable(g.ki, g.d) /\ BraggSolvable(g.kf, g.d)
  IN  [g EXCEPT !.monoAnaOk = ok, !.mono = g.ki + g.d, !.ana = g.kf + g.d]

\* CalcSample: the angles depend on the lengths of ki, kf and Q.
CalcSample(g) ==
  [g EXCEPT !.sampleOk = TriangleCloses(Fields(g)),
            !.sample = [q |-> Hkl(g.hkl, g.crys), ki |-> g.ki, kf |-> g.kf,
                        pos |-> g.pos]]

\* EditedKiKf, without the energy, which it shows.
EditedKiKf(g) == CalcSample(CalcMonoAna(g))

WithFields(g, p) == [g EXCEPT !.hkl = p.hkl, !.ki = p.ki, !.kf = p.kf]

\* RecipParamsChanged, from emitAllParams() of the triangle t.
WithParams(g, t, c) ==
  [g EXCEPT !.params = Place(Rlu(t.q, c), t.ki, t.kf)]

-----------------------------------------------------------------------------
(* The main window.                                                        *)

Session == [win |-> window,
            nodes |-> [q |-> triangle.q, ki |-> triangle.ki,
                       kf |-> triangle.kf, peak |-> triangle.peak],
            snap |-> triangle.snap,
            fields |-> Fields(go), list |-> go.list, reso |-> resopars]

Outcomes(l, t, g, c) ==
  {[latt |-> l, triangle |-> [t EXCEPT !.peak = p],
    go |-> IF p = t.peak THEN g ELSE WithParams(g, t, c)] :
     p \in IF t.snap THEN Near(t.peak, c) ELSE {t.peak}}

\* CalcPeaks(), with the fields w, of a triangle and a goto dialog: what may
\* become of them.  "Invalid scattering plane": nothing.
CalcCrystal(w, t, g) ==
  IF w.crys = BadPlane THEN {[latt |-> latt, triangle |-> t, go |-> g]}
  ELSE Outcomes([crys |-> w.crys, atoms |-> w.atoms], t,
                CalcSample([g EXCEPT !.crys = w.crys]), w.crys)

Become(o) == latt' = o.latt /\ triangle' = o.triangle /\ go' = o.go

\* The triangle has the nodes of q, ki, kf: the node of G may snap to q.
Moved(t, q, ki, kf, c) ==
  {[t EXCEPT !.q = q, !.ki = ki, !.kf = kf, !.peak = p] :
     p \in IF t.snap THEN Near(q, c) ELSE {t.peak}}

\* Mutant: the sign of the sample angles is not that of the sense.
AppliedUnsigned(t, g, c) ==
  LET ki == g.mono - t.d
      kf == g.ana - t.d
      fits == g.sample.ki = ki /\ g.sample.kf = kf /\ g.sample.pos
  IN  Moved(t, IF fits THEN g.sample.q ELSE Hkl(Other, c), ki, kf, c)

\* ApplyCurPos() and VarsChanged(): the triangle that the angles give.
Applied(t, g, c) ==
  LET ki == g.mono - t.d
      kf == g.ana - t.d
      fits == g.sample.ki = ki /\ g.sample.kf = kf /\ g.sample.pos = t.pos
  IN  Moved(t, IF fits THEN g.sample.q ELSE Hkl(Other, c), ki, kf, c)

Appliable(g) == g.monoAnaOk /\ g.sampleOk

Reached(t, g, c) == WithParams(CalcSample(CalcMonoAna(g)), t, c)

\* UpdateDs(), UpdateSampleSense(): what the triangle and the dialog become.
PassDs(w, t, g) ==
  <<[t EXCEPT !.d = w.d], CalcSample(CalcMonoAna([g EXCEPT !.d = w.d]))>>

PassSense(w, t, g) ==
  <<[t EXCEPT !.pos = w.pos], CalcSample([g EXCEPT !.pos = w.pos])>>

Happens(e) ==
  /\ count < MaxSession
  /\ count' = count + 1 /\ last' = e

Named(n) == [name |-> n, file |-> NoFile, snapped |-> FALSE]

-----------------------------------------------------------------------------
(* Operations of the user.                                                 *)

EnterSpacing(d) ==
  /\ Happens(Named("edit")) /\ d # window.d
  /\ window' = [window EXCEPT !.d = d]
  /\ LET u == PassDs(window', triangle, go)
     IN  triangle' = u[1] /\ go' = u[2]
  /\ UNCHANGED <<latt, tables, resopars, files>>

ToggleSense ==
  /\ Happens(Named("edit"))
  /\ window' = [window EXCEPT !.pos = ~@]
  /\ LET u == PassSense(window', triangle, go)
     IN  /\ triangle' = u[1]
         /\ go' = WithParams(u[2], u[1], latt.crys)
  /\ UNCHANGED <<latt, tables, resopars, files>>

\* Also in reciprocal values, and by rotating the plane.
EnterCrystal(c) ==
  /\ Happens(Named("edit")) /\ c # window.crys
  /\ window' = [window EXCEPT !.crys = c]
  /\ \E o \in CalcCrystal(window', triangle, go) : Become(o)
  /\ UNCHANGED <<tables, resopars, files>>

\* The nodes are dragged.
Drag(p) ==
  /\ Happens(Named("drag"))
  /\ \E t \in Moved(triangle, Hkl(p.hkl, latt.crys), p.ki, p.kf, latt.crys) :
       /\ triangle' = t
       /\ go' = WithParams(go, t, latt.crys)
  /\ UNCHANGED <<window, latt, tables, resopars, files>>

\* The node of G is dragged to a peak, setSnapq.
DragPeak(h) ==
  /\ Happens(Named("drag"))
  /\ triangle' = [triangle EXCEPT !.peak = Hkl(h, latt.crys)]
  /\ go' = WithParams(go, triangle, latt.crys)
  /\ UNCHANGED <<window, latt, tables, resopars, files>>

SetSnapq ==
  /\ Happens(Named("edit"))
  /\ \E p \in IF triangle.snap THEN {triangle.peak}
              ELSE Near(triangle.q, latt.crys) :
       /\ triangle' = [triangle EXCEPT !.snap = ~@, !.peak = p]
       /\ go' = IF p # triangle.peak THEN WithParams(go, triangle, latt.crys)
                ELSE go
  /\ UNCHANGED <<window, latt, tables, resopars, files>>

\* ShowAtomsDlg, ShowDeadAnglesDlg; ShowResoParams.
ShowTables ==
  /\ Happens(Named("show"))
  /\ tables' = [atoms |-> window.atoms, dead |-> window.dead]
  /\ UNCHANGED <<window, triangle, latt, go, resopars, files>>

ShowReso ==
  /\ Happens(Named("show")) /\ resopars = Closed
  /\ resopars' = Empty
  /\ go' = WithParams(CalcSample(CalcMonoAna([go EXCEPT !.d = window.d])),
                      triangle, latt.crys)
  /\ triangle' = [triangle EXCEPT !.d = window.d]
  /\ UNCHANGED <<window, latt, tables, files>>

SetReso(x) ==
  /\ Happens(Named("edit")) /\ resopars # Closed
  /\ resopars' = x
  /\ UNCHANGED <<window, triangle, latt, go, tables, files>>

\* The tables are edited and applied.
ApplyAtoms(x) ==
  /\ Happens(Named("edit")) /\ tables.atoms # Closed
  /\ tables' = [tables EXCEPT !.atoms = x]
  /\ window' = [window EXCEPT !.atoms = x]
  /\ \E o \in CalcCrystal(window', triangle, go) : Become(o)
  /\ UNCHANGED <<resopars, files>>

ApplyDeadAngles(x) ==
  /\ Happens(Named("edit")) /\ tables.dead # Closed
  /\ tables' = [tables EXCEPT !.dead = x]
  /\ window' = [window EXCEPT !.dead = x]
  /\ UNCHANGED <<triangle, latt, go, resopars, files>>

-----------------------------------------------------------------------------
(* Operations in the goto dialog.                                          *)

\* Miller indices are edited: CalcSample; ki or kf: EditedKiKf.
EditPosition(p) ==
  /\ Happens(Named("field")) /\ p # Fields(go)
  /\ go' = IF p.ki = go.ki /\ p.kf = go.kf THEN CalcSample(WithFields(go, p))
           ELSE EditedKiKf(WithFields(go, p))
  /\ UNCHANGED <<window, triangle, latt, tables, resopars, files>>

\* The energy transfer is edited, for a fixed ki or kf.
EditedE(e, fixedKi) ==
  /\ Happens(Named("field"))
  /\ go' = EditedKiKf(IF fixedKi THEN [go EXCEPT !.kf = @ - e]
                      ELSE [go EXCEPT !.ki = go.kf + e])
  /\ go'.ki \in WaveNumbers /\ go'.kf \in WaveNumbers
  /\ UNCHANGED <<window, triangle, latt, tables, resopars, files>>

\* Angles are edited, that are those of p: the flags are set.  Angles that
\* are not those of a position leave fields, flags and angles alone.
EditedAngles(p) ==
  /\ Happens(Named("field"))
  /\ BraggSolvable(p.ki, go.d) /\ BraggSolvable(p.kf, go.d) /\ TriangleCloses(p)
  /\ go' = [EditedKiKf(WithFields(go, p)) EXCEPT !.monoAnaOk = TRUE,
                                                 !.sampleOk = TRUE]
  /\ UNCHANGED <<window, triangle, latt, tables, resopars, files>>

GetCurPos ==
  /\ Happens(Named("field")) /\ go.params.hkl \in Peaks
  /\ go' = EditedKiKf(WithFields(go, go.params))
  /\ UNCHANGED <<window, triangle, latt, tables, resopars, files>>

Apply ==
  /\ Happens(Named("apply")) /\ Appliable(go)
  /\ \E t \in Applied(triangle, go, latt.crys) :
       /\ triangle' = t
       /\ go' = Reached(t, go, latt.crys)
  /\ UNCHANGED <<window, latt, tables, resopars, files>>

\* AddPosToList, RemPosFromList, of the last one; ListItemDoubleClicked.
AddPosToList ==
  /\ Happens(Named("list")) /\ Len(go.list) < 2
  /\ go' = [go EXCEPT !.list = Append(@, Fields(go))]
  /\ UNCHANGED <<window, triangle, latt, tables, resopars, files>>

RemPosFromList ==
  /\ Happens(Named("list")) /\ go.list # <<>>
  /\ go' = [go EXCEPT !.list = SubSeq(@, 1, Len(@) - 1)]
  /\ UNCHANGED <<window, triangle, latt, tables, resopars, files>>

\* GotoPos(): the outcomes of going to the position p, if it is one.
GotoPos(p, o) ==
  LET h == EditedKiKf(WithFields(o.go, p))
  IN  IF Appliable(h)
      THEN {[o EXCEPT !.triangle = t, !.go = Reached(t, h, o.latt.crys)] :
              t \in Applied(o.triangle, h, o.latt.crys)}
      ELSE {[o EXCEPT !.go = h]}

Now == [latt |-> latt, triangle |-> triangle, go |-> go]

\* ListItemSelected, ListItemDoubleClicked.
Select(i) ==
  /\ Happens(Named("field")) /\ i \in 1 .. Len(go.list)
  /\ go' = EditedKiKf(WithFields(go, go.list[i]))
  /\ UNCHANGED <<window, triangle, latt, tables, resopars, files>>

DoubleClick(i) ==
  /\ Happens(Named("goto")) /\ i \in 1 .. Len(go.list)
  /\ \E o \in GotoPos(go.list[i], Now) : Become(o)
  /\ UNCHANGED <<window, tables, resopars, files>>

-----------------------------------------------------------------------------
(* Files.                                                                  *)

\* New(): the dialogs are deleted, but not the goto dialog; VarsChanged with
\* the crystal c0, the spacing 0 and a position that is not a peak.
New(c0) ==
  /\ Happens(Named("new"))
  /\ LET w == [window EXCEPT !.crys = c0, !.d = 0, !.atoms = Empty,
                             !.dead = Empty]
         u == IF window.d # 0 THEN PassDs(w, triangle, go)
              ELSE <<triangle, go>>
     IN  /\ window' = w
         /\ latt' = [crys |-> c0, atoms |-> Empty]
         /\ \E t \in Moved(u[1], Hkl(Other, c0), 1, 1, c0) :
              /\ triangle' = t
              /\ go' = Reached(t, [u[2] EXCEPT !.crys = c0], c0)
  /\ tables' = [atoms |-> Closed, dead |-> Closed]
  /\ resopars' = Closed /\ curfile' = NoFile
  /\ UNCHANGED <<disk, saved>>

\* Mutant: the fields' values are saved, but not those of the goto dialog.
SaveWindow(f) ==
  /\ Happens(Named("save"))
  /\ f = curfile \/ curfile = NoFile
  /\ curfile' = f
  /\ disk' = [disk EXCEPT ![f] = <<[Session EXCEPT !.list = <<>>]>>]
  /\ saved' = [saved EXCEPT ![f] = <<Session>>]
  /\ UNCHANGED <<window, triangle, latt, go, tables, resopars>>

\* Save(), to the file of the session, or one that SaveAs() asks for.
Save(f) ==
  /\ Happens(Named("save"))
  /\ f = curfile \/ curfile = NoFile
  /\ curfile' = f
  /\ disk' = [disk EXCEPT ![f] = <<Session>>]
  /\ saved' = [saved EXCEPT ![f] = <<Session>>]
  /\ UNCHANGED <<window, triangle, latt, go, tables, resopars>>

\* The file cannot be written: SaveAs() has set the file's name.
SaveFails(f) ==
  /\ Happens(Named("save")) /\ curfile = NoFile
  /\ curfile' = f
  /\ UNCHANGED <<window, triangle, latt, go, tables, resopars, disk, saved>>

\* Load() of the goto dialog.
LoadGoto(g, x) == EditedKiKf(WithFields([g EXCEPT !.list = x.list], x.fields))

LoadList(f) ==
  /\ Happens(Named("list")) /\ disk[f] # <<>>
  /\ go' = LoadGoto(go, disk[f][1])
  /\ UNCHANGED <<window, triangle, latt, tables, resopars, files>>

\* Mutant: the peaks are not calculated for what was loaded.
LoadWithoutCrystal(f) ==
  /\ disk[f] # <<>>
  /\ LET x == disk[f][1]
         snaps == x.snap /\ ~triangle.snap
         t == [triangle EXCEPT !.q = x.nodes.q, !.ki = x.nodes.ki,
                               !.kf = x.nodes.kf, !.snap = x.snap,
                               !.pos = x.win.pos, !.peak = x.nodes.peak]
     IN  /\ Happens([name |-> "load", file |-> f, snapped |-> snaps])
         /\ window' = x.win
         /\ resopars' = IF x.reso # Closed THEN x.reso ELSE resopars
         /\ tables' = [atoms |-> x.win.atoms,
                       dead |-> IF tables.dead = Closed THEN Closed
                                ELSE x.win.dead]
         /\ triangle' = t
         /\ go' = LoadGoto(CalcSample([go EXCEPT !.pos = x.win.pos]), x)
  /\ curfile' = f
  /\ UNCHANGED <<latt, disk, saved>>

\* Load(), in its order: the sense is checked, the nodes are set, q snaps to
\* a peak of the crystal before if the file switches that on; the spacings are
\* passed on only if the resolution dialog is opened.
LoadSession(f) ==
  /\ disk[f] # <<>>
  /\ LET x == disk[f][1]
         u == IF x.win.pos # window.pos
              THEN PassSense(x.win, triangle, go)
              ELSE <<triangle, go>>
         snaps == x.snap /\ ~triangle.snap
         t == [u[1] EXCEPT !.q = x.nodes.q, !.ki = x.nodes.ki,
                           !.kf = x.nodes.kf, !.snap = x.snap]
         g == LoadGoto(u[2], x)
         v == IF x.reso # Closed /\ resopars = Closed
              THEN PassDs(x.win, t, g)
              ELSE <<t, g>>
     IN  /\ Happens([name |-> "load", file |-> f, snapped |-> snaps])
         /\ window' = x.win
         /\ resopars' = IF x.reso # Closed THEN x.reso ELSE resopars
         /\ tables' = [atoms |-> x.win.atoms,
                       dead |-> IF tables.dead = Closed THEN Closed
                                ELSE x.win.dead]
         /\ \E p \in IF snaps THEN Near(t.q, latt.crys) ELSE {x.nodes.peak} :
            \E o \in CalcCrystal(x.win, [v[1] EXCEPT !.peak = p], v[2]) :
              Become(IF resopars' = Closed THEN o
                      ELSE [o EXCEPT !.go = WithParams(@, o.triangle,
                                                       o.latt.crys)])
  /\ curfile' = f
  /\ UNCHANGED <<disk, saved>>

\* Import(), of a scan at the position p, measured with the sense pos: the
\* spacings are not passed on.
Import(c, d, pos, p) ==
  /\ Happens(Named("goto"))
  /\ window' = [window EXCEPT !.crys = c, !.d = d, !.pos = pos]
  /\ LET u == IF pos # window.pos THEN PassSense(window', triangle, go)
              ELSE <<triangle, go>>
     IN  \E o \in CalcCrystal(window', u[1], [u[2] EXCEPT !.list = <<p>>]) :
         \E r \in GotoPos(p, o) : Become(r)
  /\ curfile' = NoFile
  /\ UNCHANGED <<tables, resopars, disk, saved>>

\* ImportCIF(): a crystal with its atoms.
ImportCIF(c, x) ==
  /\ Happens(Named("import"))
  /\ window' = [window EXCEPT !.crys = c, !.atoms = x]
  /\ \E o \in CalcCrystal(window', triangle, go) : Become(o)
  /\ tables' = [tables EXCEPT !.atoms = x]
  /\ curfile' = NoFile
  /\ UNCHANGED <<resopars, disk, saved>>

SessionNext ==
  \/ \E d \in DSpacings : EnterSpacing(d)
  \/ ToggleSense
  \/ \E c \in CrystalData \union {BadPlane} : EnterCrystal(c)
  \/ \E p \in Positions : Drag(p) \/ EditPosition(p) \/ EditedAngles(p)
  \/ \E h \in Peaks : DragPeak(h)
  \/ SetSnapq
  \/ ShowTables \/ ShowReso
  \/ \E x \in Lists : SetReso(x) \/ ApplyAtoms(x) \/ ApplyDeadAngles(x)
  \/ \E e \in {-1, 1}, fixedKi \in BOOLEAN : EditedE(e, fixedKi)
  \/ GetCurPos \/ Apply
  \/ AddPosToList \/ RemPosFromList
  \/ \E i \in 1 .. 2 : Select(i) \/ DoubleClick(i)
  \/ \E c \in CrystalData : New(c)
  \/ \E f \in Files : Save(f) \/ SaveFails(f) \/ LoadSession(f) \/ LoadList(f)
  \/ \E c \in CrystalData, d \in DSpacings, pos \in BOOLEAN, p \in Positions :
       Import(c, d, pos, p)
  \/ \E c \in CrystalData, x \in Lists : ImportCIF(c, x)

\* As the constructor leaves it.
SessionInit ==
  /\ \E c \in CrystalData, h \in Peaks :
       /\ window = [crys |-> c, d |-> 0, pos |-> TRUE, atoms |-> Empty,
                    dead |-> Empty]
       /\ latt = [crys |-> c, atoms |-> Empty]
       /\ triangle = [d |-> 0, pos |-> TRUE, q |-> Hkl(Other, c), ki |-> 1,
                      kf |-> 1, peak |-> Hkl(h, c), snap |-> TRUE]
       /\ go = EditedKiKf([hkl |-> h, ki |-> 1, kf |-> 1, d |-> 0, crys |-> c,
                           pos |-> TRUE, monoAnaOk |-> FALSE,
                           sampleOk |-> FALSE, mono |-> 0, ana |-> 0,
                           sample |-> 0, list |-> <<>>,
                           params |-> Place(Other, 1, 1)])
  /\ tables = [atoms |-> Closed, dead |-> Closed]
  /\ resopars = Closed /\ curfile = NoFile
  /\ disk = [f \in Files |-> <<>>] /\ saved = disk
  /\ last = Named("start") /\ count = 0

SessionSpec == SessionInit /\ [][SessionNext]_sevars

-----------------------------------------------------------------------------
\* A position that the goto dialog, the list of positions or an imported scan
\* goes to is the one that the instrument has then: the dialog's copies of
\* the spacings, the sense and the crystal are those of the triangle.
GotoReaches ==
  last.name \in {"apply", "goto"} /\ Appliable(go) =>
    /\ triangle.ki = go.ki /\ triangle.kf = go.kf
    /\ Rlu(triangle.q, latt.crys) = go.hkl

\* The scenes show the crystal and the atoms that the fields give, whatever
\* file, instrument or dialog they come from, if the scattering plane is one.
CrystalCurrent ==
  window.crys # BadPlane => latt = [crys |-> window.crys, atoms |-> window.atoms]

\* A session that is loaded is the one that was saved, and the tables show it.
\* It keeps the peak only if it does not switch on snapping, and settings of
\* the resolution if it was saved without them.
RoundTrip ==
  last.name = "load" =>
    LET x == saved[last.file][1]
    IN  /\ Session = [x EXCEPT !.nodes.peak = IF last.snapped THEN triangle.peak
                                             ELSE @,
                               !.reso = IF @ = Closed THEN resopars ELSE @]
        /\ curfile = last.file
        /\ tables.atoms = window.atoms /\ tables.dead \in {Closed, window.dead}

-----------------------------------------------------------------------------
(* The inductive invariant of Windows_proofs.                              *)

Vectors == [hkl : Peaks \union {Other}, crys : CrystalData]
Places == [hkl : Peaks, ki : WaveNumbers, kf : WaveNumbers]

Windows ==
  [crys : CrystalData \union {BadPlane}, d : DSpacings, pos : BOOLEAN,
   atoms : Lists, dead : Lists]

Crystals == [crys : CrystalData, atoms : Lists]

Triangles ==
  [d : DSpacings, pos : BOOLEAN, q : Vectors, ki : WaveNumbers,
   kf : WaveNumbers, peak : Vectors, snap : BOOLEAN]

Gotos ==
  [hkl : Peaks, ki : WaveNumbers, kf : WaveNumbers, d : DSpacings,
   crys : CrystalData, pos : BOOLEAN, monoAnaOk : BOOLEAN, sampleOk : BOOLEAN,
   mono : Int, ana : Int,
   sample : [q : Vectors, ki : WaveNumbers, kf : WaveNumbers, pos : BOOLEAN],
   list : Seq(Places),
   params : [hkl : Peaks \union {Other}, ki : WaveNumbers, kf : WaveNumbers]]

Sessions ==
  [win : Windows,
   nodes : [q : Vectors, ki : WaveNumbers, kf : WaveNumbers, peak : Vectors],
   snap : BOOLEAN, fields : Places, list : Seq(Places),
   reso : Lists \union {Closed}]

SessionTypeOK ==
  /\ window \in Windows /\ latt \in Crystals
  /\ triangle \in Triangles /\ go \in Gotos
  /\ tables \in [atoms : Lists \union {Closed}, dead : Lists \union {Closed}]
  /\ resopars \in Lists \union {Closed}
  /\ curfile \in Files \union {NoFile}
  /\ disk \in [Files -> {<<>>} \union {<<x>> : x \in Sessions}]
  /\ count \in Nat

\* The angles of the goto dialog are those of its fields.
Calculated(g) ==
  /\ g.mono = g.ki + g.d /\ g.ana = g.kf + g.d
  /\ g.sample = [q |-> Hkl(g.hkl, g.crys), ki |-> g.ki, kf |-> g.kf,
                 pos |-> g.pos]

\* The dialog's copies are those of the triangle t and of the lattice l.
Agree(l, t, g) ==
  /\ g.d = t.d /\ g.pos = t.pos /\ g.crys = l.crys
  /\ Calculated(g)

\* A node of G that snaps is on a peak of the crystal that is shown.
OnPeak(v, c) == v.hkl \in Peaks /\ v.crys = c
Snapped == triangle.snap /\ window.crys # BadPlane => OnPeak(triangle.peak, latt.crys)

\* The files are those that were saved; their nodes of G are on peaks, too.
SavedInv ==
  /\ disk = saved
  /\ \A f \in Files : disk[f] # <<>> =>
       LET x == disk[f][1]
       IN  x.snap /\ x.win.crys # BadPlane => OnPeak(x.nodes.peak, x.win.crys)
  /\ last.name = "load" => last.file \in Files /\ saved[last.file] # <<>>

SessionIInv ==
  /\ SessionTypeOK /\ Agree(latt, triangle, go) /\ Snapped /\ SavedInv
  /\ GotoReaches /\ CrystalCurrent /\ RoundTrip
=============================================================================
