----------------------------- MODULE ScanViewer ------------------------------
(***************************************************************************)
(* The scan viewer (tools/scanviewer/scanviewer.cpp): a list of the scan   *)
(* files of a directory, which is watched, the file or the merged files    *)
(* that are selected, and the plot of two of their columns, trimmed,       *)
(* normalised to a third and fitted.                                       *)
(*                                                                         *)
(* Every handler runs in the GUI thread to its end; files come, go and     *)
(* change at any time.  A column is the sequence of its rows' numbers, as  *)
(* the plot only selects rows; the loader and MergeWith are tlibs'.        *)
(***************************************************************************)
EXTENDS Integers, Sequences, FiniteSets

CONSTANTS
  Dirs,       \* directories
  ScanFiles,  \* names of files
  NRows,      \* rows of a scan
  MaxTrim,    \* bound: values of the spin boxes are 0 .. MaxTrim
  MaxActs     \* bound: acts of the user and of other programs

NoDir == "nodir"

ASSUME ViewerAssumption ==
  NoDir \notin Dirs /\ IsFiniteSet(ScanFiles) /\ NRows \in Nat /\ MaxTrim \in Nat

Absent == "absent"
NoColumn == "none"
NotLoaded == [files |-> {}]
Columns == {"scan", "counts", "monitor"}
Contents == {"plain", "pol", "nomonitor", "bad"}
Languages == {"gnuplot", "root"}
Devices == {"device1", "device2"}

VARIABLES
  content,   \* of the files of each directory
  path,      \* text of comboPath
  curDir,    \* m_strCurDir, which m_pWatcher watches
  notified,  \* directoryChanged() is underway
  items,     \* listFiles: its texts, those selected, the current one
  instr,     \* m_pInstr: its files, the lengths of its columns
  axes,      \* comboX, comboY, comboMon
  trim,      \* spinStart, spinStop, spinSkip
  options,   \* checkNorm, comboExport, the edits of the devices
  plot,      \* m_vecX, m_vecY, what they are of and normalised to
  fit,       \* m_vecFitX, m_vecFitY: the plot and the parameters fitted to it
  found,     \* the fit whose parameters m_pFitParamDlg shows in bold
  line,      \* the line that is drawn: of a plot or fitted to one
  texts,     \* what tableProps, editPolMat, textRoot are for
  undefined, \* PlotScan has used rows that do not exist
  acts       \* number of acts so far

lists == <<path, curDir, notified, items>>
views == <<axes, trim, plot, fit, found, line>>
svvars == <<content, lists, instr, views, options, texts, undefined, acts>>

NoItem == "none"
NoPlot == [of |-> NotLoaded]
NoText == [plot |-> NoPlot]
NoAxes == [x |-> NoColumn, y |-> NoColumn, mon |-> NoColumn]
NoTrim == [start |-> 0, stop |-> 0, skip |-> 0]

Listed(d) == {f \in ScanFiles : content[d][f] # Absent}

Act == ~undefined /\ acts < MaxActs /\ acts' = acts + 1

-----------------------------------------------------------------------------
(* What is loaded, and what is plotted of it.                              *)

Loadable(f) == content[curDir][f] \notin {Absent, "bad"}
Has(f, c) == c = "monitor" => content[curDir][f] # "nomonitor"

\* LoadInstr of the first selected file and MergeWith the others, where they
\* can be loaded: a column gets the rows of those that have it.
Instr(first, S) ==
  LET all == {f \in S : Loadable(f)}
  IN  IF ~Loadable(first) THEN NotLoaded
      ELSE [files |-> all, dir |-> curDir,
            length |-> [c \in {d \in Columns : Has(first, d)} |->
                          NRows * Cardinality({f \in all : Has(f, c)})]]

\* GetCol: an unknown column has no rows.
Col(i, c) == IF c \in DOMAIN i.length THEN [r \in 1 .. i.length[c] |-> r]
             ELSE <<>>

EraseFirst(s, n) == IF n >= Len(s) THEN <<>> ELSE SubSeq(s, n + 1, Len(s))
EraseLast(s, n) == IF n >= Len(s) THEN <<>> ELSE SubSeq(s, 1, Len(s) - n)
Shorter(m, n) == IF m < n THEN m ELSE n

Cut(s, t) == EraseLast(EraseFirst(s, t.start), t.stop)

\* Mutant: a row less is left out.
EveryNth(s, n, t) ==
  [k \in 1 .. (n + t.skip) \div (t.skip + 1) |-> s[(k - 1) * t.skip + 1]]

\* Rows are left out of the first n of s.
EveryOther(s, n, t) ==
  [k \in 1 .. (n + t.skip) \div (t.skip + 1) |-> s[(k - 1) * (t.skip + 1) + 1]]

\* PlotScan: the points, and what the axes' titles say.
PlotOf(i, a, t, norm) ==
  LET x == Cut(Col(i, a.x), t)
      y == Cut(Col(i, a.y), t)
      m == Cut(Col(i, a.mon), t)
      n == Shorter(Len(x), Len(y))
  IN  [of |-> i, xlabel |-> a.x, ylabel |-> a.y,
       x |-> IF t.skip = 0 THEN x ELSE EveryOther(x, n, t),
       y |-> IF t.skip = 0 THEN y ELSE EveryOther(y, n, t),
       by |-> IF norm /\ (t.skip = 0 => Len(m) >= Len(y)) THEN a.mon
              ELSE NoColumn]

\* It erases and reads the monitor's rows where y has them, without looking.
RowsMissing(i, a, t) ==
  LET y == Len(Col(i, a.y))
      m == Len(Col(i, a.mon))
      n == Shorter(Len(Cut(Col(i, a.x), t)), Len(Cut(Col(i, a.y), t)))
  IN  \/ t.start < y /\ m < t.start
      \/ t.start + t.stop < y /\ m < t.start + t.stop
      \/ /\ t.skip > 0
         /\ \E k \in 0 .. n : /\ k * (t.skip + 1) < n
                             /\ m <= t.start + t.stop + k * (t.skip + 1)

Drawable(p) == p # NoPlot /\ p.x # <<>> /\ p.y # <<>>

\* GenerateExternal: the text is that of the points, in the chosen language.
Export(p, lang) == IF Drawable(p) THEN [plot |-> p, lang |-> lang] ELSE NoText

PlotScan(i, a, t, f, opt, before) ==
  /\ undefined' = RowsMissing(i, a, t)
  /\ plot' = PlotOf(i, a, t, opt.norm)
  /\ line' = IF f # NoPlot THEN f ELSE plot'
  /\ texts' = [before EXCEPT !.export = Export(plot', opt.lang)]

-----------------------------------------------------------------------------
(* Handlers.                                                               *)

\* ClearPlot() deletes the instrument: nothing is plotted for its signals.
ClearPlot ==
  /\ instr' = NotLoaded /\ axes' = NoAxes /\ trim' = NoTrim
  /\ plot' = NoPlot /\ line' = NoPlot /\ undefined' = FALSE
  /\ fit' = NoPlot /\ found' = found

\* ShowProps(), CalcPol(): tables for the loaded file.
ShowProps(t, i) == [t EXCEPT !.props = i]
CalcPol(t, i, devices) ==
  [t EXCEPT !.pol = IF i = NotLoaded THEN NotLoaded
                    ELSE [of |-> i, by |-> devices]]

\* FileSelected(), with the columns that the file names and one point of a
\* polarised scan out of its channels.  If it cannot be loaded, the tables of
\* the file before are left.
FileSelected(S) ==
  \E first \in S :
    LET i == Instr(first, S)
        a == [x |-> "scan", y |-> "counts",
              mon |-> IF Has(first, "monitor") THEN "monitor" ELSE NoColumn]
        t == [NoTrim EXCEPT !.skip =
                IF content[curDir][first] = "pol" THEN 1 ELSE 0]
    IN  IF i = NotLoaded
        THEN ClearPlot /\ texts' = [texts EXCEPT !.export = NoText]
        ELSE /\ instr' = i /\ axes' = a /\ trim' = t
             /\ fit' = NoPlot /\ found' = found
             /\ PlotScan(i, a, t, fit', options,
                         ShowProps(CalcPol(texts, i, options.devices), i))

\* The user selects files; with no file selected the plot stays.
SelectFiles(S) ==
  /\ Act /\ S \subseteq items.texts
  /\ \E c \in IF S = {} THEN items.texts ELSE S :
       items' = [items EXCEPT !.selected = S, !.current = c]
  /\ IF S = {} THEN UNCHANGED <<instr, views, texts, undefined>>
               ELSE FileSelected(S)
  /\ UNCHANGED <<content, path, curDir, notified, options>>

\* Mutant: only a new directory's list is filled.
ChangedPathOnce(d) ==
  /\ Act
  /\ path' = d
  /\ curDir' = IF d = NoDir THEN curDir ELSE d
  /\ notified' = (d = NoDir /\ notified)
  /\ items' = [texts |-> IF d \in {NoDir, curDir} THEN {} ELSE Listed(d),
               selected |-> {}, current |-> NoItem]
  /\ ClearPlot
  /\ texts' = [texts EXCEPT !.props = NotLoaded, !.export = NoText]
  /\ UNCHANGED <<content, options>>

\* ChangedPath(), by editing, choosing or refreshing the path.  If there is no
\* such directory, the one before is still watched.
ChangedPath(d) ==
  /\ Act
  /\ path' = d
  /\ curDir' = IF d = NoDir THEN curDir ELSE d
  /\ notified' = (d = NoDir /\ notified)
  /\ items' = [texts |-> IF d = NoDir THEN {} ELSE Listed(d),
               selected |-> {}, current |-> NoItem]
  /\ ClearPlot
  /\ texts' = [texts EXCEPT !.props = NotLoaded, !.export = NoText]
  /\ UNCHANGED <<content, options>>

\* DirWasModified(): the current file is selected again, and it alone.
DirWasModified ==
  /\ notified /\ ~undefined
  /\ notified' = FALSE
  /\ LET c == items.current
         again == c \in Listed(curDir)
     IN  /\ items' = [texts |-> Listed(curDir),
                      selected |-> IF again THEN {c} ELSE {},
                      current |-> IF again THEN c ELSE NoItem]
         /\ IF again THEN FileSelected({c})
                     ELSE UNCHANGED <<instr, views, texts, undefined>>
  /\ UNCHANGED <<content, path, curDir, options, acts>>

\* PlotScan() by the signals of the axes, the spin boxes, the normalisation.
Replot(a, t, opt) ==
  /\ axes' = a /\ trim' = t /\ options' = opt
  /\ IF instr = NotLoaded THEN UNCHANGED <<plot, line, texts, undefined>>
                          ELSE PlotScan(instr, a, t, fit, opt, texts)
  /\ UNCHANGED <<content, lists, instr, fit, found>>

SelectAxis(x, c) ==
  /\ Act /\ instr # NotLoaded /\ c \in DOMAIN instr.length
  /\ Replot([axes EXCEPT ![x] = c], trim, options)

SetTrim(x, n) ==
  /\ Act /\ n # trim[x]
  /\ Replot(axes, [trim EXCEPT ![x] = n], options)

Normalise ==
  /\ Act
  /\ Replot(axes, trim, [options EXCEPT !.norm = ~@])

\* GenerateExternal(), CalcPol() by their edits' signals.
SelectLanguage(l) ==
  /\ Act
  /\ options' = [options EXCEPT !.lang = l]
  /\ texts' = [texts EXCEPT !.export = Export(plot, l)]
  /\ UNCHANGED <<content, lists, instr, views, undefined>>

EditDevices(n) ==
  /\ Act
  /\ options' = [options EXCEPT !.devices = n]
  /\ texts' = CalcPol(texts, instr, n)
  /\ UNCHANGED <<content, lists, instr, views, undefined>>

\* Fit(), which finds the parameters ps or fails; without a fit the line before
\* is left, and the parameters of the fit before.
Fit(ps, ok) ==
  /\ Act /\ Drawable(plot)
  /\ fit' = IF ok THEN [of |-> plot.of, data |-> plot, params |-> ps]
            ELSE NoPlot
  /\ found' = IF ok THEN fit' ELSE found
  /\ IF ok THEN PlotScan(instr, axes, trim, fit', options, texts)
           ELSE UNCHANGED <<plot, line, texts, undefined>>
  /\ UNCHANGED <<content, lists, instr, axes, trim, options>>

\* With a slope, if checkSloped is checked.
FitSloped(ps, sloped, ok) ==
  Fit(IF sloped THEN ps \union {"slope"} ELSE ps, ok)

FitLine(ok) == Fit({"slope", "offs"}, ok)
FitParabola(sloped, ok) == FitSloped({"x0", "amp", "offs"}, sloped, ok)
FitSine(sloped, ok) == FitSloped({"amp", "freq", "phase", "offs"}, sloped, ok)
FitGauss(sloped, ok) == FitSloped({"x0", "sig", "amp", "offs"}, sloped, ok)
FitLorentz(sloped, ok) == FitSloped({"x0", "hwhm", "amp", "offs"}, sloped, ok)
FitVoigt(sloped, ok) ==
  FitSloped({"x0", "sig", "hwhm", "amp", "offs"}, sloped, ok)

\* Another program writes or removes a file: the watcher tells of files that
\* come and go.
Write(d, f, c) ==
  /\ Act /\ content[d][f] # c
  /\ content' = [content EXCEPT ![d][f] = c]
  /\ notified' = (notified \/ (d = curDir /\ Absent \in {c, content[d][f]}))
  /\ UNCHANGED <<path, curDir, items, instr, views, options, texts, undefined>>

SvNext ==
  \/ \E S \in SUBSET ScanFiles : SelectFiles(S)
  \/ \E d \in Dirs \union {NoDir} : ChangedPath(d)
  \/ DirWasModified
  \/ \E x \in DOMAIN NoAxes, c \in Columns : SelectAxis(x, c)
  \/ \E x \in DOMAIN NoTrim, n \in 0 .. MaxTrim : SetTrim(x, n)
  \/ Normalise
  \/ \E l \in Languages : SelectLanguage(l)
  \/ \E n \in Devices : EditDevices(n)
  \/ \E ok \in BOOLEAN : FitLine(ok)
  \/ \E sloped \in BOOLEAN, ok \in BOOLEAN :
       \/ FitParabola(sloped, ok) \/ FitSine(sloped, ok)
       \/ FitGauss(sloped, ok) \/ FitLorentz(sloped, ok)
       \/ FitVoigt(sloped, ok)
  \/ \E d \in Dirs, f \in ScanFiles, c \in Contents \union {Absent} :
       Write(d, f, c)

\* As the constructor leaves it.
SvInit ==
  \* Bound: Write brings the other kinds of files.
  /\ content \in [Dirs -> [ScanFiles -> {"plain", Absent}]]
  /\ path \in Dirs /\ curDir = path /\ notified = FALSE
  /\ items = [texts |-> Listed(path), selected |-> {}, current |-> NoItem]
  /\ instr = NotLoaded /\ axes = NoAxes /\ trim = NoTrim
  /\ options = [norm |-> FALSE, lang |-> "gnuplot", devices |-> "device1"]
  /\ plot = NoPlot /\ fit = NoPlot /\ found = NoPlot /\ line = NoPlot
  /\ texts = [props |-> NotLoaded, pol |-> NotLoaded, export |-> NoText]
  /\ undefined = FALSE /\ acts = 0

SvSpec == SvInit /\ [][SvNext]_svvars

-----------------------------------------------------------------------------
RowsOf(s) == {s[k] : k \in DOMAIN s}
Rows(n, all, t) ==
  {r \in 1 .. all : /\ t.start < r /\ r <= n - t.stop
                    /\ (r - t.start - 1) % (t.skip + 1) = 0}

(***************************************************************************)
(* The points that are drawn are the rows of the selected columns that the *)
(* spin boxes leave, in their order; titles, tables and the exported text  *)
(* are of these points and of the loaded files, and so is a fitted curve,  *)
(* whose parameters are shown.                                             *)
(* Without a monitor as long as y, rows may be missing (see the README).   *)
(***************************************************************************)
PlotTrue ==
  \/ /\ undefined
     /\ Len(Col(instr, axes.mon)) < Len(Col(instr, axes.y))
  \/ /\ ~undefined /\ instr = NotLoaded
     /\ plot = NoPlot /\ line = NoPlot /\ texts.export = NoText
  \/ /\ ~undefined /\ instr # NotLoaded
     /\ LET nx == Len(Col(instr, axes.x))
            ny == Len(Col(instr, axes.y))
            n == IF trim.skip = 0 THEN ny ELSE Shorter(nx, ny)
        IN  /\ RowsOf(plot.y) = Rows(n, ny, trim)
            /\ \A j, k \in DOMAIN plot.y : j < k => plot.y[j] < plot.y[k]
            /\ nx = ny => plot.x = plot.y
     /\ plot.of = instr /\ plot.xlabel = axes.x /\ plot.ylabel = axes.y
     /\ plot.by # NoColumn => options.norm /\ plot.by = axes.mon
     /\ texts.export = Export(plot, options.lang)
     /\ texts.props = instr
     /\ texts.pol = [of |-> instr, by |-> options.devices]
     /\ line.of = instr /\ (fit # NoPlot => line = fit /\ found = fit)

(***************************************************************************)
(* The list has the files of the watched directory as soon as its changes  *)
(* are handled, unless a path is entered that is not one; what is loaded   *)
(* is what is selected in it.                                              *)
(***************************************************************************)
ListTrue ==
  /\ ~notified => \/ items.texts = Listed(curDir)
                  \/ items.texts = {} /\ path = NoDir
  /\ items.selected \subseteq items.texts
  /\ items.selected # {} /\ instr # NotLoaded =>
       /\ instr.dir = curDir /\ instr.files \subseteq items.selected
       /\ items.current \in items.selected
  /\ path \in Dirs => curDir = path

-----------------------------------------------------------------------------
(* The inductive invariant of Windows_proofs.                              *)

Axes == [x : Columns \union {NoColumn}, y : Columns \union {NoColumn},
         mon : Columns \union {NoColumn}]
Trims == [start : Nat, stop : Nat, skip : Nat]
Instrs == [files : SUBSET ScanFiles, dir : Dirs,
           length : UNION {[C -> Nat] : C \in SUBSET Columns}]

SvTypeOK ==
  /\ content \in [Dirs -> [ScanFiles -> Contents \union {Absent}]]
  /\ path \in Dirs \union {NoDir} /\ curDir \in Dirs
  /\ notified \in BOOLEAN /\ undefined \in BOOLEAN
  /\ items \in [texts : SUBSET ScanFiles, selected : SUBSET ScanFiles,
                current : ScanFiles \union {NoItem}]
  /\ instr \in Instrs \union {NotLoaded}
  /\ axes \in Axes /\ trim \in Trims
  /\ options \in [norm : BOOLEAN, lang : Languages, devices : Devices]
  /\ DOMAIN texts = {"props", "pol", "export"}
  /\ acts \in Nat

\* Nothing is shown without a file.
EmptyInv ==
  instr = NotLoaded =>
    /\ ~undefined /\ plot = NoPlot /\ line = NoPlot
    /\ texts.export = NoText

\* What is plotted is what the widgets say now; the fit that is drawn is of
\* the file.
ViewInv ==
  instr # NotLoaded =>
    /\ undefined => RowsMissing(instr, axes, trim)
    /\ plot = PlotOf(instr, axes, trim, options.norm)
    /\ texts.export = Export(plot, options.lang)
    /\ texts.props = instr
    /\ texts.pol = [of |-> instr, by |-> options.devices]
    /\ line.of = instr
    /\ fit # NoPlot => fit.of = instr /\ line = fit /\ found = fit

SvIInv == SvTypeOK /\ ListTrue /\ EmptyInv /\ ViewInv
=============================================================================
