----------------------------- MODULE ConvoPlot ------------------------------
(***************************************************************************)
(* What the convolution dialog shows of a calculation: curves, map, text.  *)
(*                                                                         *)
(* tools/monteconvo/ConvoDlg_sim.cpp: Start1D, Start2D and StartDisp, in a *)
(* worker thread, fill the dialog's vectors and the raster of its map.     *)
(* qthelpers/src/qwthelper.cpp: a curve does not copy its points, it keeps *)
(* a pointer to the elements of a vector and their number at that time,    *)
(* and is drawn whenever the GUI thread likes.  Each plot has a mutex for  *)
(* these pointers; the GUI thread holds it while it runs an event loop in  *)
(* SavePlot, to ask for a file, and in doUpdate, to flush events.          *)
(*                                                                         *)
(* How a worker starts, is stopped and enables widgets is in ConvoDlg.     *)
(* Here it has the result of a step at once, or ends.                      *)
(***************************************************************************)
EXTENDS Integers, Sequences

CONSTANTS
  MaxSteps,     \* number of scan steps, or of the pixels of a map
  NBranches,    \* a dispersion has up to this number of branches,
  NCurves,      \* of which this number has a curve
  MaxCalcs      \* bound on the calculations

ASSUME CpAssumption ==
  /\ MaxSteps \in Nat \ {0} /\ MaxCalcs \in Nat
  /\ NBranches \in Nat /\ NCurves \in 0 .. NBranches

Plots == {"1d", "2d"}
\* The curves of the plot, 0 and 1 of which show the same points, and what
\* they show: vecZero, which is empty; m_vecQ with m_vecS and m_vecScaledS, all
\* of the same size; the columns of m_scan; the branches of m_vecvecQ, m_vecvecE.
Zero == 0
Conv == 1
Scan == 2
First(k) == 3 .. 2 + k
BranchVectors == First(NBranches)
DlgVecs == {Zero, Conv, Scan} \cup BranchVectors
Curves == {Conv, Scan} \cup First(NCurves)

VARIABLES
  steps,    \* spinStepCnt
  calc,     \* the calculation: its kind, its steps and those it has done
  at,       \* where its worker is
  vec,      \* size and capacity of each vector
  curve,    \* the vector a curve shows, how many points, and if they are there
  map,      \* the raster: which calculation its pixels are of
  text,     \* textResult: number of lines, and if the last one tells its end
  loops,    \* the event loops of the GUI thread in SavePlot and doUpdate
  hung,     \* it locks a mutex it holds
  titles,   \* the plot whose axis titles the worker has posted, or "none"
  keyed,    \* history: S or G was pressed in a plot while the menu was disabled
  touched,  \* history: scale or scan were changed after the curves were cleared
  ncalcs    \* number of calculations

cpvars == <<steps, calc, at, vec, curve, map, text, loops, hung, titles,
            keyed, touched, ncalcs>>

Empty == [size |-> 0, cap |-> 0]
NoPoint == [vec |-> Zero, len |-> 0, there |-> TRUE]

CpInit ==
  /\ steps = MaxSteps
  /\ calc = [kind |-> "none", n |-> 0, done |-> 0, live |-> FALSE, scan |-> FALSE]
  /\ at = "idle"
  /\ vec = [v \in DlgVecs |-> Empty]
  /\ curve = [c \in Curves |-> NoPoint]
  /\ map = <<>>
  /\ text = [lines |-> 0, eof |-> FALSE]
  /\ loops = <<>> /\ hung = FALSE
  /\ titles = "none" /\ keyed = FALSE /\ touched = FALSE
  /\ ncalcs = 0

-----------------------------------------------------------------------------
(* Vectors, curves and mutexes.                                            *)

\* The elements of these vectors are freed or moved.
Lose(V, cs) ==
  [c \in Curves |-> IF cs[c].vec \in V /\ cs[c].len > 0
                    THEN [cs[c] EXCEPT !.there = FALSE] ELSE cs[c]]

\* push_back moves the elements if their number reaches the capacity.
Full(v) == v.size = v.cap
Push(v) == [size |-> v.size + 1,
            cap |-> IF ~Full(v) THEN v.cap ELSE IF v.cap = 0 THEN 1 ELSE 2 * v.cap]

\* set_qwt_data, QwtPlotWrapper::SetData
Points(v) == [vec |-> v, len |-> vec[v].size, there |-> TRUE]

\* ClearPlot1D
ClearPlot1D == [c \in Curves |-> NoPoint]

PlotOf(kind) == IF kind = "2d" THEN "2d" ELSE "1d"
Holds(p) == \E i \in 1 .. Len(loops) : loops[i].plot = p
Asking == \E i \in 1 .. Len(loops) : loops[i].slot = "SavePlot"
Enter(slot, p) ==
  /\ loops' = IF Holds(p) THEN loops ELSE Append(loops, [slot |-> slot, plot |-> p])
  /\ hung' = Holds(p)
Leave == loops' = SubSeq(loops, 1, Len(loops) - 1)
In(slot) == loops # <<>> /\ loops[Len(loops)].slot = slot /\ ~hung

\* The dialog can be used, but for its stop button, if nothing is calculated and
\* what its worker has posted is handled: the events that enable it come last.
Usable == at = "idle" /\ titles = "none" /\ loops = <<>> /\ ~hung

-----------------------------------------------------------------------------
(* The GUI thread.                                                         *)

\* Mutant: the curves keep what they show.
StartCalcKeeps(kind, live, scan) ==
  /\ Usable /\ ncalcs < MaxCalcs
  /\ calc' = [kind |-> kind, n |-> steps, done |-> 0, live |-> live,
              scan |-> scan /\ vec[Scan].size > 0]
  /\ at' = "begin"
  /\ touched' = (touched /\ kind = "2d")
  /\ ncalcs' = ncalcs + 1
  /\ UNCHANGED <<steps, vec, curve, map, text, loops, hung, titles, keyed>>

\* Start1D, Start2D, StartDisp
StartCalc(kind, live, scan) ==
  /\ Usable /\ ncalcs < MaxCalcs
  /\ calc' = [kind |-> kind, n |-> steps, done |-> 0, live |-> live,
              scan |-> scan /\ vec[Scan].size > 0]
  /\ curve' = IF kind = "2d" THEN curve ELSE ClearPlot1D
  /\ at' = "begin"
  /\ touched' = (touched /\ kind = "2d")
  /\ ncalcs' = ncalcs + 1
  /\ UNCHANGED <<steps, vec, map, text, loops, hung, titles, keyed>>

ChangeSteps ==
  /\ Usable
  /\ \E n \in 1 .. MaxSteps : steps' = n
  /\ UNCHANGED <<calc, at, vec, curve, map, text, loops, hung, titles, keyed, touched, ncalcs>>

\* scaleChanged: m_vecScaledS is given the size it already has.
ScaleChanged ==
  /\ Usable
  /\ curve' = [curve EXCEPT ![Conv] = Points(Conv)]
  /\ touched' = TRUE
  /\ UNCHANGED <<steps, calc, at, vec, map, text, loops, hung, titles, keyed, ncalcs>>

\* scanFileChanged: m_scan = Scan(), load_file
ReadScan ==
  /\ Usable
  /\ \E n \in {0, 2} : vec' = [vec EXCEPT ![Scan] = [size |-> n, cap |-> n]]
  /\ curve' = Lose({Scan}, curve)
  /\ touched' = TRUE
  /\ UNCHANGED <<steps, calc, at, map, text, loops, hung, titles, keyed, ncalcs>>

\* SavePlot, ExportGpl, called by the menu, which is disabled during a
\* calculation; the file dialog keeps the others from being used.
SavePlot(p) ==
  /\ Usable
  /\ Enter("SavePlot", p)
  /\ UNCHANGED <<steps, calc, at, vec, curve, map, text, titles, keyed, touched,
                 ncalcs>>

\* The same, called by a key in the plot, which is never disabled.
PressKey(p) ==
  /\ ~Usable /\ ~hung /\ ~Asking
  /\ Enter("SavePlot", p)
  /\ keyed' = TRUE
  /\ UNCHANGED <<steps, calc, at, vec, curve, map, text, titles, touched, ncalcs>>

\* The file is written, or none was chosen.
Wrote ==
  /\ In("SavePlot")
  /\ Leave
  /\ UNCHANGED <<steps, calc, at, vec, curve, map, text, hung, titles, keyed, touched, ncalcs>>

\* setAxisTitle, invoked by the worker, which does not wait: it locks the
\* mutex of the plot in whatever event loop it is handled.
SetAxisTitle ==
  /\ titles # "none" /\ ~hung
  /\ IF Holds(titles) THEN hung' = TRUE /\ UNCHANGED titles
     ELSE titles' = "none" /\ UNCHANGED hung
  /\ UNCHANGED <<steps, calc, at, vec, curve, map, text, loops, keyed, touched,
                 ncalcs>>

\* Mutant: the worker does not wait.
UpdatePosted ==
  /\ at = "update" /\ ~hung
  /\ Enter("doUpdate", PlotOf(calc.kind))
  /\ at' = "updated"
  /\ UNCHANGED <<steps, calc, vec, curve, map, text, titles, keyed, touched, ncalcs>>

\* doUpdate, invoked by the worker, which waits for its end; calls it has posted
\* before are handled before.
Update ==
  /\ at = "update" /\ ~hung
  /\ Enter("doUpdate", PlotOf(calc.kind))
  /\ at' = "updating"
  /\ UNCHANGED <<steps, calc, vec, curve, map, text, titles, keyed, touched, ncalcs>>

Updated ==
  /\ In("doUpdate")
  /\ Leave
  /\ at' = "updated"
  /\ UNCHANGED <<steps, calc, vec, curve, map, text, hung, titles, keyed, touched, ncalcs>>

\* textResult->setPlainText, invoked by the worker, which waits.
SetText ==
  /\ at = "text" /\ ~hung
  /\ text' = [lines |-> calc.done, eof |-> calc.done = calc.n]
  /\ at' = "loop"
  /\ UNCHANGED <<steps, calc, vec, curve, map, loops, hung, titles, keyed, touched, ncalcs>>

-----------------------------------------------------------------------------
(* The worker thread.                                                      *)

\* The titles of the axes are posted to the plot.
PostTitles ==
  /\ at = "begin"
  /\ at' = "setup" /\ titles' = PlotOf(calc.kind)
  /\ UNCHANGED <<steps, calc, vec, curve, map, text, loops, hung, keyed, touched,
                 ncalcs>>

\* No scan axis; or no instrument, crystal or model.
NoSetup ==
  /\ at \in {"begin", "setup"}
  /\ at' = "idle"
  /\ UNCHANGED <<steps, calc, vec, curve, map, text, loops, hung, titles, keyed, touched, ncalcs>>

\* The text is cleared by a call that the worker waits for.
Clear(kind) ==
  /\ at = "setup" /\ calc.kind = kind /\ titles = "none" /\ ~hung
  /\ text' = [lines |-> 0, eof |-> FALSE]
  /\ at' = "loop"
  /\ UNCHANGED <<steps, calc, loops, hung, titles, keyed, touched, ncalcs>>

\* Mutant: the vectors get no capacity.
Clear1DOnly ==
  /\ Clear("1d")
  /\ vec' = [vec EXCEPT ![Conv].size = 0]
  /\ UNCHANGED <<curve, map>>

\* Start1D: clear() keeps a vector's capacity, reserve() makes it sufficient.
Clear1D ==
  /\ Clear("1d")
  /\ LET cap == vec[Conv].cap IN
       /\ vec' = [vec EXCEPT ![Conv] =
                    [size |-> 0, cap |-> IF cap < calc.n THEN calc.n ELSE cap]]
       /\ curve' = IF cap < calc.n THEN Lose({Conv}, curve) ELSE curve
  /\ UNCHANGED map

\* StartDisp: the branches are deleted.
ClearDisp ==
  /\ Clear("disp")
  /\ vec' = [v \in DlgVecs |-> IF v \in BranchVectors THEN Empty ELSE vec[v]]
  /\ curve' = Lose(BranchVectors, curve)
  /\ UNCHANGED map

\* Start2D: MyQwtRasterData::Init keeps the pixels of a raster of this size.
Clear2D ==
  /\ Clear("2d")
  /\ map' = [i \in 1 .. calc.n |-> IF Len(map) = calc.n THEN "before" ELSE "none"]
  /\ UNCHANGED <<vec, curve>>

Store1D ==
  /\ calc.kind = "1d"
  /\ vec' = [vec EXCEPT ![Conv] = Push(@)]
  /\ curve' = IF Full(vec[Conv]) THEN Lose({Conv}, curve) ELSE curve
  /\ UNCHANGED map

\* A step with more branches than the ones before adds vectors for them.
StoreDisp ==
  /\ calc.kind = "disp"
  /\ \E k \in 0 .. NBranches :
       /\ vec' = [v \in DlgVecs |-> IF v \in First(k) THEN Push(vec[v]) ELSE vec[v]]
       /\ curve' = Lose({v \in First(k) : Full(vec[v])}, curve)
  /\ UNCHANGED map

\* MyQwtRasterData::SetPixel
Store2D ==
  /\ calc.kind = "2d"
  /\ map' = [map EXCEPT ![calc.done + 1] = "now"]
  /\ UNCHANGED <<vec, curve>>

\* The result of a step; it is shown at once, or after the last one.
Store ==
  /\ at = "loop" /\ calc.done < calc.n
  /\ Store1D \/ StoreDisp \/ Store2D
  /\ calc' = [calc EXCEPT !.done = @ + 1]
  /\ at' = IF calc.live \/ calc'.done = calc.n THEN "show" ELSE "updated"
  /\ UNCHANGED <<steps, text, loops, hung, titles, keyed, touched, ncalcs>>

\* set_qwt_data, which locks the mutex of the plot.
ShowStep ==
  /\ at = "show"
  /\ \/ /\ calc.kind = "1d" /\ ~Holds("1d")
        /\ curve' = [curve EXCEPT ![Conv] = Points(Conv),
                       ![Scan] = IF calc.scan THEN Points(Scan) ELSE NoPoint]
     \/ /\ calc.kind = "disp" /\ ~Holds("1d")
        /\ curve' = [c \in Curves |-> IF c \in BranchVectors THEN Points(c) ELSE curve[c]]
     \/ /\ calc.kind = "2d"
        /\ UNCHANGED curve
  /\ at' = "update"
  /\ UNCHANGED <<steps, calc, vec, map, text, loops, hung, titles, keyed, touched, ncalcs>>

\* The text follows, or not (m_pLiveResults), but for the last step.
Drawn ==
  /\ at = "updated"
  /\ \/ at' = "text"
     \/ at' = "loop" /\ calc.done < calc.n
  /\ UNCHANGED <<steps, calc, vec, curve, map, text, loops, hung, titles, keyed, touched, ncalcs>>

\* All steps are done, m_atStop is set, or a step has no result.
EndCalc ==
  /\ at = "loop"
  /\ at' = "idle"
  /\ UNCHANGED <<steps, calc, vec, curve, map, text, loops, hung, titles, keyed, touched, ncalcs>>

CpNext ==
  \/ \E kind \in {"1d", "2d", "disp"}, live, scan \in BOOLEAN : StartCalc(kind, live, scan)
  \/ ChangeSteps \/ ScaleChanged \/ ReadScan
  \/ \E p \in Plots : SavePlot(p) \/ PressKey(p)
  \/ Wrote \/ SetAxisTitle \/ Update \/ Updated \/ SetText
  \/ PostTitles \/ NoSetup \/ Clear1D \/ ClearDisp \/ Clear2D
  \/ Store \/ ShowStep \/ Drawn \/ EndCalc

CpSpec == CpInit /\ [][CpNext]_cpvars

-----------------------------------------------------------------------------
(* Properties.                                                             *)

EventLoops == [slot : {"SavePlot", "doUpdate"}, plot : Plots]

\* Type invariant.
CpTypeOK ==
  /\ steps \in 1 .. MaxSteps
  /\ calc \in [kind : {"none", "1d", "2d", "disp"}, n : 0 .. MaxSteps,
               done : 0 .. MaxSteps, live : BOOLEAN, scan : BOOLEAN]
  /\ at \in {"idle", "begin", "setup", "loop", "show", "update", "updating",
             "updated", "text"}
  /\ vec \in [DlgVecs -> [size : Nat, cap : Nat]]
  /\ curve \in [Curves -> [vec : DlgVecs, len : Nat, there : BOOLEAN]]
  /\ map \in Seq({"none", "before", "now"})
  /\ text \in [lines : 0 .. MaxSteps, eof : BOOLEAN]
  /\ loops \in Seq(EventLoops)
  /\ titles \in Plots \cup {"none"}
  /\ {hung, keyed, touched} \subseteq BOOLEAN
  /\ ncalcs \in 0 .. MaxCalcs

(***************************************************************************)
(* "curve 2 -> scan points": what a curve shows has not been freed, moved  *)
(* or shortened (ConvoDlg.cpp:100), whenever it is drawn.                  *)
(***************************************************************************)
Exists(c) == curve[c].there /\ curve[c].len <= vec[curve[c].vec].size
CurvesExist == \A c \in Curves : Exists(c)

(***************************************************************************)
(* So it is for the convolution and its scan, and for dispersions once     *)
(* they are calculated: not while they are drawn live, when their vectors  *)
(* grow, and not after another scan was read.                              *)
(***************************************************************************)
DrawnExists ==
  \A c \in Curves :
    \/ Exists(c)
    \/ c \in BranchVectors /\ calc.kind = "disp" /\ calc.live /\ at # "idle"
    \/ c = Scan /\ touched

(***************************************************************************)
(* A calculation that went through all its steps is shown whole, in its    *)
(* curves or its map and in the text, and nothing of one before with it;   *)
(* the plot is saved as it is shown, also after a stop.                    *)
(***************************************************************************)
ResultShown ==
  Usable /\ ~touched =>
    /\ \A c \in Curves : curve[c].len = vec[curve[c].vec].size
    /\ calc.kind # "none" /\ calc.done = calc.n =>
         /\ text = [lines |-> calc.n, eof |-> TRUE]
         /\ calc.kind = "1d" =>
              curve = [ClearPlot1D EXCEPT ![Conv] = Points(Conv),
                         ![Scan] = IF calc.scan THEN Points(Scan) ELSE NoPoint]
              /\ curve[Conv].len = calc.n
         /\ calc.kind = "disp" =>
              curve = [c \in Curves |-> IF c \in BranchVectors THEN Points(c) ELSE NoPoint]
         /\ calc.kind = "2d" => map = [i \in 1 .. calc.n |-> "now"]

(***************************************************************************)
(* Unless a key is pressed during a calculation, the GUI thread does not   *)
(* lock the mutex of a plot that it holds: what a worker has posted to the *)
(* plot is handled before the event loop in doUpdate, and no file is asked *)
(* for while one of its calls may come.                                    *)
(***************************************************************************)
NoRelock == hung => keyed

-----------------------------------------------------------------------------
(* The inductive invariant of Threads_proofs.                              *)

CpTypes ==
  /\ steps \in 1 .. MaxSteps
  /\ calc \in [kind : {"none", "1d", "2d", "disp"}, n : 0 .. MaxSteps,
               done : 0 .. MaxSteps, live : BOOLEAN, scan : BOOLEAN]
  /\ at \in {"idle", "begin", "setup", "loop", "show", "update", "updating",
             "updated", "text"}
  /\ vec \in [DlgVecs -> [size : Nat, cap : Nat]]
  /\ curve \in [Curves -> [vec : DlgVecs, len : Nat, there : BOOLEAN]]
  /\ loops \in Seq(EventLoops)
  /\ titles \in Plots \cup {"none"}

\* Where the worker is: a step is shown if it is live or the last one.
WorkInv ==
  /\ at \in {"begin", "setup"} => calc.done = 0 /\ calc.n > 0
  /\ at = "show" => calc.live \/ calc.done = calc.n
  /\ at # "idle" => calc.done <= calc.n
  /\ titles # "none" => at \in {"setup", "idle"}

\* The worker waits for the one doUpdate it has called.
Updating(i) == loops[i].slot = "doUpdate"
UpdateInv ==
  \A i \in 1 .. Len(loops) :
    Updating(i) => /\ at = "updating"
                   /\ \A j \in 1 .. Len(loops) : Updating(j) => i = j

\* A calculation of curves starts without any; the vector of its results has
\* the capacity for all of them; branches that are not drawn live are not drawn.
ResultInv ==
  /\ at \in {"begin", "setup"} /\ calc.kind # "2d" => curve = ClearPlot1D
  /\ at \notin {"idle", "begin", "setup"} /\ calc.kind = "1d" =>
       vec[Conv].size = calc.done /\ vec[Conv].cap >= calc.n
  /\ at # "idle" /\ calc.kind = "disp" /\ ~calc.live /\ calc.done < calc.n =>
       \A c \in Curves \intersect BranchVectors : curve[c] = NoPoint

\* A curve shows nothing or its own vector, which exists unless it has grown
\* since it was shown, or the scan was read.
CurveInv ==
  \A c \in Curves :
    /\ curve[c] = NoPoint \/ curve[c].vec = c
    /\ \/ Exists(c)
       \/ c \in BranchVectors /\ calc.kind = "disp" /\ calc.live /\ at = "show"
       \/ c = Scan /\ touched

\* The GUI thread is in one event loop, unless a key was pressed.
LoopInv ==
  \/ keyed
  \/ ~hung /\ loops = <<>> /\ at # "updating"
  \/ ~hung /\ at = "idle" /\ titles = "none"
     /\ \E p \in Plots : loops = <<[slot |-> "SavePlot", plot |-> p]>>
  \/ ~hung /\ at = "updating"
     /\ \E p \in Plots : loops = <<[slot |-> "doUpdate", plot |-> p]>>

CpIInv == CpTypes /\ WorkInv /\ UpdateInv /\ ResultInv /\ CurveInv /\ LoopInv
-----------------------------------------------------------------------------
(* What is shown: a second invariant, for ResultShown.                     *)

\* Only a map is calculated over curves that have been touched.
KindInv ==
  /\ calc.kind = "none" => at = "idle"
  /\ calc.kind # "none" => calc.n > 0
  /\ at # "idle" /\ touched => calc.kind = "2d"

\* A step of curves that is not shown yet.
Unshown == at = "show" /\ calc.kind # "2d"

\* All other curves have as many points as their vectors have elements.
WholeInv ==
  /\ vec[Zero].size = 0
  /\ ~touched /\ ~Unshown => \A c \in Curves : curve[c].len = vec[curve[c].vec].size

\* The text is complete before the worker can end after the last step.
AllDone == calc.kind # "none" /\ calc.done = calc.n
TextInv ==
  AllDone /\ at \in {"idle", "loop"} => text = [lines |-> calc.n, eof |-> TRUE]

\* A convolution has curves 1 and 2 only; without live plots they are empty
\* until the last step.
ConvInv ==
  ~touched /\ calc.kind = "1d" =>
    /\ \A c \in Curves \ {Conv, Scan} : curve[c] = NoPoint
    /\ at # "idle" /\ ~calc.live /\ calc.done < calc.n =>
         \A c \in Curves : curve[c] = NoPoint
    /\ AllDone => vec[Conv].size = calc.n
    /\ AllDone /\ ~Unshown =>
         /\ curve[Conv] = Points(Conv)
         /\ curve[Scan] = IF calc.scan THEN Points(Scan) ELSE NoPoint

\* A dispersion has the curves of its branches only.
DispInv ==
  ~touched /\ calc.kind = "disp" =>
    /\ \A c \in Curves \ BranchVectors : curve[c] = NoPoint
    /\ AllDone /\ ~Unshown =>
         \A c \in Curves \intersect BranchVectors : curve[c] = Points(c)

\* The pixels of the steps that are done are those of this calculation.
MapInv ==
  calc.kind = "2d" /\ (at \notin {"idle", "begin", "setup"} \/ calc.done > 0) =>
    /\ map \in [1 .. calc.n -> {"none", "before", "now"}]
    /\ \A i \in 1 .. calc.done : map[i] = "now"

ShownInv == KindInv /\ WholeInv /\ TextInv /\ ConvInv /\ DispInv /\ MapInv
=============================================================================
