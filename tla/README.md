# A TLA+ development of Takin

Takin (https://github.com/tweber-ill, here the mirror of version 1) is a
toolbox for triple-axis neutron spectroscopy: it computes instrument
resolutions, convolves models of the dynamical structure factor S(Q,w) with
them, fits the models to measured scans, and shows instruments and scans, also
live from a running instrument.  This directory holds TLA+ models of the parts
of Takin in which threads, processes, queued events, nested signals and copies
of state interact, the TLC runs that check them on small instances and
machine-checked proofs.

## 1. Inventory

Paths are relative to `src/`.  "tlibs" (numerics, TCP client, thread pool,
logging), boost, Qt, Minuit, Python and Julia are external: they are modelled
by how Takin uses them.

| component | state | operations | hard behaviour | modules |
|---|---|---|---|---|
| Sub-process models, `tools/monteconvo/sqw_proc_impl.h` | mutex, two message queues, shared string, child process, references | construct, the calls, `shallow_copy`, destroy; `child_proc` loop | threads share one child; string read after the answer; child dies; waits without timeout | `SqwData` `SqwModel` `SqwProc` |
| Script models, `sqw_py.cpp`, `sqw_jl.cpp` | interpreter globals | `GetVars`, `SetVars` | a value that does not evaluate ends `SetVars` in the middle | `SqwData` |
| Built-in models, model factory, `sqw.cpp`, `sqwfactory.cpp` | variables, k-d trees shared by copies | construct, `SetVars`, `shallow_copy`, evaluate | a tree older than the variables it was built from; what a copy keeps | `SqwModels` |
| Fit model, `tools/convofit/model.cpp` | current parameter set, resolutions, scans | `SetParamSet`, `SetOtherParams`, `copy`, `operator()` | a cached set number per copy, parameters shared by the copies | `MultiFit` |
| Fit jobs, `convofit_main.cpp`, `convofit.cpp` | thread pool, working directory, thread-local logs | `run_job` | concurrent jobs, process-wide state, early returns | `ConvofitJobs` |
| Convolution dialog, `tools/monteconvo/ConvoDlg*.cpp` | worker thread, stop flag, widgets; model, scan, positions; curves and map | start, stop, save, load, export, plot | worker posts events and blocking calls to the GUI; a stop may be lost; handlers set each other off; curves point into vectors that grow | `ConvoDlg` `ConvoSession` `ConvoPlot` |
| Resolution, `tools/res/*`, `TASReso.cpp`, `dialogs/Ellipse*` | fields, parameters, result, ellipses | edit, calculate, save, load, `SetHKLE` | the result, what is derived from it and what is shown are of different times | `ResoCalc` `Reso` |
| Instrument connections, `tools/taz/{nicos,sics,taz_net}.cpp` | TCP client, poller thread, value cache | connect, disconnect, refresh, receive | asynchronous connection, queued signals, a cache shared by threads | `NetConn` `NetValues` |
| GL plotter and 3D views, `libs/plotgl.cpp`, `tools/taz/{recip3d,real3d,bz3d}.cpp` | objects, size, render thread | clear, fill, enable, resize, hide, render | a picture is many calls; render thread and GUI share the list | `PlotGl` |
| Main window and scenes, `tools/taz/{taz,scattering_triangle,tas_layout,tof_layout}.cpp` | nodes, angles, flags, dialogs | drag, set, signals in a ring | signals that call back, flags that stop them | `Scenes` |
| Session of the main window, `taz_file.cpp`, `taz_crys.cpp`, `dialogs/{Goto,Atoms,DeadAngles}Dlg.cpp` | crystal, spacings, sense, tables, files | edit, go to, save, load, import, new | several copies of one setting | `Session` |
| Scan viewer, `tools/scanviewer/scanviewer.cpp` | directory, list, scan, plot, fit | select, trim, plot, fit, export | files change while they are shown | `ScanViewer` |
| Dialogs for powders and dispersions, crystal systems, `dialogs/{Powder,Disp}Dlg.cpp` | lattice, group, atoms, table | edit, filter, save, load | handlers that run inside of handlers | `CrystalDlgs` |
| Dialogs for neutrons, time of flight, factors, spurions, lattices, `dialogs/{Neutron,TOF,DW,Spurion,RecipParam,RealParam}Dlg.cpp` | edits and plots | edit, follow the instrument, store | edits write into each other | `ParamDlgs` |
| Network cache dialog, recent files, Qt helpers, import of scans | rows; list of names; curves | update, clear, add, plot | - | in `NetValues`, `ConvoSession`, `ConvoPlot`, `MultiFit` |
| Scan monitor and server dialogs, powder fit, scan positions, Monte-Carlo events, form factors, settings, command line, examples, forms | widgets, tables | show, convert | - | - |

What makes the components correct is stated by the properties of section 4.

## 2. Organisation

Each component has a module of its own; the constants are named parameters under
a named assumption, there is one action per handler or step, invariants are
conjunctions of named parts, and no operator is RECURSIVE.  A module ends with
its properties and, where it is proved about, the inductive invariant.  The
proofs are in modules of their own: `SqwProc_proofs`, `Scenes_proofs` and
`Reso_proofs` for the module of their name, `ScenesReso_proofs`, which rests on
`Scenes_proofs`, for the resolution in `Scenes`, `Dialogs_proofs` for
`ConvoSession`, `CrystalDlgs` and `ParamDlgs`, `Fit_proofs` for `MultiFit` and
`SqwModels`, `Windows_proofs` for `NetValues`, `Session` and `ScanViewer`, and
`Threads_proofs` for `ConvoDlg`, `ConvoPlot`, `ConvofitJobs`, `NetConn` and
`PlotGl`.

* `SqwModel` is the abstract specification of a model that is called from
  several threads; `SqwProc` implements it (`ImplementsSqwModel`).
* `MCSqwProc` instantiates it; `MCConvofitJobs` the pool.
* `MCThreads` puts the parts together in which threads wait for each other
  (`ConvoDlg`, `NetConn`, `PlotGl`, `ConvofitJobs` with relative names),
  `MCWindows` what runs in the GUI thread of the main window and the scan viewer
  (`NetValues`, `Session`, `ScanViewer`), and `MCConvofit` the parts of the
  convolution and the dialogs (`ConvofitJobs` with one thread, `MultiFit`,
  `SqwModels`, `ConvoSession`, `ConvoPlot`, `Reso`, `CrystalDlgs`, `ParamDlgs`).
  The parts of these three share no state in the program either: a variable `part` says which
  one moves in a behaviour, so that one run answers for all of them.
* `Scenes` is checked by itself: it is the largest.

How the parts meet: the pool's jobs run fits of `MultiFit`, which evaluate copies
of models of `SqwModels` or `SqwProc`; `Conditions` in `Fit_proofs` assumes of a
model only whether its copies have their own variables, which `SqwModels` shows of
the built-in ones and `SqwProc` denies.  `ConvoDlg` starts and stops the
calculations whose results `ConvoPlot` shows and whose settings `ConvoSession`
keeps; the resolution that is used is the loader's in `Reso` (`SameResolution`).
`NetConn` says when `NetValues` receives something; the values reach `Scenes` as the
event "vars" and `Session` as `VarsChanged`; `Scenes` tells `Reso` the position and
`ParamDlgs` the parameters.

What could come next: `InstrumentSpec`, an abstract specification of a connection
that `NetConn` and `NetValues` together implement; the import of scan positions
and the series fits of the scan viewer; the mouse in `PlotGl`.

## 3. How the modules correspond to the code

Source lines of every definition are in `PROJECT.json` ("map").  In each module
a definition under the comment "Mutant:" is a plausible wrong version of the one
that follows it; nothing uses it.  It documents which mistake a property of the
module would detect.

### SqwData, SqwModel, SqwProc

| TLA+ | code |
|---|---|
| `pc[c]` | where an `SqwProc` object is: in its constructor, idle, in a call between lock, shared string, request and answer, or in its destructor |
| `mtx` | the mutex shared by the object and its shallow copies |
| `out`, `in` | the message queues `m_pmsgOut`, `m_pmsgIn` |
| `buf` | the string in shared memory |
| `child`, `cmsg`, `cval` | `child_proc`'s loop, the message it handles, the answer |
| `names`, `queues` | which shared resources have been created or removed |
| `model` | the variables of the model object in the child |

`SqwData` says what travels: parameter lists are truncated when the string is
full (`pars_to_str`), records whose text contains a separator are dropped
(`str_to_pars`), a dispersion that does not fit is not written, and
`SqwPy::SetVars` stops at the first value that does not evaluate.  `SqwModel` is
the promise to a client: a call takes effect at one instant between its
invocation and return.  `SqwProc` maps to it by `Phase`, `Arriving` and `bOk`.

### MultiFit

A group of scans is a number; what an evaluation depends on (scan, sample,
instrument file, temperature, parameters, random numbers) is recorded in `seen`
instead of computing chi^2.  `fkt` holds the two `SqwFuncModel` objects that
exist at a time, the job's own and Minuit's copy, with `m_iCurParamSet` (`set`),
`m_pScans` (`scan`) and `m_vecResos` (`resos`); `sqw` holds the variables of their
S(Q,w) models, one copy of them if `Shared` (script models: `SqwPy`, `SqwProc`),
one each otherwise (built-in models).  `LoadScans` is the loop over the groups,
`SetUp` the part of `run_job` up to the fit, `StartChi2`, `Chi2Set` and `EndChi2`
an evaluation by Minuit, `FitDone` the call of `SetMinuitParams`, and `SaveSet`
the saving of the curves.

### SqwModels

An object has its kind, `m_bOk`, the data of its file, its members, a pointer to a
tree and the list of fit values; `heap` says what each k-d tree was built from.
What an evaluation depends on is `Evaluated`.  Construction from a file, `SetVars`
with rebuilding of the tree where the class does so, and `shallow_copy` of the
six kinds of models are actions.  A model that reads data (`SqwElast`, `SqwKdTree`,
`SqwTable1d`) takes only these from its file: its variables have their defaults
until they are set.  `wanted` is what the calls have asked an object for.

### ConvofitJobs

`job` says which job each thread of the pool runs, `pc` where in `run_job` a job
is, `cwd` is the working directory of the process, `prog` and `moved` are the
locals `pathProg` and `bChangedCWD`, `ostrs` the streams registered with the
loggers of a thread, `files` a history of the files opened.  The three steps
`CompletePath`, `ComparePaths` and `ChangeDir` are separate since other threads
may change the directory between them.

### ConvoDlg

`enabled` abstracts the widgets to the five groups that `fktEnableButtons` enables
one event after the other; `queue` is the event queue of the GUI thread as far as
the worker fills it: the name of a widget for `setEnabled`, "call" for a
`BlockingQueuedConnection`, during which the worker waits.  `gui` is "join" while
`m_pth->join()` is called in `Start1D`, "close" while it is in the destructor.
`task` are the tasks of the pool, each checking `m_atStop` when it begins; the
check for every neutron is covered by `EndTask`, which may end any running task
without a result.  The menu, enabled before the start button, starts calculations
too.  `asked`, `late` and `early` are history variables; `early` says that a worker
began before all that its predecessor posted was handled.  `Start2D` and
`StartDisp` have the same structure as `Start1D`, to which the map refers.

### ConvoPlot

A curve keeps a pointer to a vector and a length (`curve`); a vector has a size and
a capacity (`vec`), and growing past the capacity moves it.  `text` is the result's
text and `map` the raster, each with the calculation its parts are of.  `loops` is
the stack of event loops the GUI thread is in: `SavePlot` asks for a file, and
`doUpdate` flushes events, with the plot's mutex held.  `titles` are the calls of
`setAxisTitle` that a worker has posted without waiting for them: they lock the
mutex in whatever event loop they are handled.  The menu and the keys of a plot
save it (`SavePlot`, `PressKey`); the keys are not disabled during a calculation.

### ConvoSession

The combo box, the edits and the check boxes are kept apart from what their
handlers made of them (`pSqw`, `scanning`, `current`, `rows`).  `Load` sets the fields
one by one, each with its handler, except those that a flag holds back.  A
session on disk is a record of fields; files are found from a directory or from
the global path.  `SaveConvofit` exports the job for convofit.

### ResoCalc, Reso

`ResoCalc` has no state: each algorithm is an operator from its parameters to the
parts of them that its result depends on, or to `Failed`; the ellipses are the axes
and offsets that are cut out of a result.  In `Reso`, `rd` is the dialog: the
fields, the parameters last given to the calculation, the result and, each of
its own time, the text, the matrices, the neutrons and the two windows.  `tas`
is a `TASReso`, which reads the saved file and takes the position by `SetHKLE`.  The
settings can give each plot of the 2D window other indices (`Configurable`).

### NetConn, NetValues, PlotGl

`NetConn`: `main` is where the GUI thread is in `TazDlg::Disconnect`, which calls
`SicsCache::disconnect`, deletes the cache and joins its thread; `tcp` is the client
and the slot that runs in its own thread; `threads` are the polling threads that
run; `events` are the signals posted to the main window.  `hasty` and `tardy` say that
a connection was given up before it was established, or before its event was
handled.

`NetValues`: `cached` and `passed` are the two caches, `slot` a call of `slot_receive`
that is underway, `queue` what is posted to the dialogs and scenes.

`PlotGl`: the GUI thread makes a picture with one call after the other (`view`, `k`),
each under `m_mutex` but `SetObjectCount`, which takes no mutex and is made of two
steps, since a vector that gets new memory consists of several pointers
(`GrowList`, `SetObjectCount`).  The render thread goes through `start`, `resize`, `tick`,
`lock` and `draw`.  `TornRead` is what it does when it reads the list between these
two steps: the program ends, or goes on with any number of objects.  `frame` is what
it has drawn of a frame, with the version of each object, and `shown` the last
frame it has finished.

### Scenes, Session, ScanViewer

`Scenes`: `todo` is the call stack: the slots that are still to be called and the
rests of those that were interrupted by a signal.  Angles are turns modulo a
small number, so that signs, folding and the two sides of an axis are kept; a
wavenumber is an index that Bragg's law relates one to one to an angle.  A slot that
calls several functions pushes them in their order: `CalcPeaks` of the main window
first those of the triangle's own `CalcPeaks` and the snapping.  `dont`,
`busy`, `ready` and `update` are the flags that stop signals.

`Session`: `window`, `triangle`, `latt`, `go` and `tables` are the copies of the settings;
nodes of the triangle are named by their Miller indices in a crystal.

`ScanViewer`: a column is the sequence of its rows' numbers, so that trimming,
interleaving and merging are what they do to rows; `plot` and `fit` say what they were
made of.  Files appear, change and vanish as actions of other programs; the
watcher's notification is an event of its own.

### CrystalDlgs, ParamDlgs

One action is all that one event of the user sets off, since a handler changes
other widgets whose handlers run at once.  `CrystalDlgs` has both dialogs with
the crystal systems' constraints, the filtered list of groups, files, and what is
shown; a reflection is a number, and what a filter's text matches is a sequence
of groups, in the order of the list.  In `ParamDlgs` a number is the logarithm of
what an edit shows, so that the formulas are sums: the factors of an equation
exceed their product by `Excess`, and what is calculated is a factor less that
excess.  `pw` is a window with its edits, its plots and texts, and the position and
crystal it was told.

## 4. Runs

| run | question | result |
|---|---|---|
| `sqwproc_calls` | three objects, a child that may die: is an answer ever the one to another request (`AnswerMatchesRequest`), is anything left over (`CleanedUp`)? | no |
| `sqwproc_atomic` | two objects, values that are refused or cannot be transmitted: are calls atomic (`ImplementsSqwModel`), does each call release the mutex (`MutexReleased`), and does the child quit after its last object (`ChildQuits`)? | yes, the last two while the child lives |
| `convofit` | the sequential parts: see below | all hold |
| `threads` | the parts in which threads share state: see below | all hold |
| `scenes` | three events of the user, the network or a file: do the layouts and the triangle show the same instrument (`LayoutsAgree`), do the dialogs show it (`DialogsFollow`), is the resolution that of its position (`ResolutionFollows`)? | yes |
| `windows` | the main window and the scan viewer: see below | all hold |
| `multifit_stale` | models that share their variables (script models): is each group evaluated under its own conditions? | no: finding 1 |
| `multifit_mismatch` | is each group evaluated with its own instrument if one failed to load? | no: finding 2 |
| `jobs_dirs` | two threads, two directories: does each job keep to its directory? | no: finding 3 |
| `convo_stop` | is "stop" heeded? | no: finding 4 |
| `scenes_live` | is the resolution always that of the current position? | no: finding 5 |
| `models_copy` | does a copy keep the variables that a job fixes? | no: finding 6 |

What the three composed runs ask:

| run, part | properties |
|---|---|
| `convofit`, jobs | one thread, absolute names: each job finds its job file and reads and writes in its directory (`OwnDirectory`) |
| `convofit`, fit | models with their own variables: each group is evaluated at its own temperature (`MeasuredConditions`), with its own scan, the parameters asked for and the instrument loaded for its number (`OwnInputs`), and the same way whenever it is asked for (`Reproducible`) |
| `convofit`, models | an object evaluates and shows the variables that its file and the calls on it, and on its original before it was copied, have given, whatever is done to other objects that share its tree (`ModelsTrue`) |
| `convofit`, session | the dialog's model, scan, positions and recent sessions are those of its fields and files (`DialogTrue`); a loaded session is the saved one, and an exported job has every variable once (`Reloaded`) |
| `convofit`, plot | a curve points to elements that exist (`DrawnExists`), a calculation that went through is shown whole (`ResultShown`), no mutex is locked twice but by a key (`NoRelock`) |
| `convofit`, reso | text, matrices, neutrons and ellipsoid are those of the fields at the last position that could be used (`ResultsTrue`); convofit's loader gives the same resolution (`SameResolution`); the windows draw the right axes of the last result (`EllipsesTrue`) |
| `convofit`, crystal | table, plot, lattice, group and atoms are of one sample, and a saved file brings it back (`OneSample`) |
| `convofit`, params | the fields of a dialog agree with each other, with their plot and with the instrument (`FieldsAgree`) |
| `threads`, convo | the GUI thread never waits for a worker that needs it (`NoFreeze`), widgets are locked while used and free afterwards (`LockedAndFreed`), each calculation ends (`EveryRunEnds`); the first two as long as no calculation was started from the menu before the last one's events were handled, but the widgets are always freed |
| `threads`, net | a late event does not take a loaded crystal away (`CrystalKept`), disconnecting ends (`DisconnectEnds`) |
| `threads`, gl | only whole pictures are shown (`PictureComplete`), no size is lost (`ResizeKept`), a view never waits for ever (`RenderServes`), and one that is left alone comes to show all of its last picture in its last size (`PictureShown`) |
| `threads`, jobs | two threads, relative names: no thread logs to another job's file (`OwnLog`) |
| `windows`, values | rows of the cache dialog (`RowsTrue`) and the scenes (`SceneFollows`) show what the instrument sent last |
| `windows`, session | a position is reached as it was asked for (`GotoReaches`), the scenes show the fields' crystal (`CrystalCurrent`), sessions come back as they were saved (`RoundTrip`) |
| `windows`, viewer | what is drawn, fitted and exported are the selected rows, files and columns (`PlotTrue`); the list is that of the directory and what is loaded is what is selected (`ListTrue`) |

A property that holds with exceptions names them in its definition; section 5
says what happens there.

### Bounds

* `sqwproc_*`: two or three objects (the creator, and one or two copies, which are
  symmetric where no liveness is checked): a call concurrent with another one
  and with the destruction of a third.  One parameter with two values and one
  query where only the protocol matters; two parameters and values of three
  kinds in `sqwproc_atomic`, so that a list can be truncated (`BufCap` 1), refused
  in the middle or lose a record.  The queue's size is 1, which is `MSG_QUEUE_SIZE`
  as far as it can be filled: by theorem `OneRequest` no second message is ever
  there.
* fits: three groups (a first, a last and one between), two temperatures, two
  parameter values, and `MaxChi2` = 2 evaluations: the second one starts from what
  the first has left, and the next one starts from the same kind of state.
* jobs: five jobs for one thread, four (two) for two, over two directories and
  the one the program is started in: a job in another directory than the one
  before and in the same one as an earlier one.
* models: `MaxCalls` = 4 calls on two objects: create, set, copy, set again is the
  longest way in which one object can disturb another one.  A file gives at most
  one variable a value, as the file's variables are stored independently.
* `ConvoDlg`: four (two) steps, which is a first, a last and two between that are
  calculated out of order; any number of calculations one after the other.  One
  can be started while up to `MaxQueue` = 2 events of earlier ones are left, which
  are those that follow the menu's.
  `ConvoPlot`: two calculations of up to three steps, so that a shorter one follows
  a longer one, with one branch more than there are curves.
* connections: `MaxConn` = 3, one that is lost or closed, one whose events are late,
  and one more; two for the values, with two events underway.
* views: three objects (one drawn, one being drawn, one to come), two pictures
  or changes of one, two sizes.
* `Scenes`: two wavenumbers, three turns (zero, and one to either side), two
  spacings for which the angles differ, three events, each with all its nested
  signals: the mouse pressed, moved and released, or a file, a movement and
  another one.
* session, viewer, dialogs: four steps of the user in `Session` and `ScanViewer`, four in
  `ConvoSession`, three in `Reso`, `CrystalDlgs` and `ParamDlgs`.  `Session` starts from
  a new window; the other dialogs start from several states, those that earlier
  runs of the program have stored among them, so that a change, the save or load
  and another change fit in.  Two directories with two files each, three rows
  and a trim of at most one row on each side and between leave none, one, two or
  all rows.

The theorems of section 6 do not depend on these bounds.

### Fairness

* `SqwProc`'s `FairSpec`: a thread that is in a call, a constructor or a destructor
  proceeds when it can (no thread of the program waits for a user there), and the
  child handles its messages.  The fairness is weak: that each waiting thread gets
  the mutex at some time is neither assumed nor claimed.  It is checked with
  `ChildMayDie` = FALSE: `receive` has no timeout, so that a call waits forever if
  the child dies.
* `ConvoDlg`: the GUI thread handles its events, the worker and the pool's threads
  run.  `SF_vars(NextStep)` says that the results of a step are shown by a limited
  number of blocking calls (at most four).
* `NetConn`: the GUI thread goes on with a disconnection it has begun
  (`GuiStep`), a polling thread that was created starts, and one that finds its
  flag cleared ends, as none of its requests waits without a timeout.  Nothing is
  assumed of the TCP client: a server may never answer.
* `PlotGl`: `WF(Render)`, the render thread runs (the program ends at a torn list, if at
  all, by `TornRead`, of which nothing is assumed); `SF(ViewWork)`, the GUI thread gets
  `m_mutex` at some time although the render thread takes it again for each
  frame: the thread sleeps between frames without it, so that the mutex is free
  most of the time.

Nothing is assumed of the user: he need not press or close anything.
`MCThreads` restricts each condition to its part.

Deadlock is checked where the program goes on forever: `sqwproc_atomic` (with the
explicit step `Terminated` of a program that has ended), `convofit` (with `Ended`),
`scenes` and `scenes_live` (with `Spent`) and `jobs_dirs` (with `AllReturned`).  It is
not checked in `sqwproc_calls`, where the child may die under a caller; in
`multifit_*` and `models_copy`, where the job or the calls end; in `threads`,
`convo_stop`, where the dialog is closed, the connection given up or the view
destroyed; and in `windows`, where the user's steps are counted.  `Ended` includes a
GUI thread that waits for itself in `ConvoPlot` (`hung`), which `NoRelock` is about.

## 5. Findings and limits

Findings, each the counterexample of a run:

1. `model.cpp:442`: the number of the current parameter set is cached per copy,
   its effect is shared by the copies of a script model.  From the second
   evaluation of chi^2 on, the first group is evaluated at the temperature and
   field of the last one.
2. `convofit.cpp:428`: a group that cannot be loaded moves the following scans,
   but not their instruments, one place forward.
3. `convofit.cpp:118`: jobs in several threads change the directory of the whole
   process.
4. `ConvoDlg_sim.cpp:79`: starting again after "stop" resets the stop flag while
   tasks of the stopped calculation are still in the pool; they are then
   calculated, and the GUI thread waits for them.
5. `taz.cpp:1288`: while the time-of-flight layout is dragged the resolution
   dialog listens to the triple-axis layout, which emits nothing then; the
   "live view" of `doc/reso.html` stays at the position before.
6. `sqw.cpp:357`: copies of the one-dimensional table model do not keep its
   lattice point nor its columns, so that a fit uses (000) whatever the job sets:
   in the counterexample a model is given `G` and copied.

Observed on the models, without a statement in the code that says otherwise;
where a property would be violated, its definition excepts the case:

* sub-processes: `SetVars` reports success whatever the model does with the values;
  the error message at `sqw_proc_impl.h:507` cannot be reached.  The test for the
  last reference (line 389) is not atomic with dropping it; copies are destroyed
  before the object that created the child, as their owners do.
* jobs: relative job names in different directories are not found even with one
  thread, since the directory is never changed back.  A job that returns early
  leaves its closed log file among its thread's streams.  A job that throws ends
  the report of those after it (`convofit_main.cpp:201`).
* `ConvoDlg`: the menu is enabled again before the button, each by an event of its
  own.  A calculation that the menu starts in between (`early`) runs in a dialog
  that the events which are left unlock, and the next start can then wait for a
  worker that waits for the GUI thread: `NoFreeze`, the locking in `LockedAndFreed`
  and `EveryRunEnds` except what follows such a start, and hold in it otherwise: it
  does not freeze by itself, and the widgets come back.  A dialog that is closed
  during a calculation waits for a worker that may be waiting for it
  (`EveryRunEnds` leaves closing out).  After a stop, the chi^2 may index results
  that do not exist (`ConvoDlg_sim.cpp:457`); `m_vecvecW` is resized with the wrong
  count (line 1032).
* `ConvoPlot`: dispersions that are drawn live, and the scan's curve once another
  scan was read, point to memory that was given back (`DrawnExists` excepts
  both).  `doUpdate` runs an event loop, with the mutex of the plot held, to "flush
  pending "QMetaObject::invokeMethod" calls" (`qwthelper.cpp:603`), but it handles
  keys as well: S and G in the plot lock the mutex again and the GUI thread hangs;
  in the file dialog of a key, a title that was posted does (`NoRelock` excepts
  both by `keyed`).  After a stop the map shows pixels of the calculation before.
  Branches beyond `CONVO_MAX_CURVES` are not shown.
* `ConvoSession`: a session without a model's name keeps the old model under the
  new file name; another scan overwrites the positions that were loaded.
* `Reso`: deleting the curve's name keeps the curve; the spacing of the crystals
  is taken over with the next position; a position whose triangle does not close
  leaves the results, with status "ok"; a given curvature is taken for the
  optimal one by the loader, which does not know the simple algorithm either.
  After a calculation that failed, text and ellipses keep the earlier result.
  Of the indices that the settings can give a plot, `EllipsesTrue` is about those
  whose two axes are in the order of the matrix, as in all default plots: the
  ellipse is cut out of the matrix in its order, the labels follow the indices.
* `CrystalDlgs`: typing or deleting a filter walks the current group through the
  list and imposes each one's crystal system on the lattice; a file of atoms
  without their number clears them; an atoms dialog that is open keeps the atoms
  of before.  The centre of a dispersion is cut to the atoms of the dialog that
  loads the file; also a saved -1, which only a dialog that once had no atoms
  can show: the proof of `OneSample` has found this one, which needs more steps
  than the run has.
* `ParamDlgs`: a wavelength that is an expression is saved as text and comes back
  as 5; an energy of a spurion beyond 999.9999 is cut; when a scene throws after
  the lattice was replaced (`taz_crys.cpp:298`), the real-space dialog keeps the
  metrics of another crystal than its lattice's (`FieldsAgree` excepts it).
* connections: a disconnect while the connection is being made may abort the
  program, or leave a polling thread whose flag is set again (`hasty`); an event
  "connected" that is underway clears a crystal loaded in between (`tardy`).
  After a refresh SICS' values that are zero are not passed on.
* views: `SetObjectCount` (`plotgl.h:121`) resizes the list without the mutex under
  which the render thread reads it.  A frame that found the plotter enabled before
  `SetEnabled(0)`, and the animation of a disabled one, can read the list in the
  middle of that; `GetObjSortOrder` then logs "Possible corruption in GL object
  list." (`plotgl.cpp:315`) at best (`TornRead`).  `PictureComplete` excepts a frame
  that was begun before `SetEnabled(0)`, `DrawnUndisturbed` one that read a torn list;
  `PictureShown` has neither exception, only that of a program that has ended.
  That all other frames are drawn from a list that stays as it is (`DrawnUndisturbed`)
  is theorem `Undisturbed`.
* `Scenes`: besides finding 5, the resolution stays where it was when the spacings
  are edited, until the next movement, and after a session was loaded.  Loading a
  file puts its spacings into the main window's fields and the resolution's into
  the dialog, but the triangle keeps its own until one is edited or the dialog is
  opened (`filed`); meanwhile the resolution is that of the dialog's spacings, which
  `ResolutionFollows` excepts.  An earlier, smaller exception (fields that differ from
  the triangle) was wrong after two files, which takes more events than the run has;
  the search for an inductive invariant has shown it.
* `ScanViewer`: when the monitor's column is shorter than y, `PlotScan` normalises
  with rows that do not exist (`undefined` in `PlotTrue`); a fitted curve stays when
  an axis is changed.
* a recent file that the settings list twice is taken out once only
  (`recent.cpp:51`).  The main window may replace the dialog's settings during a
  calculation (`taz_file.cpp:387`).

Assumptions about code that is not in the repository: a thread pool of tlibs runs
its tasks in order and its destructor waits for them; `tl::Chi2Function_mult`
evaluates the sets of a copy from the first to the last, in one thread (the
documentation builds Minuit without OpenMP); boost's queues keep the order of
messages; Qt handles events in the order they were posted, calls the slots of a
signal in the order they were connected, and emits none for a value that a widget
already has.

## 6. Proofs

All theorems are checked by TLAPS down to their leaves.

| module | theorems | assumption beyond the constants' own |
|---|---|---|
| `SqwProc_proofs` | `Invariance`, `TypeCorrect`, `OneRequest`, `AnswersMatch`, `OneUser`, `QuitLast`, `Cleanup`; `Atomicity`: `Spec => ImplementsSqwModel` | none: any number of objects, parameters, values; the child may die |
| `Fit_proofs`, of `MultiFit` | `Invariance`, `TypeCorrect`, `Inputs` | none |
| | `Conditions` | copies have their own variables |
| | `Instruments` | no group fails to load |
| | `SameResult` | neutrons are recycled, copies have their own variables |
| of `SqwModels` | `MdInvariance`, `ModelsEvaluate` | none: any number of models, values, calls |
| `Threads_proofs`, of `ConvoDlg` | `DlgInvariance`, `DlgTypeCorrect`, `NeverFreezes`, `WidgetsFollow` | none: any number of steps, started by the button or the menu |
| | `ButtonSafe` | calculations are started with the button |
| of `ConvoPlot` | `CpInvariance`, `CurvesExistent`, `NeverRelocks`, `ResultsShown` | none: any number of steps, branches, calculations |
| of `ConvofitJobs` | `JobsInvariance`, `JobsTypeCorrect` | none |
| | `JobsDirectories` | one directory, or one thread and absolute names |
| | `Logs` | no job returns early |
| of `PlotGl` | `GlInvariance`, `Pictures`, `Sizes`, `Undisturbed` | none: any number of objects, pictures, sizes |
| of `NetConn` | `NetInvariance`, `PollerEnded`, `CrystalStays` | none: any number of connections |
| `Dialogs_proofs`, of `ConvoSession` | `CsInvariance`, `DialogShows`, `SessionsReload` | none: any models, names, directories, number of events |
| of `CrystalDlgs` | `XdInvariance`, `OneSampleShown` | none: any groups, systems, filters, atoms, files, number of events |
| of `ParamDlgs` | `PdInvariance`, `FieldsTrue` | none: any numbers, positions, crystals, number of events |
| `Reso_proofs` | `RsInvariance`, `ShowsResult`, `ConvolutionAgrees`, `EllipsesOfResult` | none: any positions, curves, values of the fields, number of events |
| `Windows_proofs`, of `NetValues` | `NvInvariance`, `TableShowsLast`, `ScenesFollow` | none: any keys, parameters, connections, events underway |
| of `Session` | `SessionInvariance`, `Reaches`, `CrystalShown`, `SessionsReturn` | none: any crystals, peaks, lists, files |
| of `ScanViewer` | `SvInvariance`, `ListFollows`, `PlotShowsRows` | none: any directories, files, columns, rows |
| `Scenes_proofs` | `ControlInvariance`, `LayoutInvariance`, `LayoutsAgreeAlways`, `DialogInvariance`, `DialogsFollowAlways` | none: any numbers of wavenumbers, angles, spacings and events |
| `ScenesReso_proofs` | `ResoInvariance`, `ResolutionFollowsAlways` | none: the same |

The constants' own assumptions are the `ASSUME`s of the modules, which TLC
evaluates in the runs.  They say of which type the constants are, that the model
values differ, and in `SqwModels` that memory does not run out: there is always a
tree that no model owns.

Where an assumption is needed, the findings above show what happens without it.
In each module the invariants are not inductive by themselves; the inductive
invariant is:

* `SqwProc`: the mutex is held exactly during an exchange (`MutexInv`), and what is
  in the queues and in the child's hands is a function of where the client that
  holds it is (`ChannelInv`): sent, being handled, answered, or nothing.  The
  owner is the last object (`OwnerInv`), a model is called only if it is set up
  (`CallInv`), and the string holds what was last written for the exchange
  (`DataInv`).  All safety properties follow.  For the refinement, `StepMaps` shows
  for each action which step of `SqwModel` it is: a call is applied when the child
  asks its model, and what is read from the string later is what was decided
  then, by `DataInv`.
* `MultiFit`: for the objects that exist, the remembered set is the one whose scan,
  sample and, with own variables, temperature are set (`ObjectInv`); scans stay in
  their place while none fails (`ScansInv`); the object that is evaluated next has
  the parameters that were asked for (`AskedInv`).  For `Reproducible` it says too
  that the groups are in order (`Increasing`), that what was evaluated stands at
  one place among them, and that every evaluation began with the seed: the first
  of a copy because its original was left at the last set, any other because it
  switches sets (`SeedInv`).
* `SqwModels`: a model's members are those it was asked for (`MembersInv`), and its
  tree is built from them (`TreesInv`), for all models that share a tree at once:
  a copy shares the tree until one of the two sets a variable, which builds a
  new tree that no other model has.  `SqwTable1d` is excepted after its columns
  were set (`Stale`), see finding 6.
* `ConvofitJobs`: no two threads run one job (`JobsInv`), a log file is registered
  only between its opening and `Finish` (`LogsInv`), and under `OneDirectory` the
  working directory is that of each job past `ChangeDir` (`DirectoryInv`).
* `ConvoDlg`: as long as no calculation was started too early, the queue is the
  call the worker waits for, or a segment of the order in which widgets are
  enabled, of which those before are enabled and those after are not (`QueueInv`),
  so that a start, whose button or menu was enabled then, means that the worker
  does not need the GUI any more (`JoinInv`).  Also after an early start a widget
  that a worker has enabled is enabled, or its event is in the queue (`FreedInv`,
  with `PostedInv`): this is why all are free at the end.  With the start button,
  which comes last, a start means that the queue is empty, and no start is early
  (`ButtonInv`).
* `ConvoPlot`: a calculation of curves starts without any, its vector has the
  capacity for all its steps, and dispersions that are not drawn live are not
  drawn before the last step (`ResultInv`), so that a curve, which shows its own
  vector only, loses it in the excepted cases alone (`CurveInv`); unless a key was
  pressed there is one event loop at a time, and in one that holds a mutex no
  title is left that was posted to a plot (`LoopInv`, `UpdateInv`): a worker waits,
  before its first `doUpdate`, for a call that is handled after its titles, and the
  menu is enabled after them.  `ResultShown`
  needs `ShownInv`: which curves a kind of calculation has, that all of them but
  those of the step that is just made have as many points as their vectors
  (`WholeInv`), that the text is written before the worker can end (`TextInv`), and
  which pixels are of this calculation (`MapInv`).
* `ConvoSession`: the dialog is what it shows (`DialogTrue`) after every event, a
  scan that is used is found from the directory of the open session (`ScanHere`),
  and a file that was saved with a model has its name, variables, flags,
  position and, if it was found then, its scan (`SavedInv`), so that loading it
  again gives what was meant, whatever the dialog did in between.
* `CrystalDlgs`: between events the list is that of the groups which the filter
  leaves and the current entry one of it (`ListOK`), the centre is in the range of
  its spin box (`DlgOK`), what was calculated is of what the widgets show
  (`CalcTrue`), and a file is empty, incomplete, or what such a dialog has saved
  (`DiskOK`).  The list is emptied entry by entry, and each removal of the current
  entry calls a handler: `AllRemoved` says what the dialog is after any number of
  removals, by the least number after which it would not be so (`LeastNumber`,
  from `WellFoundedInduction`).
* `ParamDlgs`: the edits of a window solve its equation in both units, unless one of
  them shows that there is no solution, which can only happen to Bragg's
  equation (`SolverInv`); the seven edits of a neutron are one neutron's
  (`NeutronInv`); each plot or text is empty or made of what is shown
  (`OutputsInv`), empty only before the first position or crystal came (`RecipInv`,
  `RealInv`), and what is left as it was after a calculation that failed is known
  (`LeftInv`).  What accept stores solves the equation too (`StoredInv`): the first
  calculation of a window that reads it again changes nothing, although it does
  not know which of the numbers was the calculated one until the radio buttons
  are read.  That the excess is 0 after each of the equation's unknowns was
  calculated is one lemma about sums for the four equations (`Solved`).
* `Reso`: the dialog is what its handlers calculated last.  `CalcInv` says of fields
  whose triangle closes that the parameters are those of the fields and the result
  is that of the parameters; `DerivedInv` says of any fields, also of some that
  were just loaded and cannot be used, that text, matrices, neutrons and the
  ellipsoid that is marked as current are of the result there is; `WindowInv`
  that an open window was given the same matrices.  `TasInv` says of the loader
  that its first calculation was with the parameters of its file, before the
  sample's offset was reset.  Each handler is an operator on the dialog's state,
  so that the lemmas are about a state, and handlers that end in `Calc` need only
  say which fields they changed.  The indices of the plots are lemmas about
  `CalcEllipse` and `CalcEllipsoid3`: of the four axes, what one that is removed and
  one that is integrated leave, for any indices in the order of the matrix.
* `PlotGl`: the objects before the next one are those of the picture that is made,
  and all of them are before the plotter is enabled (`PictureInv`); it is enabled
  only then, and a frame that found it enabled is told when it is not any more
  (`FrameInv`); a size that is being set is the window's (`SizeInv`); while the
  objects are counted the list is empty, and what a frame that began earlier still
  has to draw of it is nothing (`CountInv`), which is why the missing mutex does
  not disturb a frame that is being drawn.
* `NetConn`: there is a cache while it is closed and while its client is used
  (`CacheInv`); a polling thread that runs is the one the cache points to
  (`PollerInv`); one is deleted before it was joined only if the client's slot ran
  meanwhile, after a connection was given up half-way (`HastyInv`); a "connected"
  that is underway is of the present connection, or late (`EventsInv`).
* `NetValues`: events come in the order of their connections (`OrderInv`), the last
  one of a key carries its last value (`LastInv`), and no row is of a connection to
  come (`RowsInv`): when no event of a key is left, its row is the last value.
  For `SceneFollows`, `FollowInv` says what the scene will be told once the events
  underway are handled (`Told`): of NICOS the values that are stored, of SICS
  those that were passed on, which are the stored ones but for keys that are
  just received.
* `Session`: the goto dialog's copies of crystal, spacings and sense are those of
  the scenes, and its angles those of its fields (`Agree`); a node that snaps is
  on a peak of the crystal that is shown, also in every file (`Snapped`,
  `SavedInv`), which is why a loaded position is not moved by the snapping.
* `ScanViewer`: without a file nothing is shown (`EmptyInv`), with one the plot, the
  export and the titles are functions of the file and the widgets, and a fit is
  of this file (`ViewInv`); rows are undefined only if the monitor's column is
  shorter.  The lemmas say which rows the spin boxes leave.
* `Scenes`: first the control of the nested calls, which every other statement
  needs (`Control`).  A call may only be on top of calls it can be made from
  (`Nested`): while the triangle is told angles, nothing that a layout says comes
  back to it; while a layout is told, it only sets its own nodes.  So each flag
  is set exactly while the function that resets it is on the stack (`Flags`), and
  what calls carry has the right type (`Typed`).  Then the layouts: where one of
  them differs from the triangle, a call is to be made that tells both of them
  all angles (`Fixed`), or the angles in which it differs are in calls that are to
  be made (`Settled`), or it is the angle that was just dragged, on its way to the
  triangle and the other layout (`RealUp`, `TofUp`).  Then the dialogs, after the
  four kinds of event that they follow: who listens to the triangle's parameters has
  them or is to be given them (`ParsDue`).  For the layout's angles such an event
  has two phases.  First a call is underway that will tell the layout all angles
  and after that the parameters, and what the network or the goto dialog asked
  for is told to the triangle, or is to be told once more before a sense is set
  (`Refreshing`): it is told twice, and this is why the second time changes
  nothing.  From then on the layout is drawn as the triangle, angle by angle, and
  reports it at the end (`Showing`).  If a node of the layout was moved, the layout
  is not drawn again at all (`Lifting`).  Last the resolution dialog, which gets
  its wavevectors from the triangle and its crystal angles from the layout, and
  while a node is moved only calculates for the scene the node is of
  (`UpdateRight`).  In each of the phases a parameter is right or a call is
  underway that brings it, and the last call that brings one calculates, also if
  the other scene's does not (`PosDue`); the angles it is told are the layout's
  as they are (`LastReal`).  Its spacings are the triangle's from the first time it is told
  them (`SpacingDue`), but after a file was loaded (`filed`).  The parts were
  checked by TLC on the run's instance before they were proved.  The stack holds calls whose
  arguments have many types; the lemmas write it as pushes, say of each function
  what it pushes, and of each part of the invariant what it asks of a push.

Only model-checked: liveness (`MutexReleased`, `ChildQuits`, `EveryRunEnds`,
`DisconnectEnds`, `RenderServes`, `PictureShown`), which is out of reach of the provers
used.

## 7. Not modelled

* Numbers: the linear algebra of the resolution, the formulas of the built-in
  models, a convolution's integral, the peaks a fit finds.  What a result depends
  on is modelled instead.
* Formats: parsing of scan and job files, export of tables, scripts and pictures,
  and wording.
* Tables of space groups, form factors and scattering lengths (`libcrystal`), which
  are constants behind singletons, and the tools that generate or show them.
* Drawing, zooming and picking in 2D and 3D; `plotgl2.cpp`, which is the same
  plotter with another way to draw; the scenes of the real lattice and the
  projection, which only show the crystal.
* Julia models, whose parameters are converted as those of Python models and
  whose interpreter is external; plug-ins.
* The scan monitor, the server dialog, powder fit, scan positions, resolution
  from Monte-Carlo events and the settings: widgets around files and plots in one
  thread, whose fields do not depend on each other.
* The command line, small programs, examples, forms, documentation.

`PROJECT.json` lists every component with its status, and under "hazards" the
places in the code where something hard to test can go wrong, with the
properties that cover them.
