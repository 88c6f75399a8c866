------------------------------ MODULE ConvoDlg ------------------------------
(***************************************************************************)
(* The convolution dialog (tools/monteconvo/ConvoDlg.cpp, _sim.cpp).       *)
(* A calculation runs in a worker thread, its scan steps in the threads of *)
(* a pool.  The worker posts events to the GUI thread: some it waits for,  *)
(* the last ones enable the widgets again that had been disabled.  A new   *)
(* calculation waits for the worker of the one before.                     *)
(*                                                                         *)
(* Start1D, Start2D and StartDisp do the same here.  Left out: the button  *)
(* to start a fit, which only shows a message, and events that show values.*)
(***************************************************************************)
EXTENDS Integers, Sequences

CONSTANTS
  NSteps,    \* number of scan steps
  StartWith, \* the widgets the user starts a calculation with
  MaxQueue   \* bound on the events in the queue when a calculation is started

ASSUME DlgAssumption ==
  /\ NSteps \in Nat \ {0}
  /\ StartWith \subseteq {"start", "menu"} /\ MaxQueue \in Nat

\* btnStop; tabSettings; the menu bar; the parameter dialog and the fields for
\* scale, slope and offset; btnStart.
Widgets == {"stop", "settings", "menu", "edits", "start"}

Steps == 1 .. NSteps

VARIABLES
  gui,      \* what the GUI thread does: handle events, or wait for the worker
  enabled,  \* the widgets that are enabled
  queue,    \* events posted to the GUI thread
  stop,     \* m_atStop
  worker,   \* where the worker thread m_pth is
  task,     \* the pool's tasks, one for each scan step
  got,      \* number of results
  posted,   \* number of widgets enabled again
  asked,    \* history: "stop" was pressed during this calculation
  late,     \* history: tasks that began to calculate afterwards
  early     \* history: a worker began before all that its predecessor posted
            \* was handled: the menu, enabled again, had started it

vars == <<gui, enabled, queue, stop, worker, task, got, posted, asked, late, early>>

\* The widgets while a calculation runs, and while none does.
Running == [w \in Widgets |-> w = "stop"]
Idle == [w \in Widgets |-> w # "stop"]

\* fktEnableButtons
Order == <<"stop", "settings", "menu", "edits", "start">>

Post(e) == queue' = Append(queue, e)

NoWorker == worker \in {"none", "done"}

-----------------------------------------------------------------------------
(* The GUI thread.                                                         *)

Init ==
  /\ gui = "loop"
  /\ enabled = Idle
  /\ queue = <<>>
  /\ stop \in BOOLEAN       \* not initialised
  /\ worker = "none"
  /\ task = [i \in Steps |-> "none"]
  /\ got = 0 /\ posted = 0
  /\ asked = FALSE /\ late = {} /\ early = FALSE

\* Mutant: the start button stays enabled.
StartKeepsButton(w) ==
  /\ gui = "loop" /\ enabled[w] /\ Len(queue) <= MaxQueue
  /\ stop' = FALSE
  /\ enabled' = [Running EXCEPT !["start"] = TRUE]
  /\ gui' = "join"
  /\ UNCHANGED <<queue, worker, task, got, posted, asked, late, early>>

\* Start1D, Start2D, StartDisp, up to m_pth->join()
Start(w) ==
  /\ gui = "loop" /\ enabled[w] /\ Len(queue) <= MaxQueue
  /\ stop' = FALSE
  /\ enabled' = Running
  /\ gui' = "join"
  /\ UNCHANGED <<queue, worker, task, got, posted, asked, late, early>>

\* ... and the new worker.
NewWorker ==
  /\ gui = "join" /\ NoWorker
  /\ gui' = "loop"
  /\ worker' = "setup"
  /\ task' = [i \in Steps |-> "none"]
  /\ got' = 0 /\ posted' = 0
  /\ asked' = FALSE /\ late' = {}
  /\ early' = (early \/ queue # <<>>)
  /\ UNCHANGED <<enabled, queue, stop>>

Stop ==
  /\ gui = "loop" /\ enabled["stop"]
  /\ stop' = TRUE
  /\ asked' = TRUE
  /\ UNCHANGED <<gui, enabled, queue, worker, task, got, posted, late, early>>

\* A widget is enabled, or disabled if it is the stop button.
HandleEnable ==
  /\ gui = "loop" /\ queue # <<>> /\ Head(queue) \in Widgets
  /\ enabled' = [enabled EXCEPT ![Head(queue)] = Idle[Head(queue)]]
  /\ queue' = Tail(queue)
  /\ UNCHANGED <<gui, stop, worker, task, got, posted, asked, late, early>>

\* A call the worker waits for.
HandleCall ==
  /\ gui = "loop" /\ queue # <<>> /\ Head(queue) = "call"
  /\ queue' = Tail(queue)
  /\ worker' = IF worker = "clearing" THEN "tasks" ELSE "shown"
  /\ UNCHANGED <<gui, enabled, stop, task, got, posted, asked, late, early>>

\* The dialog is deleted, after the worker has ended.
Close ==
  /\ gui = "loop"
  /\ gui' = "close"
  /\ UNCHANGED <<enabled, queue, stop, worker, task, got, posted, asked, late, early>>

Closed ==
  /\ gui = "close" /\ NoWorker
  /\ gui' = "closed"
  /\ UNCHANGED <<enabled, queue, stop, worker, task, got, posted, asked, late, early>>

-----------------------------------------------------------------------------
(* The worker thread.                                                      *)

\* Mutant: the widgets stay disabled.
SetUpReturns ==
  /\ worker = "setup"
  /\ worker' = "done"
  /\ UNCHANGED <<gui, enabled, queue, stop, task, got, posted, asked, late, early>>

\* Early returns: no scan axis, instrument, crystal or S(Q,w) model.
SetUpFails ==
  /\ worker = "setup"
  /\ worker' = "enable"
  /\ UNCHANGED <<gui, enabled, queue, stop, task, got, posted, asked, late, early>>

\* The old results are cleared by a call that the worker waits for.
ClearResult ==
  /\ worker = "setup"
  /\ Post("call")
  /\ worker' = "clearing"
  /\ UNCHANGED <<gui, enabled, stop, task, got, posted, asked, late, early>>

StartTasks ==
  /\ worker = "tasks"
  /\ task' = [i \in Steps |-> "todo"]
  /\ worker' = "loop"
  /\ UNCHANGED <<gui, enabled, queue, stop, got, posted, asked, late, early>>

\* The loop over the futures, ended by m_atStop.
Loop ==
  /\ worker = "loop"
  /\ worker' = IF stop \/ got = NSteps THEN "enable" ELSE "get"
  /\ UNCHANGED <<gui, enabled, queue, stop, task, got, posted, asked, late, early>>

GetResult ==
  /\ worker = "get" /\ task[got + 1] = "ok"
  /\ got' = got + 1
  /\ worker' = "show"
  /\ UNCHANGED <<gui, enabled, queue, stop, task, posted, asked, late, early>>

\* Mutant: a step without result is skipped without being counted.
GetNoResultAgain ==
  /\ worker = "get" /\ task[got + 1] = "failed"
  /\ worker' = "loop"
  /\ UNCHANGED <<gui, enabled, queue, stop, task, got, posted, asked, late, early>>

\* A step without result ends the loop.
GetNoResult ==
  /\ worker = "get" /\ task[got + 1] = "failed"
  /\ worker' = "enable"
  /\ UNCHANGED <<gui, enabled, queue, stop, task, got, posted, asked, late, early>>

\* The results are shown by one or several calls that the worker waits for,
Show ==
  /\ worker \in {"show", "shown"}
  /\ Post("call")
  /\ worker' = "showing"
  /\ UNCHANGED <<gui, enabled, stop, task, got, posted, asked, late, early>>

\* ... or not at all, but for the last step.
NextStep ==
  /\ worker = "shown" \/ (worker = "show" /\ got < NSteps)
  /\ worker' = "loop"
  /\ UNCHANGED <<gui, enabled, queue, stop, task, got, posted, asked, late, early>>

\* fktEnableButtons()
Enable ==
  /\ worker = "enable"
  /\ Post(Order[posted + 1])
  /\ posted' = posted + 1
  /\ worker' = IF posted' = Len(Order) THEN "pool" ELSE "enable"
  /\ UNCHANGED <<gui, enabled, stop, task, got, asked, late, early>>

\* The thread ends after its pool, which runs all its tasks.
EndWorker ==
  /\ worker = "pool"
  /\ \A i \in Steps : task[i] \notin {"todo", "running"}
  /\ worker' = "done"
  /\ UNCHANGED <<gui, enabled, queue, stop, task, got, posted, asked, late, early>>

-----------------------------------------------------------------------------
(* The pool's threads.                                                     *)

BeginTask(i) ==
  /\ task[i] = "todo"
  /\ \A j \in 1 .. i - 1 : task[j] # "todo"
  /\ task' = [task EXCEPT ![i] = IF stop THEN "failed" ELSE "running"]
  /\ late' = IF asked /\ ~stop THEN late \cup {i} ELSE late
  /\ UNCHANGED <<gui, enabled, queue, stop, worker, got, posted, asked, early>>

\* A step has no result if its position cannot be reached, or after a stop.
EndTask(i) ==
  /\ task[i] = "running"
  /\ \E r \in {"ok", "failed"} : task' = [task EXCEPT ![i] = r]
  /\ UNCHANGED <<gui, enabled, queue, stop, worker, got, posted, asked, late, early>>

GuiReacts == NewWorker \/ HandleEnable \/ HandleCall \/ Closed

User == Stop \/ Close \/ \E w \in StartWith : Start(w)

WorkerStep ==
  \/ SetUpFails \/ ClearResult \/ StartTasks \/ Loop \/ GetResult \/ GetNoResult
  \/ Show \/ NextStep \/ Enable \/ EndWorker

PoolStep(i) == BeginTask(i) \/ EndTask(i)

Next == GuiReacts \/ User \/ WorkerStep \/ \E i \in Steps : PoolStep(i)

Spec == Init /\ [][Next]_vars

\* The threads run, the results are shown by a limited number of calls, and
\* the user need not do anything.
FairSpec ==
  /\ Spec
  /\ WF_vars(GuiReacts) /\ WF_vars(WorkerStep) /\ SF_vars(NextStep)
  /\ \A i \in Steps : WF_vars(PoolStep(i))

-----------------------------------------------------------------------------
(* Properties.                                                             *)

\* The worker calculates: it uses the settings, the model and the results.
Calculating ==
  worker \in {"setup", "clearing", "tasks", "loop", "get", "show", "showing", "shown"}

\* Type invariant.
TypeOK ==
  /\ gui \in {"loop", "join", "close", "closed"}
  /\ enabled \in [Widgets -> BOOLEAN]
  /\ queue \in Seq(Widgets \cup {"call"})
  /\ stop \in BOOLEAN
  /\ Calculating \/ NoWorker \/ worker \in {"enable", "pool"}
  /\ task \in [Steps -> {"none", "todo", "running", "ok", "failed"}]
  /\ got \in 0 .. NSteps
  /\ posted \in 0 .. 5
  /\ {asked, early} \subseteq BOOLEAN
  /\ late \subseteq Steps

\* The GUI thread waits for a worker that waits, or will wait, for it.
Frozen == gui = "join" /\ Calculating

\* A new calculation never freezes the dialog, also one that the menu starts
\* before the worker of the last one has enabled the rest of the widgets; but
\* those are enabled in such a calculation, and another start may freeze it.
NoFreeze == ~early => ~Frozen

\* While the worker calculates, nothing it uses can be changed, no other
\* calculation started, and it can be stopped ...
Locked == Calculating => enabled = Running

\* ... and after it, however it ended, the dialog can be used again.
UsableAgain ==
  gui = "loop" /\ worker \in {"none", "pool", "done"} /\ queue = <<>>
    => enabled = Idle

\* The widgets are locked for as long as a calculation needs them, if none was
\* started too early, and are freed after each.
LockedAndFreed == (~early => Locked) /\ UsableAgain

\* "stop running operations": no step is calculated any more.
StopHeeded == late = {}

\* Every calculation ends, stopped or not, unless the dialog is closed or
\* frozen.
EveryRunEnds ==
  (gui = "loop" /\ ~NoWorker) ~> (NoWorker \/ gui \in {"close", "closed"} \/ Frozen)

-----------------------------------------------------------------------------
(* The inductive invariant behind these properties.                        *)

\* The queue holds the call the worker waits for, or the widgets it enabled
\* last; the ones before have been enabled, the ones after have not.
QueueInv ==
  \/ /\ Calculating
     /\ enabled = Running
     /\ queue = IF worker \in {"clearing", "showing"} THEN <<"call">> ELSE <<>>
  \/ /\ ~Calculating /\ worker # "none"
     /\ Len(queue) <= posted
     /\ \A k \in 1 .. Len(queue) : queue[k] = Order[posted - Len(queue) + k]
     /\ gui = "join" \/
        \A k \in 1 .. Len(Order) :
          enabled[Order[k]] = IF k <= posted - Len(queue) THEN Idle[Order[k]]
                                                          ELSE Running[Order[k]]
  \/ /\ worker = "none"
     /\ queue = <<>>
     /\ gui # "join" => enabled = Idle

\* The GUI thread waits for a worker that enables the widgets or has done so.
JoinInv == gui = "join" => ~Calculating /\ enabled = Running

\* With the start button it waits for one whose events are all handled.
ButtonInv ==
  StartWith \subseteq {"start"} =>
    ~early /\ (gui = "join" => queue = <<>> /\ worker # "enable")

\* A widget that a worker has enabled is enabled, or its event is in the queue.
FreedInv ==
  gui # "join" =>
    /\ worker = "none" => enabled = Idle
    /\ \A k \in 1 .. posted :
         enabled[Order[k]] = Idle[Order[k]] \/ \E j \in 1 .. Len(queue) : queue[j] = Order[k]

\* How many widgets the worker has enabled.
PostedInv ==
  /\ Calculating \/ worker = "none" => posted = 0
  /\ worker = "enable" => posted < Len(Order)
  /\ worker \in {"pool", "done"} => posted = Len(Order)

\* The queue holds one call at most, and only while the worker waits for it.
CallInv ==
  \A i \in 1 .. Len(queue) :
    queue[i] = "call" => /\ worker \in {"clearing", "showing"}
                         /\ \A j \in 1 .. Len(queue) : queue[j] = "call" => i = j

\* The worker waits for the result of an existing task.
GetInv == worker = "get" => got < NSteps

IInv ==
  /\ TypeOK /\ PostedInv /\ GetInv /\ CallInv /\ FreedInv
  /\ ButtonInv /\ (~early => QueueInv /\ JoinInv)
=============================================================================
