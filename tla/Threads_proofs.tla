---------------------------- MODULE Threads_proofs ---------------------------
(***************************************************************************)
(* Proofs about the parts of the program whose threads share state: the    *)
(* convolution dialog for any number of scan steps, branches and           *)
(* calculations, the pool of convofit for any number of jobs and threads,  *)
(* the connection to the instrument for any number of connections made one *)
(* after the other, and the 3D plotter for any number of objects, pictures *)
(* and sizes.                                                              *)
(***************************************************************************)
EXTENDS ConvoDlg, ConvoPlot, ConvofitJobs, NetConn, PlotGl, SequenceTheorems,
        TLAPS

-----------------------------------------------------------------------------
(* The convolution dialog.  First its threads (ConvoDlg), for every way to *)
(* start a calculation: QueueInv and JoinInv hold until the menu starts    *)
(* one before the last has enabled all widgets (early), the rest of the    *)
(* invariant always; with the start button alone this never happens.  Then *)
(* its curves (ConvoPlot): what is drawn exists and is the calculation's   *)
(* result, and the GUI thread does not lock a plot's mutex twice.          *)

StartButton == StartWith \subseteq {"start"}

\* The order in which the widgets are enabled, position by position.
LEMMA OrderFacts ==
  /\ Len(Order) = 5
  /\ Order[1] = "stop" /\ Order[2] = "settings" /\ Order[3] = "menu"
  /\ Order[4] = "edits" /\ Order[5] = "start"
  /\ \A w \in Widgets : \E m \in 1 .. 5 : Order[m] = w
  /\ \A j, m \in 1 .. 5 : Order[j] = Order[m] => j = m
  /\ \A m \in 1 .. 5 : Order[m] \in Widgets
  /\ "call" \notin Widgets
  BY DEF Order, Widgets

\* The initial states satisfy the invariant.
LEMMA InitInv == Init => IInv
<1>. SUFFICES ASSUME Init PROVE IInv
  OBVIOUS
<1>1. TypeOK
  <2>1. enabled \in [Widgets -> BOOLEAN] /\ queue \in Seq(Widgets \cup {"call"})
    BY DEF Init, Idle
  <2>2. got \in 0 .. NSteps /\ posted \in 0 .. 5
    BY DlgAssumption DEF Init
  <2>3. task \in [Steps -> {"none", "todo", "running", "ok", "failed"}]
    BY DEF Init
  <2>. QED
    BY <2>1, <2>2, <2>3 DEF Init, TypeOK, NoWorker
<1>2. QueueInv /\ JoinInv /\ ButtonInv
  BY DEF Init, QueueInv, JoinInv, ButtonInv
<1>3. PostedInv /\ GetInv /\ CallInv /\ FreedInv
  BY DEF Init, PostedInv, GetInv, CallInv, FreedInv
<1>. QED
  BY <1>1, <1>2, <1>3 DEF IInv

\* An event appended to a queue, and the first one taken from it.
LEMMA DlgQueueFacts ==
  ASSUME NEW S, NEW q \in Seq(S), NEW e \in S
  PROVE  /\ Append(q, e) \in Seq(S)
         /\ Len(Append(q, e)) = Len(q) + 1
         /\ \A m \in 1 .. Len(q) : Append(q, e)[m] = q[m]
         /\ Append(q, e)[Len(q) + 1] = e
         /\ q # <<>> =>
              /\ Tail(q) \in Seq(S) /\ Len(Tail(q)) = Len(q) - 1
              /\ Len(q) >= 1 /\ Head(q) = q[1]
              /\ \A m \in 1 .. Len(q) - 1 : Tail(q)[m] = q[m + 1]
  OBVIOUS

-----------------------------------------------------------------------------
(* The types.                                                              *)

\* The GUI thread keeps the types.
LEMMA GuiTypes == TypeOK /\ (GuiReacts \/ User) => TypeOK'
<1>. SUFFICES ASSUME TypeOK, GuiReacts \/ User PROVE TypeOK'
  OBVIOUS
<1>. USE DlgAssumption DEF TypeOK, NoWorker, Calculating
<1>1. CASE NewWorker
  <2>1. got' \in 0 .. NSteps /\ posted' \in 0 .. 5
    BY <1>1 DEF NewWorker
  <2>2. task' \in [Steps -> {"none", "todo", "running", "ok", "failed"}]
    BY <1>1 DEF NewWorker
  <2>. QED
    BY <1>1, <2>1, <2>2 DEF NewWorker
<1>2. CASE HandleEnable
  <2>1. queue' \in Seq(Widgets \cup {"call"})
    BY <1>2, DlgQueueFacts DEF HandleEnable
  <2>2. enabled' \in [Widgets -> BOOLEAN]
    BY <1>2 DEF HandleEnable, Idle
  <2>. QED
    BY <1>2, <2>1, <2>2 DEF HandleEnable
<1>3. CASE HandleCall
  <2>1. queue' \in Seq(Widgets \cup {"call"})
    BY <1>3, DlgQueueFacts DEF HandleCall
  <2>. QED
    BY <1>3, <2>1 DEF HandleCall
<1>4. CASE Closed
  BY <1>4 DEF Closed
<1>5. CASE Stop
  BY <1>5 DEF Stop
<1>6. CASE Close
  BY <1>6 DEF Close
<1>7. ASSUME NEW w \in StartWith, Start(w) PROVE TypeOK'
  BY <1>7 DEF Start, Running
<1>. QED
  BY <1>1, <1>2, <1>3, <1>4, <1>5, <1>6, <1>7 DEF GuiReacts, User

\* The worker keeps the types.
LEMMA WorkerTypes == IInv /\ WorkerStep => TypeOK'
<1>. SUFFICES ASSUME IInv, WorkerStep PROVE TypeOK'
  OBVIOUS
<1>. USE DlgAssumption DEF IInv, TypeOK, NoWorker, Calculating
<1>1. ASSUME NEW e \in Widgets \cup {"call"}, Post(e)
      PROVE  queue' \in Seq(Widgets \cup {"call"})
  BY <1>1, DlgQueueFacts DEF Post
<1>2. CASE SetUpFails
  BY <1>2 DEF SetUpFails
<1>3. CASE ClearResult
  BY <1>1, <1>3 DEF ClearResult
<1>4. CASE StartTasks
  BY <1>4 DEF StartTasks
<1>5. CASE Loop
  BY <1>5 DEF Loop
<1>6. CASE GetResult
  <2>1. got + 1 \in 0 .. NSteps
    BY <1>6 DEF GetResult, GetInv
  <2>. QED
    BY <1>6, <2>1 DEF GetResult
<1>7. CASE GetNoResult
  BY <1>7 DEF GetNoResult
<1>8. CASE Show
  BY <1>1, <1>8 DEF Show
<1>9. CASE NextStep
  BY <1>9 DEF NextStep
<1>10. CASE Enable
  <2>1. posted + 1 \in 1 .. 5 /\ Order[posted + 1] \in Widgets
    BY <1>10, OrderFacts DEF Enable, PostedInv
  <2>2. queue' \in Seq(Widgets \cup {"call"})
    BY <1>1, <1>10, <2>1 DEF Enable
  <2>. QED
    BY <1>10, <2>1, <2>2 DEF Enable
<1>11. CASE EndWorker
  BY <1>11 DEF EndWorker
<1>. QED
  BY <1>2, <1>3, <1>4, <1>5, <1>6, <1>7, <1>8, <1>9, <1>10, <1>11 DEF WorkerStep

\* The pool keeps the types.
LEMMA PoolTypes == ASSUME NEW i \in Steps PROVE TypeOK /\ PoolStep(i) => TypeOK'
  BY DEF TypeOK, NoWorker, Calculating, PoolStep, BeginTask, EndTask

-----------------------------------------------------------------------------
(* Calls and enabled widgets, however calculations are started.            *)

\* A call is handled while the worker waits for it.
LEMMA CallFacts ==
  ASSUME IInv, HandleCall
  PROVE  /\ worker \in {"clearing", "showing"} /\ gui = "loop"
         /\ worker' \in {"tasks", "shown"} /\ queue' = Tail(queue)
         /\ queue \in Seq(Widgets \cup {"call"}) /\ queue # <<>> /\ queue[1] = "call"
<1>1. queue \in Seq(Widgets \cup {"call"}) /\ queue # <<>> /\ queue[1] = "call"
  BY DEF HandleCall, IInv, TypeOK
<1>2. worker \in {"clearing", "showing"}
  <2>1. 1 \in 1 .. Len(queue)
    BY <1>1
  <2>. QED
    BY <1>1, <2>1 DEF IInv, CallInv
<1>. QED
  BY <1>1, <1>2 DEF HandleCall

\* The worker knows how many widgets it has enabled.
LEMMA PostedStep == IInv /\ Next => PostedInv' /\ GetInv'
<1>. SUFFICES ASSUME IInv, Next PROVE PostedInv' /\ GetInv'
  OBVIOUS
<1>. USE OrderFacts DEF IInv, PostedInv, GetInv, Calculating
<1>1. CASE NewWorker
  BY <1>1 DEF NewWorker
<1>2. CASE HandleCall
  BY <1>2, CallFacts DEF HandleCall
<1>3. CASE HandleEnable \/ Closed \/ Stop \/ Close
  BY <1>3 DEF HandleEnable, Closed, Stop, Close
<1>4. ASSUME NEW w \in StartWith, Start(w) PROVE PostedInv' /\ GetInv'
  BY <1>4 DEF Start
<1>5. CASE SetUpFails \/ ClearResult \/ StartTasks \/ GetResult \/ GetNoResult
  BY <1>5 DEF SetUpFails, ClearResult, StartTasks, GetResult, GetNoResult
<1>6. CASE Loop
  BY <1>6, DlgAssumption DEF Loop, TypeOK
<1>7. CASE Show \/ NextStep \/ EndWorker
  BY <1>7 DEF Show, NextStep, EndWorker
<1>8. CASE Enable
  BY <1>8 DEF Enable, TypeOK
<1>9. ASSUME NEW i \in Steps, PoolStep(i) PROVE PostedInv' /\ GetInv'
  BY <1>9 DEF PoolStep, BeginTask, EndTask
<1>. QED
  BY <1>1, <1>2, <1>3, <1>4, <1>5, <1>6, <1>7, <1>8, <1>9
     DEF Next, GuiReacts, User, WorkerStep

\* No call is posted before the last one is handled.
LEMMA CallStep == IInv /\ Next => CallInv'
<1>. SUFFICES ASSUME IInv, Next PROVE CallInv'
  OBVIOUS
<1>. DEFINE NoCall(q) == \A i \in 1 .. Len(q) : q[i] # "call"
            W == Widgets \cup {"call"}
<1>1. queue \in Seq(W)
  BY DEF IInv, TypeOK
<1>2. worker \notin {"clearing", "showing"} => NoCall(queue)
  BY DEF IInv, CallInv
<1>3. ASSUME UNCHANGED queue,
             worker \notin {"clearing", "showing"} \/ worker' = worker
      PROVE  CallInv'
  BY <1>2, <1>3 DEF IInv, CallInv
<1>4. CASE HandleCall
  <2>1. queue # <<>> /\ queue[1] = "call" /\ queue' = Tail(queue)
    BY <1>4, CallFacts
  <2>2. /\ Len(queue') = Len(queue) - 1
        /\ \A m \in 1 .. Len(queue) - 1 : queue'[m] = queue[m + 1]
    BY <1>1, <2>1, OrderFacts, DlgQueueFacts
  <2>3. NoCall(queue')
    <3>. SUFFICES ASSUME NEW m \in 1 .. Len(queue'), queue'[m] = "call" PROVE FALSE
      OBVIOUS
    <3>1. m + 1 \in 1 .. Len(queue) /\ 1 \in 1 .. Len(queue) /\ queue[m + 1] = "call"
      BY <1>1, <2>2
    <3>2. m + 1 = 1
      BY <2>1, <3>1 DEF IInv, CallInv
    <3>. QED
      BY <1>1, <2>2, <3>2
  <2>. QED
    BY <2>3 DEF CallInv
<1>5. CASE HandleEnable
  <2>1. queue # <<>> /\ queue' = Tail(queue) /\ worker' = worker
    BY <1>5 DEF HandleEnable
  <2>2. /\ Len(queue') = Len(queue) - 1
        /\ \A m \in 1 .. Len(queue) - 1 : queue'[m] = queue[m + 1]
    BY <1>1, <2>1, OrderFacts, DlgQueueFacts
  <2>. SUFFICES ASSUME NEW i \in 1 .. Len(queue'), queue'[i] = "call"
                PROVE  /\ worker' \in {"clearing", "showing"}
                       /\ \A j \in 1 .. Len(queue') : queue'[j] = "call" => i = j
    BY DEF CallInv
  <2>3. i + 1 \in 1 .. Len(queue) /\ queue[i + 1] = "call"
    BY <1>1, <2>2
  <2>4. worker \in {"clearing", "showing"}
    BY <2>3 DEF IInv, CallInv
  <2>5. ASSUME NEW j \in 1 .. Len(queue'), queue'[j] = "call" PROVE i = j
    <3>1. j + 1 \in 1 .. Len(queue) /\ queue[j + 1] = "call"
      BY <1>1, <2>2, <2>5
    <3>2. i + 1 = j + 1
      BY <2>3, <3>1 DEF IInv, CallInv
    <3>. QED
      BY <1>1, <2>2, <3>2
  <2>. QED
    BY <2>1, <2>4, <2>5
<1>6. CASE ClearResult \/ Show
  <2>1. /\ worker \notin {"clearing", "showing"} /\ worker' \in {"clearing", "showing"}
        /\ queue' = Append(queue, "call") /\ "call" \in W
    BY <1>6 DEF ClearResult, Show, Post
  <2>2. /\ Len(queue') = Len(queue) + 1
        /\ \A m \in 1 .. Len(queue) : queue'[m] = queue[m]
    BY <1>1, <2>1, DlgQueueFacts
  <2>3. \A i \in 1 .. Len(queue') : queue'[i] = "call" => i = Len(queue) + 1
    BY <1>1, <1>2, <2>1, <2>2
  <2>. QED
    BY <2>1, <2>3 DEF CallInv
<1>7. CASE Enable
  <2>1. /\ worker = "enable" /\ Order[posted + 1] \in Widgets
        /\ queue' = Append(queue, Order[posted + 1])
    BY <1>7, OrderFacts DEF Enable, Post, IInv, PostedInv, TypeOK
  <2>2. /\ Len(queue') = Len(queue) + 1
        /\ \A m \in 1 .. Len(queue) : queue'[m] = queue[m]
        /\ queue'[Len(queue) + 1] = Order[posted + 1]
    BY <1>1, <2>1, DlgQueueFacts
  <2>3. NoCall(queue')
    BY <1>1, <1>2, <2>1, <2>2, OrderFacts
  <2>. QED
    BY <2>3 DEF CallInv
<1>8. CASE \/ NewWorker \/ Closed \/ Stop \/ Close
           \/ \E w \in StartWith : Start(w)
  BY <1>3, <1>8 DEF NewWorker, NoWorker, Closed, Stop, Close, Start
<1>9. CASE \/ SetUpFails \/ StartTasks \/ Loop \/ GetResult \/ GetNoResult
           \/ NextStep \/ EndWorker
  BY <1>3, <1>9 DEF SetUpFails, StartTasks, Loop, GetResult, GetNoResult, NextStep,
                    EndWorker
<1>10. CASE \E i \in Steps : PoolStep(i)
  BY <1>3, <1>10 DEF PoolStep, BeginTask, EndTask
<1>. QED
  BY <1>4, <1>5, <1>6, <1>7, <1>8, <1>9, <1>10 DEF Next, GuiReacts, User, WorkerStep

\* What the queue loses is enabled, and nothing else is disabled but by a start.
LEMMA FreedStep == IInv /\ Next => FreedInv'
<1>. SUFFICES ASSUME IInv, Next PROVE FreedInv'
  OBVIOUS
<1>. DEFINE Has(q, w) == \E j \in 1 .. Len(q) : q[j] = w
            W == Widgets \cup {"call"}
<1>1. /\ queue \in Seq(W) /\ posted \in 0 .. 5 /\ enabled \in [Widgets -> BOOLEAN]
      /\ \A m \in 1 .. posted : Order[m] \in Widgets
  BY OrderFacts DEF IInv, TypeOK
<1>2. ASSUME UNCHANGED <<enabled, posted>>, gui' # "join" => gui # "join",
             worker' = "none" => worker = "none",
             \A w \in Widgets : Has(queue, w) => Has(queue', w)
      PROVE  FreedInv'
  BY <1>1, <1>2 DEF IInv, FreedInv
<1>3. CASE NewWorker
  BY <1>3 DEF NewWorker, FreedInv
<1>4. CASE HandleCall
  <2>1. queue # <<>> /\ queue[1] = "call" /\ queue' = Tail(queue)
    BY <1>4, CallFacts
  <2>2. /\ Len(queue') = Len(queue) - 1
        /\ \A m \in 1 .. Len(queue) - 1 : queue'[m] = queue[m + 1]
    BY <1>1, <2>1, OrderFacts, DlgQueueFacts
  <2>3. ASSUME NEW w \in Widgets, NEW j \in 1 .. Len(queue), queue[j] = w
        PROVE  Has(queue', w)
    <3>1. j - 1 \in 1 .. Len(queue') /\ queue'[j - 1] = w
      BY <1>1, <2>1, <2>2, <2>3, OrderFacts
    <3>. QED
      BY <3>1
  <2>4. \A w \in Widgets : Has(queue, w) => Has(queue', w)
    BY <2>3
  <2>. QED
    BY <1>2, <1>4, <2>4, CallFacts DEF HandleCall
<1>5. CASE HandleEnable
  <2>1. /\ queue # <<>> /\ queue' = Tail(queue) /\ Head(queue) \in Widgets
        /\ enabled' = [enabled EXCEPT ![Head(queue)] = Idle[Head(queue)]]
        /\ gui = "loop" /\ gui' = gui /\ worker' = worker /\ posted' = posted
    BY <1>5 DEF HandleEnable
  <2>2. /\ Len(queue') = Len(queue) - 1 /\ Head(queue) = queue[1]
        /\ \A m \in 1 .. Len(queue) - 1 : queue'[m] = queue[m + 1]
    BY <1>1, <2>1, OrderFacts, DlgQueueFacts
  <2>3. ASSUME NEW m \in 1 .. posted
        PROVE  enabled'[Order[m]] = Idle[Order[m]] \/ Has(queue', Order[m])
    <3>1. CASE enabled[Order[m]] = Idle[Order[m]] \/ Order[m] = Head(queue)
      BY <1>1, <2>1, <3>1
    <3>2. CASE Order[m] # Head(queue) /\ Has(queue, Order[m])
      <4>1. PICK j \in 1 .. Len(queue) : queue[j] = Order[m]
        BY <3>2
      <4>2. j - 1 \in 1 .. Len(queue') /\ queue'[j - 1] = Order[m]
        BY <1>1, <2>2, <3>2, <4>1
      <4>. QED
        BY <4>2
    <3>. QED
      BY <2>1, <3>1, <3>2 DEF IInv, FreedInv
  <2>4. worker' = "none" => enabled' = Idle
    BY <1>1, <2>1 DEF IInv, FreedInv, Idle
  <2>. QED
    BY <2>1, <2>3, <2>4 DEF FreedInv
<1>6. ASSUME NEW w \in StartWith, Start(w) PROVE FreedInv'
  BY <1>6 DEF Start, FreedInv
<1>7. CASE ClearResult \/ Show
  <2>1. queue' = Append(queue, "call") /\ "call" \in W
    BY <1>7 DEF ClearResult, Show, Post
  <2>2. \A w \in Widgets : Has(queue, w) => Has(queue', w)
    BY <1>1, <2>1, DlgQueueFacts
  <2>. QED
    BY <1>2, <1>7, <2>2 DEF ClearResult, Show
<1>8. CASE Enable
  <2>1. /\ Order[posted + 1] \in Widgets /\ posted < 5 /\ posted' = posted + 1
        /\ queue' = Append(queue, Order[posted + 1])
        /\ worker' # "none" /\ UNCHANGED <<gui, enabled>>
    BY <1>8, OrderFacts DEF Enable, Post, IInv, PostedInv, TypeOK
  <2>2. /\ Len(queue') = Len(queue) + 1
        /\ \A m \in 1 .. Len(queue) : queue'[m] = queue[m]
        /\ queue'[Len(queue) + 1] = Order[posted + 1]
    BY <1>1, <2>1, DlgQueueFacts
  <2>3. \A m \in 1 .. posted : Has(queue, Order[m]) => Has(queue', Order[m])
    BY <1>1, <2>2
  <2>4. Has(queue', Order[posted + 1])
    BY <1>1, <2>2
  <2>5. \A m \in 1 .. posted' : m \in 1 .. posted \/ m = posted + 1
    BY <1>1, <2>1
  <2>. QED
    BY <2>1, <2>3, <2>4, <2>5 DEF IInv, FreedInv
<1>9. CASE Closed \/ Stop \/ Close
  BY <1>2, <1>9 DEF Closed, Stop, Close
<1>10. CASE \/ SetUpFails \/ StartTasks \/ Loop \/ GetResult \/ GetNoResult
            \/ NextStep \/ EndWorker
  BY <1>2, <1>10 DEF SetUpFails, StartTasks, Loop, GetResult, GetNoResult, NextStep,
                     EndWorker
<1>11. CASE \E i \in Steps : PoolStep(i)
  BY <1>2, <1>11 DEF PoolStep, BeginTask, EndTask
<1>. QED
  BY <1>3, <1>4, <1>5, <1>6, <1>7, <1>8, <1>9, <1>10, <1>11
     DEF Next, GuiReacts, User, WorkerStep

-----------------------------------------------------------------------------
(* The queue and the enabled widgets, if no calculation was started early. *)

\* While the worker calculates, or waits for a call; the widgets it enables
\* again; no worker yet: the three cases of QueueInv.
LEMMA QueueCases ==
  ASSUME IInv, ~early
  PROVE  /\ Calculating => enabled = Running /\ gui # "join"
         /\ Calculating /\ worker \notin {"clearing", "showing"} => queue = <<>>
         /\ worker \in {"clearing", "showing"} => queue = <<"call">>
         /\ queue # <<>> /\ Head(queue) \in Widgets => ~Calculating /\ worker # "none"
         /\ ~Calculating /\ worker # "none" =>
              /\ posted \in 0 .. 5 /\ Len(queue) \in Nat /\ Len(queue) <= posted
              /\ \A m \in 1 .. Len(queue) : queue[m] = Order[posted - Len(queue) + m]
<1>. USE DEF IInv, QueueInv, JoinInv
<1>1. Calculating => enabled = Running /\ gui # "join"
  BY DEF Calculating
<1>2. Calculating /\ worker \notin {"clearing", "showing"} => queue = <<>>
  BY DEF Calculating
<1>3. worker \in {"clearing", "showing"} => queue = <<"call">>
  BY DEF Calculating
<1>4. queue # <<>> /\ Head(queue) \in Widgets => ~Calculating /\ worker # "none"
  BY OrderFacts
<1>5. ~Calculating /\ worker # "none" =>
        /\ posted \in 0 .. 5 /\ Len(queue) \in Nat /\ Len(queue) <= posted
        /\ \A m \in 1 .. Len(queue) : queue[m] = Order[posted - Len(queue) + m]
  BY DEF TypeOK
<1>. QED
  BY <1>1, <1>2, <1>3, <1>4, <1>5

\* A new calculation is not started while one runs.
LEMMA StartKeeps ==
  ASSUME IInv, ~early, NEW w \in StartWith, Start(w)
  PROVE  QueueInv' /\ JoinInv'
<1>1. w \in Widgets /\ ~Running[w] /\ enabled[w]
  BY DlgAssumption DEF Start, Widgets, Running
<1>2. ~Calculating
  BY <1>1, QueueCases
<1>3. JoinInv'
  BY <1>2 DEF Start, JoinInv, Calculating
<1>4. QueueInv'
  BY <1>2 DEF Start, IInv, QueueInv, Calculating
<1>. QED
  BY <1>3, <1>4

\* The start button is enabled when all the events have been handled.
LEMMA StartsLast ==
  ASSUME IInv, ~early, Start("start") PROVE queue = <<>> /\ worker # "enable"
<1>1. "start" \in Widgets /\ enabled["start"] /\ Running["start"] = FALSE /\ gui # "join"
  BY DEF Start, Widgets, Running
<1>2. ~Calculating
  BY <1>1, QueueCases
<1>3. CASE worker # "none"
  <2>1. posted \in 0 .. 5 /\ Len(queue) \in Nat /\ queue \in Seq(Widgets \cup {"call"})
    BY <1>2, <1>3, QueueCases DEF IInv, TypeOK
  <2>2. enabled[Order[5]] = IF 5 <= posted - Len(queue) THEN Idle[Order[5]] ELSE Running[Order[5]]
    BY <1>1, <1>2, <1>3, OrderFacts DEF IInv, QueueInv
  <2>3. 5 <= posted - Len(queue)
    BY <1>1, <2>2, OrderFacts
  <2>. QED
    BY <2>1, <2>3, OrderFacts DEF IInv, PostedInv
<1>4. CASE worker = "none"
  BY <1>4 DEF IInv, QueueInv, Calculating
<1>. QED
  BY <1>3, <1>4

\* A widget is enabled when the event posted for it is handled.
LEMMA HandleKeeps == ASSUME IInv, ~early, HandleEnable PROVE QueueInv' /\ JoinInv'
<1>1. ~Calculating /\ worker # "none" /\ gui = "loop"
  BY QueueCases DEF HandleEnable
<1>2. queue \in Seq(Widgets \cup {"call"}) /\ queue # <<>>
  BY DEF HandleEnable, IInv, TypeOK
<1>3. /\ posted \in 0 .. 5 /\ Len(queue) <= posted /\ Len(queue) >= 1
      /\ Head(queue) = Order[posted - Len(queue) + 1]
  BY <1>1, <1>2, QueueCases, OrderFacts, DlgQueueFacts
<1>4. /\ queue' = Tail(queue) /\ Len(queue') = Len(queue) - 1
      /\ \A m \in 1 .. Len(queue') : queue'[m] = queue[m + 1]
  BY <1>2, OrderFacts, DlgQueueFacts DEF HandleEnable
<1>5. ASSUME NEW m \in 1 .. Len(queue')
      PROVE  queue'[m] = Order[posted' - Len(queue') + m]
  <2>1. m + 1 \in 1 .. Len(queue)
    BY <1>2, <1>4
  <2>2. queue[m + 1] = Order[posted - Len(queue) + (m + 1)]
    BY <1>1, <2>1, QueueCases
  <2>3. posted - Len(queue) + (m + 1) = posted' - Len(queue') + m
    BY <1>2, <1>3, <1>4 DEF HandleEnable
  <2>. QED
    BY <1>4, <2>2, <2>3
<1>6. ASSUME NEW m \in 1 .. 5
      PROVE  enabled'[Order[m]] = IF m <= posted' - Len(queue') THEN Idle[Order[m]]
                                                                ELSE Running[Order[m]]
  <2>1. /\ posted' - Len(queue') = posted - Len(queue) + 1
        /\ posted - Len(queue) \in Int
        /\ posted - Len(queue) + 1 \in 1 .. 5
    BY <1>2, <1>3, <1>4 DEF HandleEnable
  <2>2. enabled[Order[m]] = IF m <= posted - Len(queue) THEN Idle[Order[m]] ELSE Running[Order[m]]
    BY <1>1, OrderFacts DEF IInv, QueueInv
  <2>3. enabled \in [Widgets -> BOOLEAN] /\ Order[m] \in Widgets /\ Head(queue) \in Widgets
    BY OrderFacts DEF IInv, TypeOK, HandleEnable
  <2>4. enabled' = [enabled EXCEPT ![Head(queue)] = Idle[Head(queue)]]
    BY DEF HandleEnable
  <2>5. CASE m = posted - Len(queue) + 1
    BY <1>3, <2>1, <2>3, <2>4, <2>5
  <2>6. CASE m # posted - Len(queue) + 1
    <3>1. Order[m] # Head(queue)
      BY <1>3, <2>1, <2>6, OrderFacts
    <3>2. enabled'[Order[m]] = enabled[Order[m]]
      BY <2>3, <2>4, <3>1
    <3>3. m <= posted - Len(queue) <=> m <= posted' - Len(queue')
      BY <2>1, <2>6
    <3>. QED
      BY <2>2, <3>2, <3>3
  <2>. QED
    BY <2>5, <2>6
<1>7. JoinInv'
  BY <1>1 DEF HandleEnable, JoinInv
<1>8. ~Calculating' /\ worker' # "none" /\ Len(queue') <= posted'
  BY <1>1, <1>2, <1>3, <1>4 DEF HandleEnable, Calculating
<1>9. QueueInv'
  BY <1>5, <1>6, <1>8, OrderFacts DEF QueueInv
<1>. QED
  BY <1>7, <1>9

\* The worker posts the widgets in their order.
LEMMA EnableKeeps == ASSUME IInv, ~early, Enable PROVE QueueInv' /\ JoinInv'
<1>1. ~Calculating /\ worker # "none" /\ UNCHANGED <<gui, enabled>>
  BY DEF Enable, Calculating
<1>2. queue \in Seq(Widgets \cup {"call"})
  BY DEF IInv, TypeOK
<1>3. posted \in 0 .. 4 /\ Len(queue) <= posted /\ Len(queue) \in Nat
  BY <1>1, QueueCases, OrderFacts DEF IInv, PostedInv, Enable
<1>4. /\ queue' = Append(queue, Order[posted + 1]) /\ posted' = posted + 1
      /\ Order[posted + 1] \in Widgets
  BY <1>3, OrderFacts DEF Enable, Post
<1>5. /\ Len(queue') = Len(queue) + 1
      /\ \A m \in 1 .. Len(queue) : queue'[m] = queue[m]
      /\ queue'[Len(queue) + 1] = Order[posted + 1]
  BY <1>2, <1>4, DlgQueueFacts
<1>6. posted' - Len(queue') = posted - Len(queue)
  BY <1>3, <1>4, <1>5
<1>7. ASSUME NEW m \in 1 .. Len(queue') PROVE queue'[m] = Order[posted' - Len(queue') + m]
  <2>1. CASE m \in 1 .. Len(queue)
    BY <1>1, <1>5, <1>6, <2>1, QueueCases
  <2>2. CASE m = Len(queue) + 1
    BY <1>3, <1>5, <1>6, <2>2
  <2>. QED
    BY <1>3, <1>5, <2>1, <2>2
<1>8. ASSUME gui # "join", NEW m \in 1 .. 5
      PROVE  enabled'[Order[m]] = IF m <= posted' - Len(queue') THEN Idle[Order[m]]
                                                                ELSE Running[Order[m]]
  BY <1>1, <1>6, <1>8, OrderFacts DEF IInv, QueueInv
<1>9. ~Calculating' /\ worker' # "none" /\ Len(queue') <= posted'
  BY <1>3, <1>4, <1>5 DEF Enable, Calculating
<1>10. JoinInv'
  BY <1>1, <1>9 DEF IInv, JoinInv
<1>11. QueueInv'
  BY <1>1, <1>7, <1>8, <1>9, OrderFacts DEF QueueInv
<1>. QED
  BY <1>10, <1>11

\* The GUI thread keeps the order of the events.
LEMMA DlgGuiKeeps ==
  ASSUME IInv, GuiReacts \/ User, ~early' PROVE QueueInv' /\ JoinInv'
<1>. ~early
  BY DEF GuiReacts, User, NewWorker, HandleEnable, HandleCall, Closed, Stop, Close, Start
<1>1. CASE NewWorker
  <2>1. queue = <<>> /\ enabled = Running
    BY <1>1 DEF NewWorker, IInv, JoinInv
  <2>. QED
    BY <1>1, <2>1 DEF NewWorker, QueueInv, JoinInv, Calculating
<1>2. CASE HandleCall
  <2>1. worker \in {"clearing", "showing"} /\ worker' \in {"tasks", "shown"} /\ gui = "loop"
    BY <1>2, CallFacts
  <2>2. queue = <<"call">> /\ enabled = Running /\ Calculating'
    BY <2>1, QueueCases DEF Calculating
  <2>3. queue' = <<>> /\ UNCHANGED <<gui, enabled>>
    BY <1>2, <2>2 DEF HandleCall
  <2>. QED
    BY <2>1, <2>2, <2>3 DEF QueueInv, JoinInv
<1>3. CASE Stop \/ Close \/ Closed
  BY <1>3 DEF Stop, Close, Closed, IInv, QueueInv, JoinInv, Calculating
<1>. QED
  BY <1>1, <1>2, <1>3, HandleKeeps, StartKeeps DEF GuiReacts, User

\* The worker keeps the order of the events.
LEMMA DlgWorkerKeeps == ASSUME IInv, ~early, WorkerStep PROVE QueueInv' /\ JoinInv'
<1>1. ASSUME Calculating, worker \notin {"clearing", "showing"},
             Calculating', UNCHANGED <<enabled, gui>>,
             queue' = IF worker' \in {"clearing", "showing"} THEN <<"call">> ELSE <<>>
      PROVE  QueueInv' /\ JoinInv'
  BY <1>1, QueueCases DEF QueueInv, JoinInv
<1>2. ASSUME Calculating, worker \notin {"clearing", "showing"}, worker' = "enable",
             UNCHANGED <<enabled, gui, queue, posted>>
      PROVE  QueueInv' /\ JoinInv'
  <2>1. posted = 0 /\ enabled = Running /\ queue = <<>> /\ gui # "join"
    BY <1>2, QueueCases DEF IInv, PostedInv
  <2>. QED
    BY <1>2, <2>1, OrderFacts DEF QueueInv, JoinInv, Calculating
<1>3. Calculating /\ worker \notin {"clearing", "showing"} => queue = <<>>
  BY QueueCases
<1>4. Append(<<>>, "call") = <<"call">>
  OBVIOUS
<1>5. CASE SetUpFails \/ GetNoResult
  BY <1>2, <1>5 DEF SetUpFails, GetNoResult, Calculating
<1>6. CASE ClearResult \/ Show
  BY <1>1, <1>3, <1>4, <1>6 DEF ClearResult, Show, Calculating, Post
<1>7. CASE StartTasks \/ GetResult \/ NextStep
  BY <1>1, <1>3, <1>7 DEF StartTasks, GetResult, NextStep, Calculating
<1>8. CASE Loop
  BY <1>1, <1>2, <1>3, <1>8 DEF Loop, Calculating
<1>9. CASE EndWorker
  BY <1>9 DEF EndWorker, IInv, QueueInv, JoinInv, Calculating
<1>. QED
  BY <1>5, <1>6, <1>7, <1>8, <1>9, EnableKeeps DEF WorkerStep

-----------------------------------------------------------------------------
(* The theorems.                                                           *)

\* With the start button alone, no calculation is started early.
LEMMA ButtonStep == ASSUME IInv, Next PROVE ButtonInv'
<1>. SUFFICES ASSUME StartWith \subseteq {"start"}
              PROVE  ~early' /\ (gui' = "join" => queue' = <<>> /\ worker' # "enable")
  BY DEF ButtonInv
<1>1. ~early /\ (gui = "join" => queue = <<>> /\ worker # "enable")
  BY DEF IInv, ButtonInv
<1>2. CASE NewWorker
  BY <1>1, <1>2 DEF NewWorker
<1>3. CASE HandleEnable \/ HandleCall \/ Closed \/ Stop \/ Close
  BY <1>1, <1>3 DEF HandleEnable, HandleCall, Closed, Stop, Close
<1>4. ASSUME NEW w \in StartWith, Start(w)
      PROVE  ~early' /\ (gui' = "join" => queue' = <<>> /\ worker' # "enable")
  BY <1>1, <1>4, StartsLast DEF Start
<1>5. CASE WorkerStep
  <2>1. gui = "join" => ~Calculating
    BY <1>1 DEF IInv, JoinInv
  <2>. QED
    BY <1>1, <1>5, <2>1
       DEF WorkerStep, SetUpFails, ClearResult, StartTasks, Loop, GetResult,
           GetNoResult, Show, NextStep, Enable, EndWorker, Calculating
<1>6. CASE \E i \in Steps : PoolStep(i)
  BY <1>1, <1>6 DEF PoolStep, BeginTask, EndTask
<1>. QED
  BY <1>2, <1>3, <1>4, <1>5, <1>6 DEF Next, GuiReacts, User

\* The inductive invariant of a dialog whose calculations are started by the
\* start button or the menu (Start1D, Start2D; fktEnableButtons).
THEOREM DlgInvariance == Spec => []IInv
<1>1. IInv /\ [Next]_vars => IInv'
  <2>. SUFFICES ASSUME IInv, [Next]_vars PROVE IInv'
    OBVIOUS
  <2>1. CASE Next
    <3>1. TypeOK'
      BY <2>1, GuiTypes, WorkerTypes, PoolTypes DEF Next, IInv
    <3>2. ASSUME ~early' PROVE QueueInv' /\ JoinInv'
      <4>1. CASE WorkerStep
        <5>1. ~early
          BY <3>2, <4>1
             DEF WorkerStep, SetUpFails, ClearResult, StartTasks, Loop, GetResult,
                 GetNoResult, Show, NextStep, Enable, EndWorker
        <5>. QED
          BY <4>1, <5>1, DlgWorkerKeeps
      <4>2. CASE \E i \in Steps : PoolStep(i)
        BY <3>2, <4>2 DEF PoolStep, BeginTask, EndTask, IInv, QueueInv, JoinInv, Calculating
      <4>. QED
        BY <2>1, <3>2, <4>1, <4>2, DlgGuiKeeps DEF Next
    <3>. QED
      BY <2>1, <3>1, <3>2, PostedStep, CallStep, FreedStep, ButtonStep DEF IInv
  <2>2. CASE UNCHANGED vars
    BY <2>2 DEF vars, IInv, TypeOK, QueueInv, JoinInv, ButtonInv, FreedInv, CallInv,
                PostedInv, GetInv, Calculating, NoWorker
  <2>. QED
    BY <2>1, <2>2
<1>. QED
  BY <1>1, InitInv, PTL DEF Spec

\* Type correctness.
THEOREM DlgTypeCorrect == Spec => []TypeOK
<1>1. IInv => TypeOK
  BY DEF IInv
<1>. QED
  BY <1>1, DlgInvariance, PTL

\* m_pth->join() in the GUI thread does not wait for a worker that needs the
\* GUI thread, unless one was started before the widgets were all enabled.
THEOREM NeverFreezes == Spec => []NoFreeze
<1>1. IInv => NoFreeze
  BY DEF IInv, JoinInv, NoFreeze, Frozen
<1>. QED
  BY <1>1, DlgInvariance, PTL

\* The start button is the last widget that a worker enables: started with it
\* alone, no calculation begins before all of them are, so the GUI thread never
\* freezes and what a calculation uses is always locked.
THEOREM ButtonSafe == ASSUME StartButton PROVE Spec => [](~Frozen /\ Locked)
<1>1. IInv => ~Frozen /\ Locked
  <2>. SUFFICES ASSUME IInv PROVE ~Frozen /\ Locked
    OBVIOUS
  <2>1. ~early
    BY DEF IInv, ButtonInv, StartButton
  <2>. QED
    BY <2>1, QueueCases DEF Frozen, Locked
<1>. QED
  BY <1>1, DlgInvariance, PTL

\* The settings, the parameter dialog and the menu stay disabled while the
\* worker uses what they change, unless one was started too early; and every
\* return of the worker's function enables the widgets again, always.
THEOREM WidgetsFollow == Spec => []LockedAndFreed
<1>1. IInv => LockedAndFreed
  <2>. SUFFICES ASSUME IInv PROVE LockedAndFreed
    OBVIOUS
  <2>1. ~early => Locked
    BY QueueCases DEF Locked
  <2>2. ASSUME gui = "loop", worker \in {"none", "pool", "done"}, queue = <<>>
        PROVE  enabled = Idle
    <3>1. CASE worker = "none"
      BY <2>2, <3>1 DEF IInv, FreedInv
    <3>2. CASE worker # "none"
      <4>1. posted = 5 /\ Len(queue) = 0
        BY <2>2, <3>2, OrderFacts DEF IInv, PostedInv
      <4>2. \A m \in 1 .. 5 : enabled[Order[m]] = Idle[Order[m]]
        BY <2>2, <4>1 DEF IInv, FreedInv
      <4>3. \A w \in Widgets : enabled[w] = Idle[w]
        BY <4>2, OrderFacts
      <4>4. enabled \in [Widgets -> BOOLEAN]
        BY DEF IInv, TypeOK
      <4>. QED
        BY <4>3, <4>4 DEF Idle
    <3>. QED
      BY <3>1, <3>2
  <2>. QED
    BY <2>1, <2>2 DEF LockedAndFreed, UsableAgain
<1>. QED
  BY <1>1, DlgInvariance, PTL

-----------------------------------------------------------------------------
(* The curves.                                                             *)


\* The vectors of the curves are different ones.
LEMMA CurveFacts ==
  /\ Curves \subseteq DlgVecs /\ Zero \notin Curves
  /\ Conv \in Curves /\ Scan \in Curves /\ Conv # Scan
  /\ Conv \notin BranchVectors /\ Scan \notin BranchVectors
  /\ BranchVectors \subseteq DlgVecs /\ Zero \in DlgVecs
BY CpAssumption DEF Curves, DlgVecs, BranchVectors, First, Zero, Conv, Scan

LEMMA NothingFacts ==
  /\ NoPoint \in [vec : DlgVecs, len : Nat, there : BOOLEAN]
  /\ NoPoint.vec = Zero /\ NoPoint.len = 0 /\ NoPoint.there
BY CurveFacts DEF NoPoint

\* Losing elements changes no curve of another vector, and no empty one.
LEMMA LoseFacts ==
  ASSUME CpTypes, NEW V \in SUBSET DlgVecs, NEW c \in Curves
  PROVE  /\ Lose(V, curve) \in [Curves -> [vec : DlgVecs, len : Nat, there : BOOLEAN]]
         /\ Lose(V, curve)[c].vec = curve[c].vec
         /\ Lose(V, curve)[c].len = curve[c].len
         /\ curve[c].vec \notin V => Lose(V, curve)[c] = curve[c]
         /\ curve[c] = NoPoint => Lose(V, curve)[c] = NoPoint
<1>1. Lose(V, curve) \in [Curves -> [vec : DlgVecs, len : Nat, there : BOOLEAN]]
      /\ Lose(V, curve)[c] = IF curve[c].vec \in V /\ curve[c].len > 0
                             THEN [curve[c] EXCEPT !.there = FALSE] ELSE curve[c]
  BY DEF CpTypes, Lose
<1>2. curve[c] \in [vec : DlgVecs, len : Nat, there : BOOLEAN]
  BY DEF CpTypes
<1>3. curve[c] = NoPoint => ~(curve[c].len > 0)
  BY NothingFacts
<1>. QED
  BY <1>1, <1>2, <1>3

LEMMA PointsFacts ==
  ASSUME CpTypes, NEW v \in DlgVecs
  PROVE  /\ Points(v) \in [vec : DlgVecs, len : Nat, there : BOOLEAN]
         /\ Points(v).vec = v /\ Points(v).len = vec[v].size /\ Points(v).there
BY DEF CpTypes, Points

LEMMA ClearFacts ==
  /\ ClearPlot1D \in [Curves -> [vec : DlgVecs, len : Nat, there : BOOLEAN]]
  /\ \A c \in Curves : ClearPlot1D[c] = NoPoint
BY NothingFacts DEF ClearPlot1D

LEMMA PushFacts ==
  ASSUME NEW v \in [size : Nat, cap : Nat]
  PROVE  /\ Push(v) \in [size : Nat, cap : Nat]
         /\ Push(v).size = v.size + 1
         /\ ~Full(v) => Push(v).cap = v.cap
BY DEF Push, Full

\* An event loop is entered, if its mutex is free.
EntersLoop(slot, p) ==
  /\ loops' \in Seq(EventLoops)
  /\ \/ loops' = loops
     \/ /\ Len(loops') = Len(loops) + 1 /\ Len(loops) \in Nat
        /\ \A i \in 1 .. Len(loops) : loops'[i] = loops[i]
        /\ loops'[Len(loops) + 1].slot = slot

LEMMA EnterFacts ==
  ASSUME CpTypes, NEW slot \in {"SavePlot", "doUpdate"}, NEW p \in Plots,
         Enter(slot, p)
  PROVE  EntersLoop(slot, p)
<1>. DEFINE e == [slot |-> slot, plot |-> p]
<1>1. loops \in Seq(EventLoops) /\ e \in EventLoops /\ Len(loops) \in Nat
  BY DEF CpTypes, EventLoops
<1>2. /\ Append(loops, e) \in Seq(EventLoops)
      /\ Len(Append(loops, e)) = Len(loops) + 1
      /\ \A i \in 1 .. Len(loops) : Append(loops, e)[i] = loops[i]
      /\ Append(loops, e)[Len(loops) + 1] = e
  <2>. HIDE DEF e
  <2>. QED
    BY <1>1, AppendProperties
<1>. QED
  BY <1>1, <1>2 DEF Enter, EntersLoop

\* The event loop that is left was the last one.
LEMMA LeaveFacts ==
  ASSUME CpTypes, loops # <<>>, Leave
  PROVE  /\ loops' \in Seq(EventLoops)
         /\ Len(loops) \in Nat /\ Len(loops') = Len(loops) - 1
         /\ \A i \in 1 .. Len(loops') : loops'[i] = loops[i]
<1>1. loops \in Seq(EventLoops) /\ Len(loops) \in Nat /\ Len(loops) > 0
  BY DEF CpTypes
<1>2. \A i \in 1 .. Len(loops) - 1 : loops[i] \in EventLoops
  BY <1>1
<1>. DEFINE n == Len(loops) - 1
            s == SubSeq(loops, 1, n)
<1>3. /\ s \in Seq(EventLoops)
      /\ Len(s) = IF 1 <= n THEN n - 1 + 1 ELSE 0
      /\ \A i \in 1 .. n - 1 + 1 : s[i] = loops[1 + i - 1]
  BY <1>1, <1>2, SubSeqProperties
<1>4. Len(s) = n /\ \A i \in 1 .. n : s[i] = loops[i]
  <2>1. n \in Nat
    BY <1>1
  <2>. HIDE DEF n, s
  <2>2. \A i \in 1 .. n : i \in 1 .. n - 1 + 1 /\ 1 + i - 1 = i
    BY <2>1
  <2>. QED
    BY <1>3, <2>1, <2>2
<1>. QED
  BY <1>1, <1>3, <1>4 DEF Leave

\* The worker waits for the doUpdate that ends.
LEMMA UpdatedFacts ==
  ASSUME CpTypes, UpdateInv, Updated
  PROVE  at = "updating" /\ \A i \in 1 .. Len(loops) - 1 : ~Updating(i)
<1>1. /\ Len(loops) \in Nat /\ Len(loops) > 0 /\ Updating(Len(loops))
  BY DEF CpTypes, Updated, In, Updating
<1>. QED
  BY <1>1 DEF UpdateInv

\* A curve that shows nothing, or its own vector as it is, exists.
LEMMA NothingExists ==
  ASSUME CpTypes, NEW c \in Curves, curve[c] = NoPoint PROVE Exists(c)
BY NothingFacts, CurveFacts DEF Exists, CpTypes

-----------------------------------------------------------------------------
(* The event loops.                                                        *)

LEMMA LoopsKept ==
  ASSUME LoopInv, UNCHANGED <<loops, hung, keyed>>, at' # "updating",
         at # "updating", at = "idle" => UNCHANGED <<at, titles>> \/ loops = <<>>
  PROVE  LoopInv'
BY DEF LoopInv

LEMMA LoopStep ==
  ASSUME CpIInv, CpNext PROVE LoopInv'
<1>. USE DEF CpIInv
<1>1. ASSUME NEW kind \in {"1d", "2d", "disp"}, NEW live \in BOOLEAN,
             NEW scan \in BOOLEAN, StartCalc(kind, live, scan)
      PROVE  LoopInv'
  BY <1>1, LoopsKept DEF StartCalc, Usable
<1>2. ASSUME ChangeSteps \/ ScaleChanged \/ ReadScan PROVE LoopInv'
  BY <1>2, LoopsKept DEF ChangeSteps, ScaleChanged, ReadScan, Usable
<1>3. ASSUME NEW p \in Plots, SavePlot(p) PROVE LoopInv'
  <2>1. loops = <<>> /\ at' = "idle" /\ titles' = "none"
    BY <1>3 DEF SavePlot, Usable
  <2>2. ~Holds(p)
    BY <2>1 DEF Holds
  <2>3. loops' = <<[slot |-> "SavePlot", plot |-> p]>> /\ ~hung'
    BY <1>3, <2>1, <2>2 DEF SavePlot, Enter
  <2>. QED
    BY <2>1, <2>3 DEF LoopInv
<1>10. ASSUME NEW p \in Plots, PressKey(p) PROVE LoopInv'
  BY <1>10 DEF PressKey, LoopInv
<1>11. ASSUME SetAxisTitle PROVE LoopInv'
  <2>1. CASE keyed
    BY <1>11, <2>1 DEF SetAxisTitle, LoopInv
  <2>2. CASE ~keyed
    <3>1. loops = <<>> /\ at # "updating" /\ ~hung
      BY <1>11, <2>2 DEF SetAxisTitle, LoopInv, WorkInv
    <3>2. ~Holds(titles)
      BY <3>1 DEF Holds
    <3>. QED
      BY <1>11, <3>1, <3>2 DEF SetAxisTitle, LoopInv
  <2>. QED
    BY <2>1, <2>2
<1>4. ASSUME Wrote PROVE LoopInv'
  <2>1. CASE keyed
    BY <1>4, <2>1 DEF Wrote, LoopInv
  <2>2. CASE ~keyed
    <3>1. PICK p \in Plots : loops = <<[slot |-> "SavePlot", plot |-> p]>>
      BY <1>4, <2>2 DEF Wrote, In, LoopInv
    <3>2. Len(loops) = 1 /\ loops # <<>> /\ loops[1].slot = "SavePlot"
      BY <3>1
    <3>3. Len(loops') = 0 /\ loops' \in Seq(EventLoops)
      BY <1>4, <3>2, LeaveFacts DEF Wrote
    <3>4. loops' = <<>> /\ at = "idle" /\ ~hung
      BY <1>4, <2>2, <3>2, <3>3 DEF LoopInv, Wrote, In
    <3>. QED
      BY <1>4, <3>4 DEF Wrote, LoopInv
  <2>. QED
    BY <2>1, <2>2
<1>5. ASSUME Update PROVE LoopInv'
  <2>1. CASE keyed
    BY <1>5, <2>1 DEF Update, LoopInv
  <2>2. CASE ~keyed
    <3>1. loops = <<>>
      BY <1>5, <2>2 DEF Update, LoopInv
    <3>2. ~Holds(PlotOf(calc.kind)) /\ PlotOf(calc.kind) \in Plots
      BY <3>1 DEF Holds, PlotOf, Plots
    <3>3. loops' = <<[slot |-> "doUpdate", plot |-> PlotOf(calc.kind)]>> /\ ~hung'
      BY <1>5, <3>1, <3>2 DEF Update, Enter
    <3>. QED
      BY <1>5, <3>2, <3>3 DEF Update, LoopInv
  <2>. QED
    BY <2>1, <2>2
<1>6. ASSUME Updated PROVE LoopInv'
  <2>1. CASE keyed
    BY <1>6, <2>1 DEF Updated, LoopInv
  <2>2. CASE ~keyed
    <3>1. PICK p \in Plots : loops = <<[slot |-> "doUpdate", plot |-> p]>>
      BY <1>6, <2>2 DEF Updated, In, LoopInv
    <3>2. Len(loops) = 1 /\ loops # <<>>
      BY <3>1
    <3>3. Len(loops') = 0 /\ loops' \in Seq(EventLoops)
      BY <1>6, <3>2, LeaveFacts DEF Updated
    <3>4. loops' = <<>> /\ ~hung
      BY <1>6, <3>3 DEF Updated, In
    <3>. QED
      BY <1>6, <3>4 DEF Updated, LoopInv
  <2>. QED
    BY <2>1, <2>2
<1>7. ASSUME SetText \/ PostTitles \/ NoSetup \/ Drawn \/ EndCalc PROVE LoopInv'
  BY <1>7, LoopsKept DEF SetText, PostTitles, NoSetup, Drawn, EndCalc
<1>8. ASSUME Clear1D \/ ClearDisp \/ Clear2D PROVE LoopInv'
  BY <1>8, LoopsKept DEF Clear1D, ClearDisp, Clear2D, Clear
<1>9. ASSUME Store \/ ShowStep PROVE LoopInv'
  BY <1>9, LoopsKept DEF Store, ShowStep
<1>. QED
  BY <1>1, <1>2, <1>3, <1>4, <1>5, <1>6, <1>7, <1>8, <1>9, <1>10, <1>11 DEF CpNext

LEMMA UpdatesKept ==
  ASSUME UpdateInv, UNCHANGED loops, at = "updating" => at' = "updating"
  PROVE  UpdateInv'
BY DEF UpdateInv, Updating

LEMMA UpdateStep ==
  ASSUME CpTypes, UpdateInv, CpNext PROVE UpdateInv'
<1>1. ASSUME NEW kind \in {"1d", "2d", "disp"}, NEW live \in BOOLEAN,
             NEW scan \in BOOLEAN, StartCalc(kind, live, scan)
      PROVE  UpdateInv'
  BY <1>1, UpdatesKept DEF StartCalc, Usable
<1>2. ASSUME ChangeSteps \/ ScaleChanged \/ ReadScan PROVE UpdateInv'
  BY <1>2, UpdatesKept DEF ChangeSteps, ScaleChanged, ReadScan
<1>3. ASSUME NEW p \in Plots, SavePlot(p) \/ PressKey(p) PROVE UpdateInv'
  <2>1. EntersLoop("SavePlot", p)
    BY <1>3, EnterFacts DEF SavePlot, PressKey
  <2>2. \A i \in 1 .. Len(loops') :
          Updating(i)' => i \in 1 .. Len(loops) /\ Updating(i)
    BY <2>1 DEF EntersLoop, Updating
  <2>. QED
    BY <1>3, <2>2 DEF SavePlot, PressKey, UpdateInv
<1>4. ASSUME Wrote PROVE UpdateInv'
  <2>1. \A i \in 1 .. Len(loops') :
          i \in 1 .. Len(loops) /\ (Updating(i)' => Updating(i))
    BY <1>4, LeaveFacts DEF Wrote, In, Updating
  <2>. QED
    BY <1>4, <2>1 DEF Wrote, UpdateInv
<1>5. ASSUME Update PROVE UpdateInv'
  <2>1. EntersLoop("doUpdate", PlotOf(calc.kind))
    BY <1>5, EnterFacts DEF Update, PlotOf, Plots
  <2>2. \A i \in 1 .. Len(loops) : ~Updating(i)
    BY <1>5 DEF Update, UpdateInv
  <2>3. \A i \in 1 .. Len(loops') :
          Updating(i)' => i = Len(loops) + 1
    BY <2>1, <2>2 DEF EntersLoop, Updating
  <2>. QED
    BY <1>5, <2>3 DEF Update, UpdateInv
<1>6. ASSUME Updated PROVE UpdateInv'
  <2>1. \A i \in 1 .. Len(loops') : ~Updating(i)'
    BY <1>6, LeaveFacts, UpdatedFacts DEF Updated, In, Updating
  <2>. QED
    BY <2>1 DEF UpdateInv
<1>7. ASSUME \/ SetAxisTitle \/ SetText \/ PostTitles \/ NoSetup \/ Drawn \/ EndCalc
      PROVE  UpdateInv'
  BY <1>7, UpdatesKept DEF SetAxisTitle, SetText, PostTitles, NoSetup, Drawn, EndCalc
<1>8. ASSUME Clear1D \/ ClearDisp \/ Clear2D PROVE UpdateInv'
  BY <1>8, UpdatesKept DEF Clear1D, ClearDisp, Clear2D, Clear
<1>9. ASSUME Store \/ ShowStep PROVE UpdateInv'
  BY <1>9, UpdatesKept DEF Store, ShowStep
<1>. QED
  BY <1>1, <1>2, <1>3, <1>4, <1>5, <1>6, <1>7, <1>8, <1>9 DEF CpNext

-----------------------------------------------------------------------------
(* Types and the worker.                                                   *)

LEMMA TypesKept == ASSUME CpTypes, WorkInv, UpdateInv, CpNext PROVE CpTypes' /\ WorkInv'
<1>. USE CpAssumption
<1>1. ASSUME NEW kind \in {"1d", "2d", "disp"}, NEW live \in BOOLEAN,
             NEW scan \in BOOLEAN, StartCalc(kind, live, scan)
      PROVE  CpTypes' /\ WorkInv'
  <2>1. (scan /\ vec[Scan].size > 0) \in BOOLEAN /\ (touched /\ kind = "2d") \in BOOLEAN
    OBVIOUS
  <2>2. curve' \in [Curves -> [vec : DlgVecs, len : Nat, there : BOOLEAN]]
    BY <1>1, ClearFacts DEF StartCalc, CpTypes
  <2>3. calc' \in [kind : {"none", "1d", "2d", "disp"}, n : 0 .. MaxSteps,
                   done : 0 .. MaxSteps, live : BOOLEAN, scan : BOOLEAN]
        /\ calc'.done = 0 /\ calc'.n > 0
    BY <1>1, <2>1 DEF StartCalc, CpTypes
  <2>4. /\ loops = <<>> /\ titles = "none" /\ at' = "begin"
        /\ UNCHANGED <<steps, vec, loops, titles>>
    BY <1>1 DEF StartCalc, Usable
  <2>. QED
    BY <2>2, <2>3, <2>4 DEF CpTypes, WorkInv
<1>2. ASSUME ChangeSteps PROVE CpTypes' /\ WorkInv'
  BY <1>2 DEF ChangeSteps, CpTypes, WorkInv
<1>3. ASSUME ScaleChanged PROVE CpTypes' /\ WorkInv'
  BY <1>3, PointsFacts, CurveFacts DEF ScaleChanged, CpTypes, WorkInv
<1>4. ASSUME ReadScan PROVE CpTypes' /\ WorkInv'
  <2>1. curve' \in [Curves -> [vec : DlgVecs, len : Nat, there : BOOLEAN]]
    BY <1>4, LoseFacts, CurveFacts DEF ReadScan
  <2>2. vec' \in [DlgVecs -> [size : Nat, cap : Nat]]
    <3>1. PICK n \in {0, 2} : vec' = [vec EXCEPT ![Scan] = [size |-> n, cap |-> n]]
      BY <1>4 DEF ReadScan
    <3>2. [size |-> n, cap |-> n] \in [size : Nat, cap : Nat]
      BY <3>1
    <3>. QED
      BY <3>1, <3>2 DEF CpTypes
  <2>3. UNCHANGED <<steps, calc, at, loops, titles>>
    BY <1>4 DEF ReadScan
  <2>. QED
    BY <2>1, <2>2, <2>3 DEF CpTypes, WorkInv
<1>5. ASSUME NEW p \in Plots, SavePlot(p) \/ PressKey(p) PROVE CpTypes' /\ WorkInv'
  <2>1. loops' \in Seq(EventLoops)
    BY <1>5, EnterFacts DEF SavePlot, PressKey, EntersLoop
  <2>. QED
    BY <1>5, <2>1 DEF SavePlot, PressKey, CpTypes, WorkInv
<1>6. ASSUME Wrote PROVE CpTypes' /\ WorkInv'
  <2>1. loops' \in Seq(EventLoops)
    BY <1>6, LeaveFacts DEF Wrote, In
  <2>. QED
    BY <1>6, <2>1 DEF Wrote, CpTypes, WorkInv
<1>7. ASSUME Update PROVE CpTypes' /\ WorkInv'
  <2>1. PlotOf(calc.kind) \in Plots
    BY DEF PlotOf, Plots
  <2>2. loops' \in Seq(EventLoops)
    BY <1>7, <2>1, EnterFacts DEF Update, EntersLoop
  <2>. QED
    BY <1>7, <2>2 DEF Update, CpTypes, WorkInv
<1>8. ASSUME Updated PROVE CpTypes' /\ WorkInv'
  <2>1. loops' \in Seq(EventLoops)
    BY <1>8, LeaveFacts DEF Updated, In
  <2>2. at = "updating"
    BY <1>8, UpdatedFacts
  <2>. QED
    BY <1>8, <2>1, <2>2 DEF Updated, CpTypes, WorkInv
<1>15. ASSUME SetAxisTitle \/ PostTitles PROVE CpTypes' /\ WorkInv'
  <2>1. PlotOf(calc.kind) \in Plots
    BY DEF PlotOf, Plots
  <2>. QED
    BY <1>15, <2>1 DEF SetAxisTitle, PostTitles, CpTypes, WorkInv
<1>14. ASSUME SetText \/ NoSetup \/ Drawn \/ EndCalc
       PROVE  CpTypes' /\ WorkInv'
  <2>1. /\ UNCHANGED <<steps, calc, vec, curve, loops, titles>>
        /\ at # "updating" /\ at' \in {"idle", "loop", "text"}
        /\ at \in {"setup", "idle"} => at' = "idle"
    BY <1>14 DEF SetText, NoSetup, Drawn, EndCalc
  <2>2. at' # "idle" => at # "idle"
    BY <1>14 DEF SetText, NoSetup, Drawn, EndCalc
  <2>. QED
    BY <2>1, <2>2 DEF CpTypes, WorkInv
<1>9. ASSUME Clear1D PROVE CpTypes' /\ WorkInv'
  <2>1. curve' \in [Curves -> [vec : DlgVecs, len : Nat, there : BOOLEAN]]
    BY <1>9, LoseFacts, CurveFacts DEF Clear1D, CpTypes
  <2>2. vec' \in [DlgVecs -> [size : Nat, cap : Nat]]
    BY <1>9, CurveFacts DEF Clear1D, CpTypes
  <2>. QED
    BY <1>9, <2>1, <2>2 DEF Clear1D, Clear, CpTypes, WorkInv
<1>10. ASSUME ClearDisp PROVE CpTypes' /\ WorkInv'
  <2>1. curve' \in [Curves -> [vec : DlgVecs, len : Nat, there : BOOLEAN]]
    BY <1>10, LoseFacts, CurveFacts DEF ClearDisp
  <2>2. vec' \in [DlgVecs -> [size : Nat, cap : Nat]]
    BY <1>10 DEF ClearDisp, CpTypes, Empty
  <2>. QED
    BY <1>10, <2>1, <2>2 DEF ClearDisp, Clear, CpTypes, WorkInv
<1>11. ASSUME Clear2D PROVE CpTypes' /\ WorkInv'
  BY <1>11 DEF Clear2D, Clear, CpTypes, WorkInv
<1>12. ASSUME Store PROVE CpTypes' /\ WorkInv'
  <2>1. /\ curve' \in [Curves -> [vec : DlgVecs, len : Nat, there : BOOLEAN]]
        /\ vec' \in [DlgVecs -> [size : Nat, cap : Nat]]
    <3>1. CASE Store1D
      BY <3>1, LoseFacts, PushFacts, CurveFacts DEF Store1D, CpTypes
    <3>2. CASE StoreDisp
      <4>1. PICK m \in 0 .. NBranches :
              /\ vec' = [v \in DlgVecs |-> IF v \in First(m) THEN Push(vec[v]) ELSE vec[v]]
              /\ curve' = Lose({v \in First(m) : Full(vec[v])}, curve)
        BY <3>2 DEF StoreDisp
      <4>2. {v \in First(m) : Full(vec[v])} \in SUBSET DlgVecs
        BY DEF First, DlgVecs, BranchVectors
      <4>. QED
        BY <4>1, <4>2, LoseFacts, PushFacts, CurveFacts DEF CpTypes
    <3>3. CASE Store2D
      BY <3>3 DEF Store2D, CpTypes
    <3>. QED
      BY <1>12, <3>1, <3>2, <3>3 DEF Store
  <2>2. /\ calc' = [calc EXCEPT !.done = calc.done + 1]
        /\ calc.done < calc.n /\ calc.n \in 0 .. MaxSteps /\ calc.done \in 0 .. MaxSteps
    BY <1>12 DEF Store, CpTypes
  <2>4. calc.done + 1 \in 0 .. MaxSteps /\ calc.done + 1 <= calc.n
    BY <2>2
  <2>3. calc' \in [kind : {"none", "1d", "2d", "disp"}, n : 0 .. MaxSteps,
                   done : 0 .. MaxSteps, live : BOOLEAN, scan : BOOLEAN]
        /\ calc'.done <= calc'.n /\ calc'.n = calc.n /\ calc'.live = calc.live
    BY <2>2, <2>4 DEF CpTypes
  <2>. QED
    BY <1>12, <2>1, <2>3 DEF Store, CpTypes, WorkInv
<1>13. ASSUME ShowStep PROVE CpTypes' /\ WorkInv'
  <2>. DEFINE Shows == [vec : DlgVecs, len : Nat, there : BOOLEAN]
  <2>2. /\ curve \in [Curves -> Shows] /\ NoPoint \in Shows
        /\ \A c \in Curves : Points(c) \in Shows
    BY PointsFacts, NothingFacts, CurveFacts DEF CpTypes
  <2>1. curve' \in [Curves -> Shows]
    <3>. HIDE DEF Shows
    <3>. QED
      BY <1>13, <2>2, CurveFacts DEF ShowStep
  <2>. QED
    BY <1>13, <2>1 DEF ShowStep, CpTypes, WorkInv
<1>. QED
  BY <1>1, <1>2, <1>3, <1>4, <1>5, <1>6, <1>7, <1>8, <1>9, <1>10, <1>11, <1>12,
     <1>13, <1>14, <1>15 DEF CpNext

-----------------------------------------------------------------------------
(* The curves.                                                             *)

LEMMA CurveStep ==
  ASSUME CpIInv, CpNext PROVE ResultInv' /\ CurveInv'
<1>. USE CurveFacts, NothingFacts DEF CpIInv
<1>1. ASSUME NEW kind \in {"1d", "2d", "disp"}, NEW live \in BOOLEAN,
             NEW scan \in BOOLEAN, StartCalc(kind, live, scan)
      PROVE  ResultInv' /\ CurveInv'
  <2>1. calc'.kind = kind /\ calc'.done = 0 /\ at' = "begin" /\ vec' = vec
    BY <1>1 DEF StartCalc
  <2>2. CASE kind = "2d"
    BY <1>1, <2>1, <2>2 DEF StartCalc, Usable, ResultInv, CurveInv, Exists
  <2>3. CASE kind # "2d"
    <3>1. curve' = ClearPlot1D /\ \A c \in Curves : curve'[c] = NoPoint
      BY <1>1, <2>3, ClearFacts DEF StartCalc
    <3>2. vec'[Zero].size \in Nat
      BY <2>1 DEF CpTypes
    <3>3. \A c \in Curves : Exists(c)'
      BY <3>1, <3>2 DEF Exists
    <3>. QED
      BY <2>1, <3>1, <3>3 DEF ResultInv, CurveInv
  <2>. QED
    BY <2>2, <2>3
<1>2. ASSUME ChangeSteps PROVE ResultInv' /\ CurveInv'
  BY <1>2 DEF ChangeSteps, ResultInv, CurveInv, Exists
<1>3. ASSUME ScaleChanged PROVE ResultInv' /\ CurveInv'
  <2>1. /\ at = "idle" /\ UNCHANGED <<at, vec, calc>> /\ touched'
        /\ \A c \in Curves : c # Conv => curve'[c] = curve[c]
        /\ curve'[Conv] = Points(Conv)
    BY <1>3 DEF ScaleChanged, Usable, CpTypes
  <2>2. Exists(Conv)'
    BY <2>1, PointsFacts DEF Exists, CpTypes
  <2>. QED
    BY <2>1, <2>2, PointsFacts DEF ResultInv, CurveInv, Exists
<1>4. ASSUME ReadScan PROVE ResultInv' /\ CurveInv'
  <2>1. /\ at = "idle" /\ UNCHANGED <<at, calc>> /\ touched'
        /\ \A v \in DlgVecs : v # Scan => vec'[v] = vec[v]
        /\ curve' = Lose({Scan}, curve)
    BY <1>4 DEF ReadScan, Usable, CpTypes
  <2>2. ASSUME NEW c \in Curves PROVE /\ curve'[c] = NoPoint \/ curve'[c].vec = c
                                      /\ c # Scan => curve'[c] = curve[c]
    BY <2>1, LoseFacts DEF CurveInv
  <2>3. ASSUME NEW c \in Curves, c # Scan PROVE Exists(c)'
    <3>1. curve'[c] = curve[c] /\ curve[c].vec # Scan /\ curve[c].vec \in DlgVecs
      BY <2>2, <2>3 DEF CurveInv, CpTypes
    <3>. QED
      BY <2>1, <2>3, <3>1 DEF CurveInv, Exists
  <2>. QED
    BY <2>1, <2>2, <2>3 DEF ResultInv, CurveInv
<1>5. ASSUME NEW p \in Plots, SavePlot(p) \/ PressKey(p) PROVE ResultInv' /\ CurveInv'
  BY <1>5 DEF SavePlot, PressKey, ResultInv, CurveInv, Exists
<1>13. ASSUME SetAxisTitle \/ PostTitles PROVE ResultInv' /\ CurveInv'
  BY <1>13 DEF SetAxisTitle, PostTitles, ResultInv, CurveInv, Exists
<1>6. ASSUME Wrote PROVE ResultInv' /\ CurveInv'
  BY <1>6 DEF Wrote, ResultInv, CurveInv, Exists
<1>7. ASSUME Update \/ Updated \/ SetText \/ NoSetup \/ Drawn \/ EndCalc
      PROVE  ResultInv' /\ CurveInv'
  <2>1. /\ UNCHANGED <<calc, vec, curve, touched>> /\ at # "show" /\ at' # "show"
        /\ at # "idle" /\ at' \notin {"begin", "setup"}
        /\ at' # "idle" => at \notin {"begin", "setup"}
    BY <1>7, UpdatedFacts DEF Update, Updated, SetText, NoSetup, Drawn, EndCalc
  <2>. QED
    BY <2>1 DEF ResultInv, CurveInv, Exists
<1>8. ASSUME Clear1D PROVE ResultInv' /\ CurveInv'
  <2>1. /\ at = "setup" /\ at' = "loop" /\ UNCHANGED <<calc, touched>>
        /\ calc.kind = "1d" /\ calc.done = 0 /\ calc.n \in Nat
        /\ curve = ClearPlot1D
    BY <1>8 DEF Clear1D, Clear, WorkInv, ResultInv, CpTypes
  <2>2. \A c \in Curves : curve'[c] = NoPoint
    BY <1>8, <2>1, LoseFacts, ClearFacts DEF Clear1D
  <2>3. vec'[Conv].size = 0 /\ vec'[Conv].cap >= calc.n
    BY <1>8, <2>1 DEF Clear1D, CpTypes
  <2>4. vec' \in [DlgVecs -> [size : Nat, cap : Nat]]
    BY <1>8, <2>1 DEF Clear1D, CpTypes
  <2>5. \A c \in Curves : Exists(c)'
    BY <2>2, <2>4 DEF Exists
  <2>. QED
    BY <2>1, <2>2, <2>3, <2>5 DEF ResultInv, CurveInv
<1>9. ASSUME ClearDisp PROVE ResultInv' /\ CurveInv'
  <2>1. /\ at = "setup" /\ at' = "loop" /\ UNCHANGED <<calc, touched>>
        /\ calc.kind = "disp" /\ curve = ClearPlot1D
    BY <1>9 DEF ClearDisp, Clear, ResultInv
  <2>2. \A c \in Curves : curve'[c] = NoPoint
    BY <1>9, <2>1, LoseFacts, ClearFacts DEF ClearDisp
  <2>3. vec' \in [DlgVecs -> [size : Nat, cap : Nat]]
    BY <1>9 DEF ClearDisp, CpTypes, Empty
  <2>4. \A c \in Curves : Exists(c)'
    BY <2>2, <2>3 DEF Exists
  <2>. QED
    BY <2>1, <2>2, <2>4 DEF ResultInv, CurveInv
<1>10. ASSUME Clear2D PROVE ResultInv' /\ CurveInv'
  BY <1>10 DEF Clear2D, Clear, ResultInv, CurveInv, Exists
<1>11. ASSUME Store PROVE ResultInv' /\ CurveInv'
  <2>1. /\ at = "loop" /\ calc.done < calc.n /\ touched' = touched
        /\ calc'.kind = calc.kind /\ calc'.live = calc.live /\ calc'.n = calc.n
        /\ calc'.done = calc.done + 1 /\ at' \in {"show", "updated"}
        /\ calc.live => at' = "show"
        /\ calc.done \in Nat /\ calc.n \in Nat
    BY <1>11 DEF Store, CpTypes
  <2>2. CASE Store1D
    <3>1. /\ calc.kind = "1d" /\ vec[Conv].size = calc.done
          /\ vec[Conv].cap >= calc.n
      BY <2>1, <2>2 DEF Store1D, ResultInv
    <3>2. ~Full(vec[Conv]) /\ curve' = curve /\ vec' = [vec EXCEPT ![Conv] = Push(vec[Conv])]
      BY <2>1, <2>2, <3>1 DEF Store1D, Full, CpTypes
    <3>3. /\ vec'[Conv].size = calc.done + 1 /\ vec'[Conv].cap >= calc.n
          /\ \A v \in DlgVecs : vec'[v].size >= vec[v].size
      <4>1. /\ vec[Conv] \in [size : Nat, cap : Nat]
            /\ \A v \in DlgVecs : vec[v].size \in Nat
            /\ vec'[Conv] = Push(vec[Conv])
            /\ \A v \in DlgVecs : v # Conv => vec'[v] = vec[v]
        BY <3>2 DEF CpTypes
      <4>2. vec'[Conv].size = vec[Conv].size + 1 /\ vec'[Conv].cap = vec[Conv].cap
        BY <3>2, <4>1, PushFacts
      <4>. QED
        BY <3>1, <4>1, <4>2
    <3>4. \A c \in Curves : Exists(c) => Exists(c)'
      <4>. SUFFICES ASSUME NEW c \in Curves, Exists(c) PROVE Exists(c)'
        OBVIOUS
      <4>1. curve[c].vec \in DlgVecs /\ curve[c].len \in Nat
        BY DEF CpTypes
      <4>2. /\ vec[curve[c].vec].size \in Nat /\ vec'[curve[c].vec].size \in Nat
            /\ vec'[curve[c].vec].size >= vec[curve[c].vec].size
        BY <3>2, <3>3, <4>1, PushFacts DEF CpTypes
      <4>. QED
        BY <3>2, <4>1, <4>2 DEF Exists
    <3>. QED
      BY <2>1, <3>1, <3>2, <3>3, <3>4 DEF ResultInv, CurveInv
  <2>3. CASE StoreDisp
    <3>1. PICK m \in 0 .. NBranches :
            /\ vec' = [v \in DlgVecs |-> IF v \in First(m) THEN Push(vec[v]) ELSE vec[v]]
            /\ curve' = Lose({v \in First(m) : Full(vec[v])}, curve)
      BY <2>3 DEF StoreDisp
    <3>. DEFINE V == {v \in First(m) : Full(vec[v])}
    <3>2. V \in SUBSET DlgVecs /\ V \subseteq BranchVectors
      BY CpAssumption DEF First, DlgVecs, BranchVectors
    <3>3. calc.kind = "disp"
      BY <2>3 DEF StoreDisp
    <3>4. ASSUME NEW c \in Curves
          PROVE  /\ curve'[c] = NoPoint \/ curve'[c].vec = c
                 /\ curve[c] = NoPoint => curve'[c] = NoPoint
                 /\ c \notin BranchVectors => curve'[c] = curve[c]
      BY <3>1, <3>2, LoseFacts DEF CurveInv
    <3>5. ASSUME NEW c \in Curves, c \notin BranchVectors, Exists(c) PROVE Exists(c)'
      <4>1. curve'[c] = curve[c] /\ curve[c].vec \in DlgVecs
            /\ curve[c].vec \notin BranchVectors
          <5>1. Zero \notin BranchVectors
          BY CpAssumption DEF Zero, BranchVectors, First
        <5>2. curve[c] = NoPoint \/ curve[c].vec = c
          BY DEF CurveInv
        <5>. QED
          BY <3>4, <3>5, <5>1, <5>2 DEF CpTypes
      <4>2. vec'[curve[c].vec] = vec[curve[c].vec]
        BY <3>1, <4>1, CpAssumption DEF First, BranchVectors
      <4>. QED
        BY <3>5, <4>1, <4>2 DEF Exists
    <3>6. vec' \in [DlgVecs -> [size : Nat, cap : Nat]]
      BY <3>1, PushFacts DEF CpTypes
    <3>7. ASSUME NEW c \in Curves, c \in BranchVectors, ~calc.live
          PROVE  curve'[c] = NoPoint /\ Exists(c)'
      <4>1. curve[c] = NoPoint
        BY <2>1, <3>3, <3>7 DEF ResultInv
      <4>. QED
        BY <3>4, <3>6, <4>1 DEF Exists
    <3>8. ResultInv'
      BY <2>1, <3>3, <3>7 DEF ResultInv
    <3>9. CurveInv'
      <4>. SUFFICES ASSUME NEW c \in Curves
                    PROVE  \/ Exists(c)'
                           \/ /\ c \in BranchVectors /\ calc'.kind = "disp"
                              /\ calc'.live /\ at' = "show"
                           \/ c = Scan /\ touched'
        BY <3>4 DEF CurveInv
      <4>. QED
        BY <2>1, <3>3, <3>5, <3>7 DEF CurveInv
    <3>. QED
      BY <3>8, <3>9
  <2>4. CASE Store2D
    BY <2>1, <2>4 DEF Store2D, ResultInv, CurveInv, Exists
  <2>. QED
    BY <1>11, <2>2, <2>3, <2>4 DEF Store
<1>12. ASSUME ShowStep PROVE ResultInv' /\ CurveInv'
  <2>1. /\ at = "show" /\ at' = "update" /\ UNCHANGED <<calc, vec, touched>>
        /\ calc.live \/ calc.done = calc.n
        /\ calc.done \in Nat
    BY <1>12 DEF ShowStep, WorkInv, CpTypes
  <2>2. ResultInv'
    BY <2>1 DEF ResultInv, CpTypes
  <2>3. ASSUME NEW c \in Curves, curve'[c] = Points(c)
        PROVE  curve'[c].vec = c /\ Exists(c)'
    <3>1. Points(c).vec = c /\ Points(c).len = vec[c].size /\ Points(c).there
      BY PointsFacts
    <3>2. vec[c].size \in Nat
      BY DEF CpTypes
    <3>. QED
      BY <2>1, <2>3, <3>1, <3>2 DEF Exists
  <2>4. ASSUME NEW c \in Curves, curve'[c] = NoPoint PROVE Exists(c)'
    BY <2>1, <2>4 DEF Exists, CpTypes
  <2>5. ASSUME NEW c \in Curves, curve'[c] = curve[c], Exists(c) PROVE Exists(c)'
    BY <2>1, <2>5 DEF Exists
  <2>6. CASE calc.kind = "1d"
    <3>1. /\ curve'[Conv] = Points(Conv)
          /\ curve'[Scan] = Points(Scan) \/ curve'[Scan] = NoPoint
          /\ \A c \in Curves : c \notin {Conv, Scan} => curve'[c] = curve[c]
      BY <1>12, <2>6 DEF ShowStep, CpTypes
    <3>. QED
      BY <2>2, <2>3, <2>4, <2>5, <2>6, <3>1 DEF CurveInv
  <2>7. CASE calc.kind = "disp"
    <3>1. \A c \in Curves : IF c \in BranchVectors THEN curve'[c] = Points(c)
                            ELSE curve'[c] = curve[c]
      BY <1>12, <2>7 DEF ShowStep
    <3>. QED
      BY <2>1, <2>2, <2>3, <2>5, <3>1 DEF CurveInv
  <2>8. CASE calc.kind = "2d"
    <3>1. curve' = curve
      BY <1>12, <2>8 DEF ShowStep
    <3>. QED
      BY <2>1, <2>2, <2>5, <2>8, <3>1 DEF CurveInv
  <2>. QED
    BY <1>12, <2>6, <2>7, <2>8 DEF ShowStep
<1>. QED
  BY <1>1, <1>2, <1>3, <1>4, <1>5, <1>6, <1>7, <1>8, <1>9, <1>10, <1>11, <1>12,
     <1>13 DEF CpNext

-----------------------------------------------------------------------------
(* What a calculation shows.                                               *)

\* Steps that change neither the results nor what is drawn of them.
LEMMA ShownQuiet ==
  ASSUME CpIInv, ShownInv,
         \/ ChangeSteps \/ Wrote \/ SetAxisTitle \/ Update \/ Updated \/ SetText
         \/ PostTitles \/ NoSetup \/ Drawn \/ EndCalc \/ UNCHANGED cpvars
         \/ \E p \in Plots : SavePlot(p) \/ PressKey(p)
  PROVE  ShownInv'
<1>1. /\ UNCHANGED <<calc, vec, curve, map, touched>>
      /\ at = "show" <=> at' = "show"
      /\ at = "idle" => at' = "idle"
      /\ at \in {"begin", "setup"} => at' \in {"begin", "setup", "idle"}
      /\ at' \notin {"idle", "begin", "setup"} => at \notin {"idle", "begin", "setup"}
      /\ at' # "idle" => at # "idle"
  <2>1. CASE Updated
    BY <2>1, UpdatedFacts DEF Updated, CpIInv
  <2>2. CASE Wrote \/ SetAxisTitle \/ UNCHANGED cpvars
             \/ \E p \in Plots : SavePlot(p) \/ PressKey(p)
    BY <2>2 DEF Wrote, SetAxisTitle, SavePlot, PressKey, cpvars
  <2>3. CASE \/ ChangeSteps \/ Update \/ SetText \/ PostTitles \/ NoSetup \/ Drawn
             \/ EndCalc
    BY <2>3 DEF ChangeSteps, Update, SetText, PostTitles, NoSetup, Drawn, EndCalc
  <2>. QED
    BY <2>1, <2>2, <2>3
<1>2. Unshown' = Unshown /\ AllDone' = AllDone /\ \A c : Points(c)' = Points(c)
  BY <1>1 DEF Unshown, AllDone, Points
<1>3. KindInv' /\ WholeInv'
  BY <1>1, <1>2 DEF ShownInv, KindInv, WholeInv
<1>4. ConvInv' /\ DispInv'
  BY <1>1, <1>2 DEF ShownInv, ConvInv, DispInv
<1>5. MapInv'
  BY <1>1 DEF ShownInv, MapInv
<1>6. TextInv'
  <2>1. CASE SetText
    BY <2>1 DEF SetText, TextInv, AllDone
  <2>2. CASE ~SetText
    <3>1. text' = text
      BY <2>2 DEF ChangeSteps, Wrote, SetAxisTitle, Update, Updated, PostTitles,
                  NoSetup, Drawn, EndCalc, SavePlot, PressKey, cpvars
    <3>2. AllDone /\ at' \in {"idle", "loop"} => at \in {"idle", "loop"}
      <4>1. AllDone /\ at \in {"begin", "setup"} => FALSE
        BY DEF CpIInv, WorkInv, AllDone
      <4>2. calc.done < calc.n => ~AllDone
        BY DEF AllDone, CpIInv, CpTypes
      <4>. QED
        BY <2>2, <4>1, <4>2 DEF ChangeSteps, Wrote, SetAxisTitle, Update, Updated,
           PostTitles, NoSetup, Drawn, EndCalc, SavePlot, PressKey, Usable, In, cpvars
    <3>. QED
      BY <1>1, <1>2, <3>1, <3>2 DEF ShownInv, TextInv
  <2>. QED
    BY <2>1, <2>2
<1>. QED
  BY <1>3, <1>4, <1>5, <1>6 DEF ShownInv

\* Changes the user makes to a curve or the scan are not a calculation's.
LEMMA ShownTouched ==
  ASSUME CpIInv, ShownInv, ScaleChanged \/ ReadScan PROVE ShownInv'
<1>1. /\ UNCHANGED <<calc, at, map, text>> /\ touched' /\ at = "idle"
      /\ vec'[Zero] = vec[Zero]
  BY CurveFacts DEF ScaleChanged, ReadScan, Usable, CpIInv, CpTypes, Zero, Scan
<1>2. KindInv' /\ WholeInv' /\ TextInv' /\ ConvInv' /\ DispInv' /\ MapInv'
  BY <1>1 DEF ShownInv, KindInv, WholeInv, TextInv, ConvInv, DispInv, MapInv, AllDone
<1>. QED
  BY <1>2 DEF ShownInv

\* A calculation starts; its curves are cleared.
LEMMA ShownStart ==
  ASSUME CpIInv, ShownInv, NEW kind \in {"1d", "2d", "disp"}, NEW live \in BOOLEAN,
         NEW scan \in BOOLEAN, StartCalc(kind, live, scan)
  PROVE  ShownInv'
<1>1. /\ calc'.kind = kind /\ calc'.done = 0 /\ calc'.n = steps /\ calc'.live = live
      /\ at' = "begin" /\ vec' = vec /\ map' = map
      /\ touched' = (touched /\ kind = "2d") /\ steps \in Nat /\ steps > 0
      /\ at = "idle"
  BY CpAssumption DEF StartCalc, Usable, CpIInv, CpTypes
<1>2. ~AllDone' /\ ~Unshown'
  BY <1>1 DEF AllDone, Unshown
<1>3. kind # "2d" => \A c \in Curves : curve'[c] = NoPoint
  BY <1>1, ClearFacts DEF StartCalc
<1>4. kind = "2d" => curve' = curve
  BY DEF StartCalc
<1>5. KindInv' /\ TextInv' /\ MapInv'
  <2>1. touched' => kind = "2d"
    BY <1>1, Zenon
  <2>2. KindInv'
    BY <1>1, <2>1 DEF KindInv
  <2>3. TextInv' /\ MapInv'
    BY <1>1, <1>2 DEF TextInv, MapInv
  <2>. QED
    BY <2>2, <2>3
<1>6. WholeInv'
  <2>1. CASE kind = "2d"
    <3>1. ~touched' => ~touched
      BY <1>1, <2>1
    <3>2. ~Unshown
      BY <1>1 DEF Unshown
    <3>. QED
      BY <1>1, <1>4, <2>1, <3>1, <3>2 DEF ShownInv, WholeInv
  <2>2. CASE kind # "2d"
    BY <1>1, <1>3, <2>2, NothingFacts DEF ShownInv, WholeInv
  <2>. QED
    BY <2>1, <2>2
<1>7. ConvInv' /\ DispInv'
  BY <1>1, <1>2, <1>3, CurveFacts DEF ConvInv, DispInv
<1>. QED
  BY <1>5, <1>6, <1>7 DEF ShownInv

\* The results of an earlier calculation go.
LEMMA ShownCleared ==
  ASSUME CpIInv, ShownInv, Clear1D \/ ClearDisp \/ Clear2D
  PROVE  ShownInv'
<1>1. /\ UNCHANGED <<calc, touched>> /\ at = "setup" /\ at' = "loop"
      /\ calc.done = 0 /\ calc.n > 0 /\ calc.n \in Nat
  BY DEF Clear1D, ClearDisp, Clear2D, Clear, CpIInv, WorkInv, CpTypes
<1>2. ~AllDone' /\ ~Unshown' /\ ~Unshown
  BY <1>1 DEF AllDone, Unshown
<1>3. KindInv' /\ TextInv'
  BY <1>1, <1>2 DEF ShownInv, KindInv, TextInv
<1>4. CASE Clear2D
  <2>1. /\ calc.kind = "2d" /\ vec' = vec /\ curve' = curve
        /\ map' \in [1 .. calc.n -> {"none", "before", "now"}]
    BY <1>4 DEF Clear2D, Clear
  <2>2. WholeInv' /\ ConvInv' /\ DispInv'
    BY <1>1, <1>2, <2>1 DEF ShownInv, WholeInv, ConvInv, DispInv
  <2>3. MapInv'
    BY <1>1, <2>1 DEF MapInv
  <2>. QED
    BY <1>3, <2>2, <2>3 DEF ShownInv
<1>5. CASE Clear1D \/ ClearDisp
  <2>1. calc.kind \in {"1d", "disp"} /\ curve = ClearPlot1D
    BY <1>1, <1>5 DEF Clear1D, ClearDisp, Clear, CpIInv, ResultInv
  <2>2. \A c \in Curves : curve'[c] = NoPoint
    BY <1>5, <2>1, LoseFacts, ClearFacts, CurveFacts
    DEF Clear1D, ClearDisp, CpIInv
  <2>3. vec'[Zero].size = 0
    BY <1>5, CurveFacts DEF Clear1D, ClearDisp, ShownInv, WholeInv, CpIInv, CpTypes, Empty
  <2>4. WholeInv' /\ ConvInv' /\ DispInv' /\ MapInv'
    BY <1>1, <1>2, <2>1, <2>2, <2>3, NothingFacts
    DEF WholeInv, ConvInv, DispInv, MapInv
  <2>. QED
    BY <1>3, <2>4 DEF ShownInv
<1>. QED
  BY <1>4, <1>5

\* The result of a step comes.
LEMMA ShownStore ==
  ASSUME CpIInv, ShownInv, Store PROVE ShownInv'
<1>1. /\ at = "loop" /\ calc.done < calc.n /\ touched' = touched
      /\ calc'.kind = calc.kind /\ calc'.live = calc.live /\ calc'.n = calc.n
      /\ calc'.done = calc.done + 1
      /\ at' = IF calc.live \/ calc'.done = calc.n THEN "show" ELSE "updated"
      /\ calc.done \in Nat /\ calc.n \in Nat
      /\ calc.kind \in {"1d", "2d", "disp"}
  BY DEF Store, CpIInv, CpTypes, Store1D, Store2D, StoreDisp
<1>2. at' \in {"show", "updated"} /\ ~Unshown
  BY <1>1 DEF Unshown
<1>3. KindInv' /\ TextInv'
  BY <1>1, <1>2 DEF ShownInv, KindInv, TextInv
<1>4. CASE Store2D
  <2>1. /\ calc.kind = "2d" /\ UNCHANGED <<vec, curve>>
        /\ map' = [map EXCEPT ![calc.done + 1] = "now"]
    BY <1>4 DEF Store2D
  <2>2. WholeInv' /\ ConvInv' /\ DispInv'
    BY <1>1, <1>2, <2>1 DEF ShownInv, WholeInv, ConvInv, DispInv, Unshown
  <2>3. MapInv'
    <3>1. /\ map \in [1 .. calc.n -> {"none", "before", "now"}]
          /\ \A i \in 1 .. calc.done : map[i] = "now"
      BY <1>1, <2>1 DEF ShownInv, MapInv
    <3>2. calc.done + 1 \in 1 .. calc.n
      BY <1>1
    <3>3. /\ map' \in [1 .. calc.n -> {"none", "before", "now"}]
          /\ \A i \in 1 .. calc.done + 1 : map'[i] = "now"
      BY <1>1, <2>1, <3>1, <3>2
    <3>. QED
      BY <1>1, <3>3 DEF MapInv
  <2>. QED
    BY <1>3, <2>2, <2>3 DEF ShownInv
<1>5. CASE Store1D
  <2>1. /\ calc.kind = "1d" /\ ~touched /\ vec[Conv].size = calc.done
        /\ vec[Conv].cap >= calc.n
    BY <1>1, <1>5 DEF Store1D, CpIInv, ResultInv, ShownInv, KindInv
  <2>2. ~Full(vec[Conv]) /\ curve' = curve /\ vec' = [vec EXCEPT ![Conv] = Push(vec[Conv])]
    BY <1>1, <1>5, <2>1 DEF Store1D, Full, CpIInv, CpTypes
  <2>3. vec'[Zero].size = 0 /\ vec'[Conv].size = calc.done + 1
    BY <2>1, <2>2, CurveFacts, PushFacts DEF ShownInv, WholeInv, CpIInv, CpTypes
  <2>4. \A c \in Curves \ {Conv, Scan} : curve[c] = NoPoint
    BY <2>1 DEF ShownInv, ConvInv
  <2>5. CASE at' = "show"
    <3>1. Unshown'
      BY <1>1, <2>1, <2>5 DEF Unshown
    <3>2. WholeInv' /\ DispInv' /\ MapInv'
      BY <1>1, <2>1, <2>3, <3>1 DEF WholeInv, DispInv, MapInv
    <3>3. ConvInv'
      BY <1>1, <2>1, <2>2, <2>3, <2>4, <2>5, <3>1 DEF ShownInv, ConvInv, AllDone
    <3>. QED
      BY <1>3, <3>2, <3>3 DEF ShownInv
  <2>6. CASE at' # "show"
    <3>1. ~calc.live /\ calc'.done # calc.n /\ calc'.done < calc.n
      BY <1>1, <2>6
    <3>2. \A c \in Curves : curve'[c] = NoPoint
      BY <1>1, <2>1, <2>2, <3>1 DEF ShownInv, ConvInv
    <3>3. ~AllDone'
      BY <1>1, <3>1 DEF AllDone
    <3>4. WholeInv' /\ DispInv' /\ MapInv' /\ ConvInv'
      BY <1>1, <2>1, <2>3, <3>2, <3>3, NothingFacts
      DEF WholeInv, DispInv, MapInv, ConvInv
    <3>. QED
      BY <1>3, <3>4 DEF ShownInv
  <2>. QED
    BY <2>5, <2>6
<1>6. CASE StoreDisp
  <2>1. PICK m \in 0 .. NBranches :
          /\ vec' = [v \in DlgVecs |-> IF v \in First(m) THEN Push(vec[v]) ELSE vec[v]]
          /\ curve' = Lose({v \in First(m) : Full(vec[v])}, curve)
    BY <1>6 DEF StoreDisp
  <2>. DEFINE V == {v \in First(m) : Full(vec[v])}
  <2>2. V \in SUBSET DlgVecs /\ V \subseteq BranchVectors
    BY CpAssumption DEF First, DlgVecs, BranchVectors
  <2>3. calc.kind = "disp" /\ ~touched
    BY <1>1, <1>6 DEF StoreDisp, ShownInv, KindInv
  <2>4. vec'[Zero].size = 0
    <3>1. Zero \notin First(m)
      BY DEF Zero, First
    <3>. QED
      BY <2>1, <3>1, CurveFacts DEF ShownInv, WholeInv
  <2>5. \A c \in Curves : curve[c] = NoPoint => curve'[c] = NoPoint
    BY <2>1, <2>2, LoseFacts DEF CpIInv
  <2>6. \A c \in Curves \ BranchVectors : curve'[c] = NoPoint
    BY <2>3, <2>5 DEF ShownInv, DispInv
  <2>7. CASE at' = "show"
    <3>1. Unshown'
      BY <1>1, <2>3, <2>7 DEF Unshown
    <3>. QED
      BY <1>1, <1>3, <2>3, <2>4, <2>6, <3>1 DEF ShownInv, WholeInv, DispInv, MapInv, ConvInv
  <2>8. CASE at' # "show"
    <3>1. ~calc.live /\ calc'.done # calc.n
      BY <1>1, <2>8
    <3>2. \A c \in Curves : curve'[c] = NoPoint
      BY <1>1, <2>3, <2>5, <2>6, <3>1 DEF CpIInv, ResultInv
    <3>3. ~AllDone'
      BY <1>1, <3>1 DEF AllDone
    <3>4. WholeInv' /\ DispInv' /\ MapInv' /\ ConvInv'
      BY <1>1, <2>3, <2>4, <3>2, <3>3, NothingFacts
      DEF WholeInv, DispInv, MapInv, ConvInv
    <3>. QED
      BY <1>3, <3>4 DEF ShownInv
  <2>. QED
    BY <2>7, <2>8
<1>. QED
  BY <1>4, <1>5, <1>6 DEF Store

\* A step is shown.
LEMMA ShownStep ==
  ASSUME CpIInv, ShownInv, ShowStep PROVE ShownInv'
<1>1. /\ at = "show" /\ at' = "update" /\ UNCHANGED <<calc, vec, map, text, touched>>
      /\ calc.live \/ calc.done = calc.n
      /\ calc.done \in Nat /\ calc.n \in Nat
      /\ calc.kind \in {"1d", "2d", "disp"}
  BY DEF ShowStep, CpIInv, WorkInv, CpTypes
<1>2. ~Unshown' /\ AllDone' = AllDone /\ \A c : Points(c)' = Points(c)
  BY <1>1 DEF Unshown, AllDone, Points
<1>3. KindInv' /\ TextInv' /\ MapInv'
  BY <1>1 DEF ShownInv, KindInv, TextInv, MapInv
<1>4. vec'[Zero].size = 0
  BY <1>1 DEF ShownInv, WholeInv
<1>5. ASSUME NEW c \in Curves, curve'[c] = Points(c) \/ curve'[c] = NoPoint
      PROVE  curve'[c].len = vec'[curve'[c].vec].size
  BY <1>1, <1>4, <1>5, PointsFacts, CurveFacts, NothingFacts DEF CpIInv
<1>6. CASE calc.kind = "2d"
  <2>1. curve' = curve /\ ~Unshown
    BY <1>6 DEF ShowStep, Unshown
  <2>2. WholeInv' /\ ConvInv' /\ DispInv'
    BY <1>1, <1>6, <2>1 DEF ShownInv, WholeInv, ConvInv, DispInv
  <2>. QED
    BY <1>3, <2>2 DEF ShownInv
<1>7. CASE calc.kind = "1d"
  <2>1. /\ curve'[Conv] = Points(Conv)
        /\ curve'[Scan] = IF calc.scan THEN Points(Scan) ELSE NoPoint
        /\ \A c \in Curves : c \notin {Conv, Scan} => curve'[c] = curve[c]
    BY <1>7, CurveFacts DEF ShowStep, CpIInv, CpTypes
  <2>2. ~touched /\ \A c \in Curves \ {Conv, Scan} : curve'[c] = NoPoint
    BY <1>1, <1>7, <2>1 DEF ShownInv, KindInv, ConvInv
  <2>3. WholeInv'
    BY <1>4, <1>5, <2>1, <2>2 DEF WholeInv
  <2>4. ConvInv'
    BY <1>1, <1>2, <1>7, <2>1, <2>2 DEF ShownInv, ConvInv
  <2>. QED
    BY <1>1, <1>3, <1>7, <2>3, <2>4 DEF ShownInv, DispInv
<1>8. CASE calc.kind = "disp"
  <2>1. \A c \in Curves : curve'[c] = IF c \in BranchVectors THEN Points(c) ELSE curve[c]
    BY <1>8 DEF ShowStep
  <2>2. ~touched /\ \A c \in Curves \ BranchVectors : curve'[c] = NoPoint
    BY <1>1, <1>8, <2>1 DEF ShownInv, KindInv, DispInv
  <2>3. WholeInv'
    BY <1>4, <1>5, <2>1, <2>2 DEF WholeInv
  <2>4. DispInv'
    BY <1>1, <1>2, <1>8, <2>1, <2>2 DEF DispInv
  <2>. QED
    BY <1>1, <1>3, <1>8, <2>3, <2>4 DEF ShownInv, ConvInv
<1>. QED
  BY <1>1, <1>6, <1>7, <1>8

-----------------------------------------------------------------------------
(* The theorems.                                                           *)

LEMMA CpInitInv == CpInit => CpIInv
<1>. SUFFICES ASSUME CpInit PROVE CpIInv
  OBVIOUS
<1>1. CpTypes
  BY CpAssumption, CurveFacts, NothingFacts DEF CpInit, CpTypes, Empty
<1>2. \A c \in Curves : curve[c] = NoPoint /\ Exists(c)
  BY <1>1, NothingExists DEF CpInit
<1>. QED
  BY <1>1, <1>2 DEF CpInit, CpIInv, WorkInv, UpdateInv, ResultInv, CurveInv, LoopInv

\* The inductive invariant holds in every reachable state.
THEOREM CpInvariance == CpSpec => []CpIInv
<1>1. CpIInv /\ [CpNext]_cpvars => CpIInv'
  <2>. SUFFICES ASSUME CpIInv, [CpNext]_cpvars PROVE CpIInv'
    OBVIOUS
  <2>1. CASE CpNext
    BY <2>1, TypesKept, UpdateStep, CurveStep, LoopStep DEF CpIInv
  <2>2. CASE UNCHANGED cpvars
    BY <2>2 DEF cpvars, CpIInv, CpTypes, WorkInv, UpdateInv, Updating, ResultInv,
                CurveInv, LoopInv, Exists
  <2>. QED
    BY <2>1, <2>2
<1>. QED
  BY <1>1, CpInitInv, PTL DEF CpSpec

\* A curve of the plot shows elements that exist (qwthelper.cpp, set_qwt_data),
\* but for the two cases that DrawnExists names.
THEOREM CurvesExistent == CpSpec => []DrawnExists
<1>1. CpIInv => DrawnExists
  BY DEF CpIInv, CurveInv, DrawnExists
<1>. QED
  BY <1>1, CpInvariance, PTL

\* The titles that a worker posts to a plot are set before the GUI thread enters
\* an event loop with the plot's mutex, by doUpdate, which the worker waits for
\* (Start1D), or by SavePlot, which the menu offers once it is enabled again:
\* it locks no mutex that it holds, unless a key in a plot goes past the menu.
THEOREM NeverRelocks == CpSpec => []NoRelock
<1>1. CpIInv => NoRelock
  BY DEF CpIInv, LoopInv, NoRelock
<1>. QED
  BY <1>1, CpInvariance, PTL

\* The second invariant holds in every reachable state.
LEMMA ShownInvariance == CpSpec => []ShownInv
<1>1. CpInit => ShownInv
  BY NothingFacts, CurveFacts
  DEF CpInit, ShownInv, KindInv, WholeInv, TextInv, AllDone, ConvInv, DispInv, MapInv, Empty
<1>2. CpIInv /\ ShownInv /\ [CpNext]_cpvars => ShownInv'
  <2>. SUFFICES ASSUME CpIInv, ShownInv, [CpNext]_cpvars PROVE ShownInv'
    OBVIOUS
  <2>1. CASE \/ ChangeSteps \/ Wrote \/ SetAxisTitle \/ Update \/ Updated \/ SetText
             \/ PostTitles \/ NoSetup \/ Drawn \/ EndCalc \/ UNCHANGED cpvars
             \/ \E p \in Plots : SavePlot(p) \/ PressKey(p)
    BY <2>1, ShownQuiet
  <2>2. CASE ScaleChanged \/ ReadScan
    BY <2>2, ShownTouched
  <2>3. CASE \E kind \in {"1d", "2d", "disp"}, live, scan \in BOOLEAN :
               StartCalc(kind, live, scan)
    BY <2>3, ShownStart
  <2>4. CASE Clear1D \/ ClearDisp \/ Clear2D
    BY <2>4, ShownCleared
  <2>5. CASE Store
    BY <2>5, ShownStore
  <2>6. CASE ShowStep
    BY <2>6, ShownStep
  <2>. QED
    BY <2>1, <2>2, <2>3, <2>4, <2>5, <2>6 DEF CpNext
<1>. QED
  BY <1>1, <1>2, CpInvariance, PTL DEF CpSpec

\* When the dialog can be used again after a calculation that was not stopped,
\* all its steps are in the curves or the map and the text ends with "EOF",
\* whether they were plotted live or not, and whatever was calculated before
\* (Start1D, Start2D, StartDisp).
THEOREM ResultsShown == CpSpec => []ResultShown
<1>1. CpIInv /\ ShownInv => ResultShown
  <2>. SUFFICES ASSUME CpIInv, ShownInv, Usable, ~touched
                PROVE  /\ \A c \in Curves : curve[c].len = vec[curve[c].vec].size
                       /\ AllDone =>
                            /\ text = [lines |-> calc.n, eof |-> TRUE]
                            /\ calc.kind = "1d" =>
                                 curve = [ClearPlot1D EXCEPT ![Conv] = Points(Conv),
                                            ![Scan] = IF calc.scan THEN Points(Scan) ELSE NoPoint]
                                 /\ curve[Conv].len = calc.n
                            /\ calc.kind = "disp" =>
                                 curve = [c \in Curves |->
                                            IF c \in BranchVectors THEN Points(c) ELSE NoPoint]
                            /\ calc.kind = "2d" => map = [i \in 1 .. calc.n |-> "now"]
    BY DEF ResultShown, AllDone
  <2>1. at = "idle" /\ ~Unshown
    BY DEF Usable, Unshown
  <2>2. \A c \in Curves : curve[c].len = vec[curve[c].vec].size
    BY <2>1 DEF ShownInv, WholeInv
  <2>3. curve = [c \in Curves |-> curve[c]]
    BY DEF CpIInv, CpTypes
  <2>4. ASSUME AllDone PROVE text = [lines |-> calc.n, eof |-> TRUE]
    BY <2>1, <2>4 DEF ShownInv, TextInv
  <2>5. ASSUME AllDone, calc.kind = "1d"
        PROVE  curve = [ClearPlot1D EXCEPT ![Conv] = Points(Conv),
                          ![Scan] = IF calc.scan THEN Points(Scan) ELSE NoPoint]
               /\ curve[Conv].len = calc.n
    <3>1. /\ curve[Conv] = Points(Conv) /\ vec[Conv].size = calc.n
          /\ curve[Scan] = IF calc.scan THEN Points(Scan) ELSE NoPoint
          /\ \A c \in Curves \ {Conv, Scan} : curve[c] = NoPoint
      BY <2>1, <2>5 DEF ShownInv, ConvInv
    <3>2. curve[Conv].len = calc.n
      BY <3>1, PointsFacts, CurveFacts DEF CpIInv
    <3>. QED
      BY <2>3, <3>1, <3>2, CurveFacts DEF ClearPlot1D
  <2>6. ASSUME AllDone, calc.kind = "disp"
        PROVE  curve = [c \in Curves |-> IF c \in BranchVectors THEN Points(c) ELSE NoPoint]
    BY <2>1, <2>3, <2>6 DEF ShownInv, DispInv
  <2>7. ASSUME AllDone, calc.kind = "2d" PROVE map = [i \in 1 .. calc.n |-> "now"]
    <3>1. calc.done = calc.n /\ calc.done > 0
      BY <2>7 DEF AllDone, ShownInv, KindInv
    <3>. QED
      BY <2>7, <3>1 DEF ShownInv, MapInv
  <2>. QED
    BY <2>2, <2>4, <2>5, <2>6, <2>7
<1>. QED
  BY <1>1, CpInvariance, ShownInvariance, PTL

-----------------------------------------------------------------------------
(* convofit: jobs find their job file and keep to their directory if there *)
(* is only one directory, or one thread and absolute names; and no job     *)
(* logs to another one's file if none returns early.                       *)

LEMMA JobsInitInv == JobsInit => JobsIInv
<1> SUFFICES ASSUME JobsInit PROVE JobsIInv
  OBVIOUS
<1> USE DEF JobsInit
<1>1. JobsTypeOK
  BY JobsAssumption DEF JobsTypeOK, Labels, Jobs, NoJob
<1>2. JobsInv /\ LogsInv
  BY DEF JobsInv, LogsInv
<1>3. OwnDirectory /\ JobFileFound /\ DirectoryInv /\ cwd = StartDir
  BY DEF OwnDirectory, JobFileFound, DirectoryInv
<1> QED
  BY <1>1, <1>2, <1>3 DEF JobsIInv

\* With one directory, or one thread and absolute names, a job's name leads to
\* its directory.
LEMMA LookupFinds ==
  ASSUME JobsIInv, OneDirectory, NEW j \in Jobs
  PROVE  Lookup(j) = DirOf[j]
  BY DEF JobsIInv, OneDirectory, Lookup

LEMMA JobsTypeStep == JobsTypeOK /\ [JobsNext]_jobsvars => JobsTypeOK'
<1> SUFFICES ASSUME JobsTypeOK, [JobsNext]_jobsvars PROVE JobsTypeOK'
  OBVIOUS
<1> USE DEF JobsTypeOK, Goto, Return, Opens
<1>1. CASE UNCHANGED jobsvars
  BY <1>1 DEF jobsvars
<1>2. CASE AllReturned
  BY <1>2 DEF AllReturned, jobsvars
<1>3. ASSUME NEW t \in Threads, Step(t) PROVE JobsTypeOK'
  <2> USE DEF Labels
  <2>1. CASE TakeJob(t)
    BY <2>1, JobsAssumption DEF TakeJob, Jobs
  <2>2. CASE CompletePath(t)
    <3>1. \A j \in Jobs : Lookup(j) \in Dirs \cup {Nowhere}
      BY JobsAssumption DEF Lookup
    <3> QED
      BY <2>2, <3>1 DEF CompletePath
  <2>3. CASE ComparePaths(t)
    BY <2>3 DEF ComparePaths
  <2>4. CASE ChangeDir(t)
    BY <2>4 DEF ChangeDir
  <2>5. CASE ChangeDirThrows(t) \/ LoadJobFails(t) \/ ReturnEarly(t) \/ Finish(t)
    BY <2>5 DEF ChangeDirThrows, LoadJobFails, ReturnEarly, Finish
  <2>6. CASE LoadJob(t)
    <3>1. \A j \in Jobs : Lookup(j) \in Dirs \cup {Nowhere}
      BY JobsAssumption DEF Lookup
    <3> QED
      BY <2>6, <3>1 DEF LoadJob
  <2>7. CASE OpenLog(t)
    BY <2>7 DEF OpenLog
  <2>8. CASE LoadData(t) \/ Save(t)
    BY <2>8 DEF LoadData, Save
  <2> QED
    BY <1>3, <2>1, <2>2, <2>3, <2>4, <2>5, <2>6, <2>7, <2>8 DEF Step
<1> QED
  BY <1>1, <1>2, <1>3 DEF JobsNext

\* The thread t runs its job on, or returns from it.
RunsOn(t) ==
  /\ job[t] \in Jobs
  /\ \E label \in Labels \ {"listed"} : Goto(job[t], label)
  /\ nextJob' = nextJob
  /\ job' = job \/ job' = [job EXCEPT ![t] = NoJob]

LEMMA StepRuns ==
  ASSUME NEW t \in Threads, Step(t)
  PROVE  TakeJob(t) \/ RunsOn(t)
<1> USE DEF RunsOn, Goto, Labels
<1>1. CASE ComparePaths(t)
  BY <1>1 DEF ComparePaths
<1>2. CASE CompletePath(t) \/ ChangeDir(t) \/ LoadJob(t)
  BY <1>2 DEF CompletePath, ChangeDir, LoadJob
<1>3. CASE ChangeDirThrows(t) \/ LoadJobFails(t) \/ ReturnEarly(t) \/ Finish(t)
  BY <1>3 DEF ChangeDirThrows, LoadJobFails, ReturnEarly, Finish, Return
<1>4. CASE OpenLog(t) \/ LoadData(t) \/ Save(t)
  BY <1>4 DEF OpenLog, LoadData, Save
<1> QED
  BY <1>1, <1>2, <1>3, <1>4 DEF Step

LEMMA JobsStep ==
  ASSUME JobsTypeOK, JobsInv, NEW t \in Threads, Step(t)
  PROVE  JobsInv'
<1> USE DEF JobsTypeOK, JobsInv, Goto
<1>1. CASE TakeJob(t)
  BY <1>1, JobsAssumption DEF TakeJob, Jobs, NoJob
<1>2. CASE RunsOn(t)
  BY <1>2 DEF RunsOn, Jobs, NoJob
<1> QED
  BY <1>1, <1>2, StepRuns

LEMMA LogsStep ==
  ASSUME JobsTypeOK, JobsInv, LogsInv, ~JobsMayFail, NEW t \in Threads, Step(t)
  PROVE  LogsInv'
<1> USE DEF JobsTypeOK, JobsInv, LogsInv, Goto, Return
<1>1. CASE TakeJob(t)
  BY <1>1 DEF TakeJob, Jobs, NoJob
<1>2. CASE CompletePath(t) \/ ComparePaths(t) \/ ChangeDir(t) \/ LoadJob(t)
  <2>1. CASE CompletePath(t)
    BY <2>1 DEF CompletePath, Jobs, NoJob
  <2>2. CASE ComparePaths(t)
    BY <2>2 DEF ComparePaths, Jobs, NoJob
  <2>3. CASE ChangeDir(t)
    BY <2>3 DEF ChangeDir, Jobs, NoJob
  <2>4. CASE LoadJob(t)
    BY <2>4 DEF LoadJob, Jobs, NoJob
  <2> QED
    BY <1>2, <2>1, <2>2, <2>3, <2>4
<1>3. CASE ChangeDirThrows(t) \/ LoadJobFails(t) \/ ReturnEarly(t)
  <2>1. CASE ChangeDirThrows(t)
    BY <2>1 DEF ChangeDirThrows, Jobs, NoJob
  <2>2. CASE LoadJobFails(t)
    BY <2>2 DEF LoadJobFails, Jobs, NoJob
  <2>3. CASE ReturnEarly(t)
    BY <2>3 DEF ReturnEarly, Jobs, NoJob
  <2> QED
    BY <1>3, <2>1, <2>2, <2>3
<1>4. CASE OpenLog(t)
  BY <1>4 DEF OpenLog, Jobs, NoJob
<1>5. CASE LoadData(t) \/ Save(t)
  <2>1. CASE LoadData(t)
    BY <2>1 DEF LoadData, Jobs, NoJob
  <2>2. CASE Save(t)
    BY <2>2 DEF Save, Jobs, NoJob
  <2> QED
    BY <1>5, <2>1, <2>2
<1>6. CASE Finish(t)
  BY <1>6 DEF Finish, Jobs, NoJob
<1> QED
  BY <1>1, <1>2, <1>3, <1>4, <1>5, <1>6 DEF Step

\* What IInv says of the directories.
Placed ==
  /\ OwnDirectory /\ JobFileFound /\ DirectoryInv
  /\ (\A j \in Jobs : DirOf[j] = StartDir) => cwd = StartDir

LEMMA PlacedStep ==
  ASSUME JobsIInv, OneDirectory, NEW t \in Threads, Step(t)
  PROVE  Placed'
<1> USE DEF JobsIInv, JobsTypeOK, JobsInv, OwnDirectory, JobFileFound, DirectoryInv,
            Placed, Goto, Opens, Return
<1>1. CASE TakeJob(t)
  BY <1>1 DEF TakeJob, Jobs, NoJob
<1>2. CASE CompletePath(t)
  BY <1>2, LookupFinds DEF CompletePath, Jobs, NoJob
<1>3. CASE ComparePaths(t)
  BY <1>3 DEF ComparePaths, Jobs, NoJob
<1>4. CASE ChangeDir(t)
  BY <1>4 DEF ChangeDir, OneDirectory, Jobs, NoJob
<1>5. CASE ChangeDirThrows(t) \/ LoadJobFails(t) \/ ReturnEarly(t) \/ Finish(t)
  <2>1. CASE ChangeDirThrows(t)
    BY <2>1 DEF ChangeDirThrows, Jobs, NoJob
  <2>2. CASE LoadJobFails(t)
    BY <2>2 DEF LoadJobFails, Jobs, NoJob
  <2>3. CASE ReturnEarly(t)
    BY <2>3 DEF ReturnEarly, Jobs, NoJob
  <2>4. CASE Finish(t)
    BY <2>4 DEF Finish, Jobs, NoJob
  <2> QED
    BY <1>5, <2>1, <2>2, <2>3, <2>4
<1>6. CASE LoadJob(t)
  BY <1>6, LookupFinds DEF LoadJob, Jobs, NoJob
<1>7. CASE OpenLog(t)
  BY <1>7 DEF OpenLog, Jobs, NoJob
<1>8. CASE LoadData(t) \/ Save(t)
  <2>1. CASE LoadData(t)
    BY <2>1 DEF LoadData, Jobs, NoJob
  <2>2. CASE Save(t)
    BY <2>2 DEF Save, Jobs, NoJob
  <2> QED
    BY <1>8, <2>1, <2>2
<1> QED
  BY <1>1, <1>2, <1>3, <1>4, <1>5, <1>6, <1>7, <1>8 DEF Step

LEMMA JobsInductive == JobsIInv /\ [JobsNext]_jobsvars => JobsIInv'
<1> SUFFICES ASSUME JobsIInv, [JobsNext]_jobsvars PROVE JobsIInv'
  OBVIOUS
<1>1. JobsTypeOK /\ JobsTypeOK'
  BY JobsTypeStep DEF JobsIInv
<1>2. CASE UNCHANGED jobsvars
  BY <1>2 DEF jobsvars, JobsIInv, JobsTypeOK, JobsInv, LogsInv, OneDirectory,
              OwnDirectory, JobFileFound, DirectoryInv
<1>3. ASSUME NEW t \in Threads, Step(t) PROVE JobsIInv'
  <2>1. JobsInv'
    BY <1>1, <1>3, JobsStep DEF JobsIInv
  <2>2. ~JobsMayFail => LogsInv'
    BY <1>1, <1>3, LogsStep DEF JobsIInv
  <2>3. OneDirectory => Placed'
    BY <1>3, PlacedStep
  <2> QED
    BY <1>1, <2>1, <2>2, <2>3 DEF JobsIInv, Placed, OneDirectory
<1> QED
  BY <1>2, <1>3 DEF JobsNext, AllReturned

\* For any number of jobs and threads the invariant holds in every reachable
\* state.
THEOREM JobsInvariance == JobsSpec => []JobsIInv
  BY JobsInitInv, JobsInductive, PTL DEF JobsSpec

\* Every variable keeps its type.
THEOREM JobsTypeCorrect == JobsSpec => []JobsTypeOK
<1>1. JobsIInv => JobsTypeOK
  BY DEF JobsIInv
<1> QED
  BY <1>1, JobsInvariance, PTL

\* With one directory, or with one thread and absolute names, jobs find their
\* job file and the files next to it.
THEOREM JobsDirectories ==
  ASSUME OneDirectory PROVE JobsSpec => [](OwnDirectory /\ JobFileFound)
<1>1. JobsIInv => OwnDirectory /\ JobFileFound
  BY DEF JobsIInv
<1> QED
  BY <1>1, JobsInvariance, PTL

\* If no job returns early, no thread logs to the file of an earlier job.
THEOREM Logs == ASSUME ~JobsMayFail PROVE JobsSpec => []OwnLog
<1>1. JobsIInv => OwnLog
  BY DEF JobsIInv, LogsInv, OwnLog
<1> QED
  BY <1>1, JobsInvariance, PTL

-----------------------------------------------------------------------------
(* The connection: a new poller starts only when the one before has ended, *)
(* and a connection that is given up leaves the crystal as it was.         *)

\* The initial states satisfy the invariant.
LEMMA NetInitInv == NetInit => NetIInv
<1>. SUFFICES ASSUME NetInit PROVE NetIInv
  OBVIOUS
<1>. USE ConnAssumption DEF NetInit, None
<1>1. NetTypeOK
  <2>1. FlagsOK
    BY DEF FlagsOK
  <2>. QED
    BY <2>1 DEF NetTypeOK, Systems, Afterwards, Conns
<1>2. CacheInv /\ HastyInv
  BY DEF CacheInv, HastyInv, Closing
<1>3. PollerInv
  BY DEF PollerInv
<1>4. EventsInv
  BY DEF EventsInv
<1>. QED
  BY <1>1, <1>2, <1>3, <1>4 DEF NetIInv

\* An event appended to a queue, and the first one taken from it.
LEMMA QueueFacts ==
  ASSUME NEW S, NEW q \in Seq(S), NEW e \in S
  PROVE  /\ Append(q, e) \in Seq(S)
         /\ Len(Append(q, e)) = Len(q) + 1
         /\ \A i \in 1 .. Len(q) : Append(q, e)[i] = q[i]
         /\ Append(q, e)[Len(q) + 1] = e
         /\ q # <<>> =>
              /\ Tail(q) \in Seq(S) /\ Len(Tail(q)) = Len(q) - 1
              /\ Len(q) >= 1 /\ Head(q) = q[1]
              /\ \A i \in 1 .. Len(q) - 1 : Tail(q)[i] = q[i + 1]
  OBVIOUS

\* An event of this connection keeps the types and EventsInv.
LEMMA EmitFacts ==
  ASSUME NetTypeOK, EventsInv, cache # None, NEW e \in {"connected", "disconnected"},
         Emit(e), tardy' = tardy, cache' = cache
  PROVE  events' \in Seq(Events) /\ EventsInv'
<1>1. [ev |-> e, conn |-> cache] \in Events
  BY DEF NetTypeOK, Events, None
<1>2. events \in Seq(Events)
  BY DEF NetTypeOK
<1>3. /\ events' \in Seq(Events) /\ Len(events') = Len(events) + 1
      /\ \A i \in 1 .. Len(events) : events'[i] = events[i]
      /\ events'[Len(events) + 1] = [ev |-> e, conn |-> cache]
  BY <1>1, <1>2, QueueFacts DEF Emit
<1>4. ASSUME NEW i \in 1 .. Len(events'), events'[i].ev = "connected"
      PROVE  events'[i].conn = cache \/ tardy
  <2>1. CASE i \in 1 .. Len(events)
    BY <1>3, <1>4, <2>1 DEF EventsInv
  <2>2. CASE i = Len(events) + 1
    BY <1>3, <2>2
  <2>. QED
    BY <1>2, <1>3, <2>1, <2>2
<1>. QED
  BY <1>3, <1>4 DEF EventsInv

\* When the cache is deleted with a "connected" underway, tardy tells it.
LEMMA CloseFacts ==
  ASSUME NetTypeOK, EventsInv, tardy' = (tardy \/ ConnectedUnderway(cache)),
         events' = events
  PROVE  /\ EventsInv'
         /\ \A i \in 1 .. Len(events) : events[i].ev = "connected" => tardy'
<1>1. events \in Seq(Events)
  BY DEF NetTypeOK
<1>2. ASSUME NEW i \in 1 .. Len(events), events[i].ev = "connected"
      PROVE  tardy'
  <2>1. events[i] \in Events
    BY <1>1
  <2>2. CASE events[i].conn = cache
    <3>1. events[i] = [ev |-> "connected", conn |-> cache]
      BY <1>2, <2>1, <2>2 DEF Events
    <3>. QED
      BY <3>1 DEF ConnectedUnderway
  <2>. QED
    BY <1>2, <2>2 DEF EventsInv
<1>. QED
  BY <1>2 DEF EventsInv

\* Each step of the GUI thread keeps the invariant.
LEMMA GuiKeeps == NetIInv /\ GuiStep => NetIInv'
<1>. SUFFICES ASSUME NetIInv, GuiStep PROVE NetIInv'
  OBVIOUS
<1>. USE ConnAssumption
     DEF NetIInv, Closing, None, Systems, Afterwards, FirstStep, pollvars,
         winvars
<1>1. CASE ClearActive
  <2>1. events' \in Seq(Events) /\ EventsInv'
    BY <1>1 DEF ClearActive, EventsInv, NetTypeOK
  <2>2. NetTypeOK'
    <3>1. FlagsOK'
      BY <1>1 DEF ClearActive, NetTypeOK, FlagsOK
    <3>. QED
      BY <1>1, <2>1, <3>1 DEF ClearActive, NetTypeOK, CacheInv, Conns
  <2>3. CacheInv'
    BY <1>1 DEF ClearActive, NetTypeOK, CacheInv, PollerInv
  <2>4. PollerInv'
    BY <1>1 DEF ClearActive, NetTypeOK, CacheInv, PollerInv
  <2>5. HastyInv'
    BY <1>1 DEF ClearActive, CacheInv, PollerInv, HastyInv
  <2>. QED
    BY <2>1, <2>2, <2>3, <2>4, <2>5 DEF NetIInv
<1>2. CASE JoinPoller
  <2>1. events' \in Seq(Events) /\ EventsInv'
    BY <1>2 DEF JoinPoller, EventsInv, NetTypeOK
  <2>2. NetTypeOK'
    <3>1. FlagsOK'
      BY <1>2 DEF JoinPoller, NetTypeOK, FlagsOK
    <3>. QED
      BY <1>2, <2>1, <3>1 DEF JoinPoller, NetTypeOK, CacheInv, Conns
  <2>3. CacheInv'
    BY <1>2 DEF JoinPoller, NetTypeOK, CacheInv, PollerInv
  <2>4. PollerInv'
    BY <1>2 DEF JoinPoller, NetTypeOK, CacheInv, PollerInv
  <2>5. HastyInv'
    BY <1>2 DEF JoinPoller, CacheInv, PollerInv, HastyInv
  <2>. QED
    BY <2>1, <2>2, <2>3, <2>4, <2>5 DEF NetIInv
<1>3. CASE DeletePoller
  <2>1. events' \in Seq(Events) /\ EventsInv'
    BY <1>3 DEF DeletePoller, EventsInv, NetTypeOK
  <2>2. NetTypeOK'
    <3>1. FlagsOK'
      BY <1>3 DEF DeletePoller, NetTypeOK, FlagsOK
    <3>. QED
      BY <1>3, <2>1, <3>1 DEF DeletePoller, NetTypeOK, CacheInv, Conns
  <2>3. CacheInv'
    BY <1>3 DEF DeletePoller, NetTypeOK, CacheInv, PollerInv
  <2>4. PollerInv'
    BY <1>3 DEF DeletePoller, NetTypeOK, CacheInv, PollerInv
  <2>5. HastyInv'
    BY <1>3 DEF DeletePoller, CacheInv, PollerInv, HastyInv
  <2>. QED
    BY <2>1, <2>2, <2>3, <2>4, <2>5 DEF NetIInv
<1>4. CASE CloseTcp
  <2>1. events' \in Seq(Events) /\ EventsInv'
    BY <1>4, CloseFacts DEF CloseTcp, NetTypeOK
  <2>2. NetTypeOK'
    <3>1. FlagsOK'
      BY <1>4 DEF CloseTcp, NetTypeOK, FlagsOK
    <3>. QED
      BY <1>4, <2>1, <3>1 DEF CloseTcp, NetTypeOK, CacheInv, Conns
  <2>3. CacheInv'
    BY <1>4 DEF CloseTcp, NetTypeOK, CacheInv, PollerInv
  <2>4. PollerInv'
    <3>1. CASE round = 1
      BY <1>4, <3>1 DEF CloseTcp, NetTypeOK, CacheInv, PollerInv
    <3>2. CASE round = 2
      <4>1. poller = None /\ threads = {}
        BY <1>4, <3>2 DEF CloseTcp, NetTypeOK, PollerInv, Conns
      <4>. QED
        BY <1>4, <3>2, <4>1 DEF CloseTcp, NetTypeOK, PollerInv
    <3>. QED
      BY <3>1, <3>2 DEF NetTypeOK
  <2>5. HastyInv'
    BY <1>4 DEF CloseTcp, CacheInv, PollerInv, HastyInv
  <2>. QED
    BY <2>1, <2>2, <2>3, <2>4, <2>5 DEF NetIInv
<1>5. CASE FinishLoad \/ FinishNew \/ FinishDisconnect
  <2>1. events' \in Seq(Events) /\ EventsInv'
    BY <1>5 DEF FinishLoad, FinishNew, FinishDisconnect, EventsInv, NetTypeOK
  <2>2. NetTypeOK'
    <3>1. FlagsOK'
      BY <1>5 DEF FinishLoad, FinishNew, FinishDisconnect, NetTypeOK, FlagsOK
    <3>. QED
      BY <1>5, <2>1, <3>1
         DEF FinishLoad, FinishNew, FinishDisconnect, NetTypeOK, CacheInv,
             Conns
  <2>3. CacheInv'
    BY <1>5
       DEF FinishLoad, FinishNew, FinishDisconnect, NetTypeOK, CacheInv,
           PollerInv
  <2>4. PollerInv'
    <3>1. main' = "loop" /\ UNCHANGED <<sys, poller, tcp, cache, threads, joined>>
      BY <1>5 DEF FinishLoad, FinishNew, FinishDisconnect
    <3>. QED
      BY <3>1 DEF PollerInv
  <2>5. HastyInv'
    BY <1>5
       DEF FinishLoad, FinishNew, FinishDisconnect, CacheInv, PollerInv,
           HastyInv
  <2>. QED
    BY <2>1, <2>2, <2>3, <2>4, <2>5 DEF NetIInv
<1>6. CASE Open
  <2>1. events' \in Seq(Events) /\ EventsInv'
    <3>1. cache = None /\ events' = events /\ tardy' = tardy
      BY <1>6 DEF Open, CacheInv
    <3>2. \A i \in 1 .. Len(events) : events[i].conn # None
      <4>1. \A i \in 1 .. Len(events) : events[i] \in Events
        BY DEF NetTypeOK
      <4>. QED
        BY <4>1 DEF Events, Conns, None
    <3>. QED
      BY <3>1, <3>2 DEF EventsInv, NetTypeOK
  <2>2. NetTypeOK'
    <3>1. FlagsOK'
      BY <1>6 DEF Open, NetTypeOK, FlagsOK
    <3>. QED
      BY <1>6, <2>1, <3>1 DEF Open, NetTypeOK, CacheInv, Conns
  <2>3. CacheInv'
    BY <1>6 DEF Open, NetTypeOK, CacheInv, PollerInv
  <2>4. PollerInv'
    BY <1>6 DEF Open, NetTypeOK, CacheInv, PollerInv
  <2>5. HastyInv'
    BY <1>6 DEF Open, CacheInv, PollerInv, HastyInv
  <2>. QED
    BY <2>1, <2>2, <2>3, <2>4, <2>5 DEF NetIInv
<1>7. CASE Deliver
  <2>1. events' \in Seq(Events) /\ EventsInv'
    <3>1. /\ events \in Seq(Events) /\ events # <<>> /\ events' = Tail(events)
          /\ cache' = cache /\ tardy' = tardy
      BY <1>7 DEF Deliver, guivars, NetTypeOK
    <3>2. events[1] \in Events
      BY <3>1
    <3>3. /\ events' \in Seq(Events) /\ Len(events') = Len(events) - 1
          /\ \A i \in 1 .. Len(events) - 1 : events'[i] = events[i + 1]
      BY <3>1, <3>2, QueueFacts
    <3>. QED
      BY <3>1, <3>3 DEF EventsInv
  <2>2. NetTypeOK'
    <3>1. FlagsOK'
      BY <1>7 DEF Deliver, guivars, NetTypeOK, FlagsOK
    <3>. QED
      BY <1>7, <2>1, <3>1 DEF Deliver, guivars, NetTypeOK, CacheInv, Conns
  <2>3. CacheInv'
    BY <1>7 DEF Deliver, guivars, NetTypeOK, CacheInv, PollerInv
  <2>4. PollerInv'
    BY <1>7 DEF Deliver, guivars, NetTypeOK, CacheInv, PollerInv
  <2>5. HastyInv'
    BY <1>7 DEF Deliver, guivars, CacheInv, PollerInv, HastyInv
  <2>. QED
    BY <2>1, <2>2, <2>3, <2>4, <2>5 DEF NetIInv
<1>. QED
  BY <1>1, <1>2, <1>3, <1>4, <1>5, <1>6, <1>7 DEF GuiStep

\* The user begins a command.
LEMMA UserKeeps ==
  ASSUME NetIInv, NEW what \in Afterwards, Disconnect(what) PROVE NetIInv'
<1>. USE ConnAssumption
     DEF NetIInv, Closing, None, Systems, FirstStep, pollvars, winvars,
         Disconnect
<1>1. NetTypeOK'
  <2>1. FlagsOK'
    BY DEF NetTypeOK, FlagsOK
  <2>. QED
    BY <2>1 DEF NetTypeOK, Conns
<1>2. CacheInv'
  BY DEF NetTypeOK, CacheInv, PollerInv
<1>3. PollerInv'
  BY DEF NetTypeOK, CacheInv, PollerInv
<1>4. HastyInv'
  BY DEF CacheInv, PollerInv, HastyInv
<1>5. EventsInv'
  BY DEF EventsInv
<1>. QED
  BY <1>1, <1>2, <1>3, <1>4, <1>5

\* The client's and the polling thread keep the invariant.
LEMMA ThreadsKeep ==
  NetIInv /\ (ClientStep \/ \E t \in Conns : PollerEnds(t)) => NetIInv'
<1>. SUFFICES ASSUME NetIInv, ClientStep \/ \E t \in Conns : PollerEnds(t)
              PROVE  NetIInv'
  OBVIOUS
<1>. USE DEF NetIInv, Closing, None, Systems, guivars, pollvars, winvars
<1>1. CASE Connected
  <2>1. events' \in Seq(Events) /\ EventsInv'
    <3>1. CASE sys = "sics"
      BY <1>1, <3>1 DEF Connected, EventsInv, NetTypeOK
    <3>2. CASE sys # "sics"
      <4>1. cache # None
        BY <1>1 DEF Connected, CacheInv
      <4>. QED
        BY <1>1, <3>2, <4>1, EmitFacts DEF Connected
    <3>. QED
      BY <3>1, <3>2
  <2>2. NetTypeOK'
    <3>1. FlagsOK'
      BY <1>1 DEF Connected, NetTypeOK, FlagsOK
    <3>. QED
      BY <1>1, <2>1, <3>1 DEF Connected, NetTypeOK, CacheInv, Conns
  <2>3. CacheInv'
    BY <1>1 DEF Connected, NetTypeOK, CacheInv, PollerInv
  <2>4. PollerInv'
    BY <1>1 DEF Connected, NetTypeOK, CacheInv, PollerInv
  <2>5. HastyInv'
    BY <1>1 DEF Connected, CacheInv, PollerInv, HastyInv
  <2>. QED
    BY <2>1, <2>2, <2>3, <2>4, <2>5 DEF NetIInv
<1>2. CASE StartPoller
  <2>1. events' \in Seq(Events) /\ EventsInv'
    <3>1. cache # None
      BY <1>2 DEF StartPoller, CacheInv
    <3>. QED
      BY <1>2, <3>1, EmitFacts DEF StartPoller
  <2>2. NetTypeOK'
    <3>1. FlagsOK'
      BY <1>2 DEF StartPoller, NetTypeOK, FlagsOK
    <3>. QED
      BY <1>2, <2>1, <3>1 DEF StartPoller, NetTypeOK, CacheInv, Conns
  <2>3. CacheInv'
    BY <1>2 DEF StartPoller, NetTypeOK, CacheInv, PollerInv
  <2>4. PollerInv'
    <3>1. threads \subseteq {cache} /\ sys # "nicos" /\ poller' = cache
      BY <1>2 DEF StartPoller, NetTypeOK, PollerInv, Conns
    <3>2. threads' = threads \union {cache} /\ ~joined' /\ tcp # "off"
      BY <1>2 DEF StartPoller
    <3>. QED
      BY <1>2, <3>1, <3>2 DEF StartPoller, CacheInv, PollerInv
  <2>5. HastyInv'
    BY <1>2 DEF StartPoller, CacheInv, PollerInv, HastyInv
  <2>. QED
    BY <2>1, <2>2, <2>3, <2>4, <2>5 DEF NetIInv
<1>3. CASE ConnectFails
  <2>1. events' \in Seq(Events) /\ EventsInv'
    BY <1>3 DEF ConnectFails, EventsInv, NetTypeOK
  <2>2. NetTypeOK'
    <3>1. FlagsOK'
      BY <1>3 DEF ConnectFails, NetTypeOK, FlagsOK
    <3>. QED
      BY <1>3, <2>1, <3>1 DEF ConnectFails, NetTypeOK, CacheInv, Conns
  <2>3. CacheInv'
    BY <1>3 DEF ConnectFails, NetTypeOK, CacheInv, PollerInv
  <2>4. PollerInv'
    BY <1>3 DEF ConnectFails, NetTypeOK, CacheInv, PollerInv
  <2>5. HastyInv'
    BY <1>3 DEF ConnectFails, CacheInv, PollerInv, HastyInv
  <2>. QED
    BY <2>1, <2>2, <2>3, <2>4, <2>5 DEF NetIInv
<1>4. CASE Lost
  <2>1. events' \in Seq(Events) /\ EventsInv'
    <3>1. cache # None
      BY <1>4 DEF Lost, CacheInv
    <3>. QED
      BY <1>4, <3>1, EmitFacts DEF Lost
  <2>2. NetTypeOK'
    <3>1. FlagsOK'
      BY <1>4 DEF Lost, NetTypeOK, FlagsOK
    <3>. QED
      BY <1>4, <2>1, <3>1 DEF Lost, NetTypeOK, CacheInv, Conns
  <2>3. CacheInv'
    BY <1>4 DEF Lost, NetTypeOK, CacheInv, PollerInv
  <2>4. PollerInv'
    BY <1>4 DEF Lost, NetTypeOK, CacheInv, PollerInv
  <2>5. HastyInv'
    BY <1>4 DEF Lost, CacheInv, PollerInv, HastyInv
  <2>. QED
    BY <2>1, <2>2, <2>3, <2>4, <2>5 DEF NetIInv
<1>5. ASSUME NEW t \in Conns, PollerEnds(t) PROVE NetIInv'
  <2>. USE <1>5 DEF PollerEnds
  <2>1. NetTypeOK'
    <3>1. FlagsOK'
      BY DEF NetTypeOK, FlagsOK
    <3>. QED
      BY <3>1 DEF NetTypeOK
  <2>2. CacheInv' /\ HastyInv'
    BY DEF CacheInv, HastyInv
  <2>3. PollerInv'
    BY DEF PollerInv
  <2>4. EventsInv'
    BY DEF EventsInv
  <2>. QED
    BY <2>1, <2>2, <2>3, <2>4
<1>. QED
  BY <1>1, <1>2, <1>3, <1>4, <1>5 DEF ClientStep

\* The inductive invariant holds in every reachable state.
THEOREM NetInvariance == NetSpec => []NetIInv
<1>1. NetIInv /\ [NetNext]_netvars => NetIInv'
  <2>. SUFFICES ASSUME NetIInv, [NetNext]_netvars PROVE NetIInv'
    OBVIOUS
  <2>1. CASE UNCHANGED netvars
    BY <2>1 DEF netvars, guivars, pollvars, winvars, NetIInv, NetTypeOK,
       FlagsOK, CacheInv, PollerInv, HastyInv, EventsInv, Closing
  <2>. QED
    BY <2>1, GuiKeeps, UserKeeps, ThreadsKeep DEF NetNext, Ended
<1>. QED
  BY <1>1, NetInitInv, PTL DEF NetSpec

\* SicsCache::disconnect deletes the polling thread's object after the thread
\* has ended, and aborts only if a connection was given up half-way.
THEOREM PollerEnded == NetSpec => []PollerOwned
<1>1. NetIInv => PollerOwned
  BY DEF NetIInv, NetTypeOK, PollerInv, HastyInv, PollerOwned, Conns, None
<1>. QED
  BY <1>1, NetInvariance, PTL

\* The events of a connection that is gone do not take the crystal away, unless
\* its "connected" was still underway (TazDlg::Disconnect, Connected).
THEOREM CrystalStays == NetSpec => CrystalKept
<1>1. NetIInv /\ [NetNext]_netvars =>
        [doc = "file" /\ doc' = "empty"
           => \/ next = "new" /\ main = "closed"
              \/ Head(events).conn = cache
              \/ tardy]_netvars
  <2>. SUFFICES ASSUME NetIInv, NetNext, doc = "file", doc' = "empty"
                PROVE  \/ next = "new" /\ main = "closed"
                       \/ Head(events).conn = cache
                       \/ tardy
    OBVIOUS
  <2>1. CASE Deliver
    <3>1. events # <<>> /\ Head(events).ev = "connected"
      BY <2>1 DEF Deliver, winvars
    <3>2. Head(events) = events[1] /\ 1 \in 1 .. Len(events)
      BY <3>1 DEF NetIInv, NetTypeOK
    <3>. QED
      BY <3>1, <3>2 DEF NetIInv, EventsInv
  <2>2. CASE FinishNew
    BY <2>2 DEF FinishNew
  <2>3. CASE ClearActive \/ JoinPoller \/ DeletePoller \/ CloseTcp
             \/ FinishLoad \/ FinishDisconnect \/ Open
    BY <2>3 DEF ClearActive, JoinPoller, DeletePoller, CloseTcp, FinishLoad,
       FinishDisconnect, Open, winvars
  <2>4. CASE ClientStep
    BY <2>4 DEF ClientStep, Connected, StartPoller, ConnectFails, Lost, winvars
  <2>5. ASSUME NEW t \in Conns, PollerEnds(t) PROVE doc' = doc
    BY <2>5 DEF PollerEnds, winvars
  <2>6. ASSUME NEW what \in Afterwards, Disconnect(what) PROVE doc' = doc
    BY <2>6 DEF Disconnect, winvars
  <2>7. CASE Ended
    BY <2>7 DEF Ended, netvars, winvars
  <2>. QED
    BY <2>1, <2>2, <2>3, <2>4, <2>5, <2>6, <2>7 DEF NetNext, GuiStep
<1>. QED
  BY <1>1, NetInvariance, PTL DEF NetSpec, CrystalKept

-----------------------------------------------------------------------------
(* The 3D plotter: a view makes its picture call by call under another     *)
(* thread that draws, and what is drawn is complete, undisturbed and of    *)
(* the last size.                                                          *)

\* The initial states satisfy the invariant.
LEMMA GlInitInv == GlInit => GlIInv
  BY DEF GlInit, GlIInv, PictureInv, FrameInv, CountInv, SizeInv,
         PictureComplete, ResizeKept

-----------------------------------------------------------------------------
(* The picture.                                                            *)

\* Only the view changes the list of objects and what it should become.
LEMMA RenderKeepsPicture ==
  Render => UNCHANGED <<viewvars, objs, visible, renderActive, size>>
  BY DEF Render, StartRender, RenderLoop, ResizeGL, Tick, TestEnabled,
         SortObjects, DrawObject, EndFrame, Free, sizevars, framevars

\* Each call of a view brings the list one object nearer to the picture.
LEMMA PictureKept == PictureInv /\ [GlNext]_glvars => PictureInv'
<1>. SUFFICES ASSUME PictureInv, [GlNext]_glvars PROVE PictureInv'
  OBVIOUS
<1>. USE GlAssumption DEF PictureInv, viewvars
<1>1. CASE NewPicture
  BY <1>1 DEF NewPicture
<1>2. CASE MoveQ
  BY <1>2 DEF MoveQ
<1>3. CASE ClearObjects
  BY <1>3 DEF ClearObjects
<1>4. CASE GrowList \/ SetObjectCount
  BY <1>4 DEF GrowList, SetObjectCount, Blank
<1>5. CASE Plot
  <2>1. /\ objs \in [1 .. NObjs -> Nat] /\ want \in [1 .. NObjs -> Nat]
        /\ k \in 1 .. NObjs /\ want' = want
        /\ \A i \in 1 .. NObjs : i < k => objs[i] = want[i]
        /\ version' = version
    BY <1>5 DEF Plot
  <2>2. objs' = [objs EXCEPT ![k] = want[k]]
    BY <1>5 DEF Plot
  <2>3. /\ objs' \in [1 .. NObjs -> Nat]
        /\ \A i \in 1 .. NObjs : i <= k => objs'[i] = want[i]
    BY <2>1, <2>2
  <2>4. CASE k < NObjs
    <3>1. k' = k + 1 /\ view' = "plot"
      BY <1>5, <2>4 DEF Plot
    <3>. QED
      BY <2>1, <2>3, <2>4, <3>1
  <2>5. CASE ~(k < NObjs)
    <3>1. k' = k /\ view' = "enable"
      BY <1>5, <2>5 DEF Plot
    <3>2. \A i \in 1 .. NObjs : objs'[i] = want[i]
      BY <2>1, <2>3, <2>5
    <3>3. objs' = want
      BY <2>1, <2>3, <3>2
    <3>. QED
      BY <2>1, <3>1, <3>3
  <2>. QED
    BY <2>4, <2>5
<1>6. CASE EnablePlot
  BY <1>6 DEF EnablePlot
<1>7. CASE Wait
  BY <1>7 DEF Wait
<1>8. CASE HideView \/ ShowView \/ Resize
  BY <1>8 DEF HideView, ShowView, Resize
<1>9. CASE Destroy
  BY <1>9 DEF Destroy
<1>10. CASE Render
  BY <1>10, RenderKeepsPicture
<1>11. CASE UNCHANGED glvars
  BY <1>11 DEF glvars
<1>12. CASE TornRead
  BY <1>12 DEF TornRead, Whole, Abort
<1>. QED
  BY <1>1, <1>2, <1>3, <1>4, <1>5, <1>6, <1>7, <1>8, <1>9, <1>10, <1>11, <1>12
     DEF GlNext, ViewWork, ViewUser, Gone

-----------------------------------------------------------------------------
(* The frames.                                                             *)

\* A picture is unfinished only while the plotter is disabled, and disabling it
\* reaches a frame that has begun before.
LEMMA FrameKept == PictureInv /\ FrameInv /\ [GlNext]_glvars => FrameInv'
<1>. SUFFICES ASSUME PictureInv, FrameInv, [GlNext]_glvars PROVE FrameInv'
  OBVIOUS
<1>. USE DEF FrameInv, PictureComplete, viewvars, framevars
<1>1. CASE NewPicture \/ MoveQ \/ HideView \/ Destroy
  BY <1>1 DEF NewPicture, MoveQ, HideView, Destroy
<1>2. CASE ClearObjects \/ GrowList \/ SetObjectCount \/ Plot \/ Wait
  <2>1. ~glEnabled /\ ~glEnabled'
    BY <1>2 DEF ClearObjects, GrowList, SetObjectCount, Plot, Wait
  <2>2. UNCHANGED <<want, render, order, frame, disabled>>
    BY <1>2 DEF ClearObjects, GrowList, SetObjectCount, Plot, Wait
  <2>. QED
    BY <2>1, <2>2
<1>3. CASE EnablePlot
  BY <1>3 DEF EnablePlot
<1>4. CASE ShowView \/ Resize
  BY <1>4 DEF ShowView, Resize
<1>5. CASE StartRender \/ RenderLoop \/ ResizeGL \/ Tick \/ EndFrame \/ Free
  BY <1>5 DEF StartRender, RenderLoop, ResizeGL, Tick, EndFrame, Free
<1>6. CASE TestEnabled
  BY <1>6 DEF TestEnabled
<1>7. CASE SortObjects
  <2>1. UNCHANGED <<view, glEnabled, disabled, want>> /\ render' = "draw"
    BY <1>7 DEF SortObjects
  <2>2. order' = DOMAIN objs /\ frame' = {}
    BY <1>7 DEF SortObjects
  <2>3. ~disabled => objs = want
    BY <1>7 DEF SortObjects, PictureInv
  <2>4. ~disabled => glEnabled
    BY <1>7 DEF SortObjects
  <2>5. ~disabled => frame' = {<<i, want[i]>> : i \in DOMAIN want \ order'}
    BY <2>2, <2>3
  <2>. QED
    BY <2>1, <2>2, <2>3, <2>4, <2>5
<1>8. CASE DrawObject
  <2>1. /\ UNCHANGED <<view, glEnabled, disabled, want, objs>>
        /\ render = "draw" /\ render' = "draw"
    BY <1>8 DEF DrawObject
  <2>2. PICK i \in order :
          /\ order' = order \ {i}
          /\ frame' = frame \union
               {<<i, objs[n]>> : n \in {i} \intersect DOMAIN objs}
    BY <1>8 DEF DrawObject
  <2>3. ASSUME ~disabled
        PROVE  frame' = {<<j, want[j]>> : j \in DOMAIN want \ order'}
    <3>1. objs = want /\ i \in DOMAIN want
      BY <2>1, <2>2, <2>3 DEF PictureInv
    <3>2. frame = {<<j, want[j]>> : j \in DOMAIN want \ order}
      BY <2>1, <2>3
    <3>3. DOMAIN want \ order' = (DOMAIN want \ order) \union {i}
      BY <2>2, <3>1
    <3>4. {<<i, objs[n]>> : n \in {i} \intersect DOMAIN objs} = {<<i, want[i]>>}
      BY <3>1
    <3>. QED
      BY <2>2, <3>2, <3>3, <3>4
  <2>. QED
    BY <2>1, <2>2, <2>3
<1>9. CASE UNCHANGED glvars
  BY <1>9 DEF glvars
<1>10. CASE TornRead
  <2>1. ~glEnabled /\ ~glEnabled'
    BY <1>10 DEF TornRead, Whole
  <2>2. render \in {"lock", "draw"} => disabled
    BY <2>1
  <2>3. render' = "draw" => render = "lock" /\ disabled'
    BY <1>10, <2>2 DEF TornRead, Abort
  <2>. QED
    BY <1>10, <2>1, <2>3 DEF TornRead, Abort
<1>. QED
  BY <1>1, <1>2, <1>3, <1>4, <1>5, <1>6, <1>7, <1>8, <1>9, <1>10
     DEF GlNext, ViewWork, ViewUser, Render, Gone

-----------------------------------------------------------------------------
(* The list.                                                               *)

\* clear() has waited for the frame, and a later one finds the list empty.
LEMMA CountKept == CountInv /\ [GlNext]_glvars => CountInv'
<1>. SUFFICES ASSUME CountInv, [GlNext]_glvars PROVE CountInv'
  OBVIOUS
<1>. USE DEF CountInv, viewvars, framevars
<1>1. CASE ViewWork
  BY <1>1 DEF ViewWork, ClearObjects, GrowList, SetObjectCount, Plot, EnablePlot,
              Wait, HoldsMutex
<1>2. CASE ViewUser
  BY <1>2 DEF ViewUser, NewPicture, MoveQ, HideView, ShowView, Resize, Destroy
<1>3. CASE SortObjects
  <2>1. view = "count" => DOMAIN objs = {}
    OBVIOUS
  <2>. QED
    BY <1>3, <2>1 DEF SortObjects, Whole
<1>4. CASE DrawObject
  BY <1>4 DEF DrawObject
<1>5. CASE StartRender \/ RenderLoop \/ ResizeGL \/ Tick \/ TestEnabled
           \/ EndFrame \/ Free
  BY <1>5 DEF StartRender, RenderLoop, ResizeGL, Tick, TestEnabled, EndFrame, Free
<1>6. CASE TornRead
  BY <1>6 DEF TornRead, Abort
<1>7. CASE UNCHANGED glvars
  BY <1>7 DEF glvars
<1>. QED
  BY <1>1, <1>2, <1>3, <1>4, <1>5, <1>6, <1>7 DEF GlNext, Render, Gone

-----------------------------------------------------------------------------
(* The sizes.                                                              *)

\* The size is not changed between the copy that resizeGLThread is given and
\* the end of the request.
LEMMA SizeKept == SizeInv /\ [GlNext]_glvars => SizeInv'
<1>. SUFFICES ASSUME SizeInv, [GlNext]_glvars PROVE SizeInv'
  OBVIOUS
<1>. USE DEF SizeInv, ResizeKept, sizevars
<1>1. CASE ViewWork
  BY <1>1 DEF ViewWork, ClearObjects, GrowList, SetObjectCount, Plot, EnablePlot,
              Wait
<1>2. CASE NewPicture \/ MoveQ \/ HideView \/ ShowView \/ Destroy
  BY <1>2 DEF NewPicture, MoveQ, HideView, ShowView, Destroy
<1>3. CASE Resize
  BY <1>3 DEF Resize, HoldsResize
<1>4. CASE RenderLoop
  BY <1>4 DEF RenderLoop
<1>5. CASE ResizeGL
  BY <1>5 DEF ResizeGL
<1>6. CASE \/ StartRender \/ Tick \/ TestEnabled \/ SortObjects \/ DrawObject
           \/ EndFrame \/ Free
  BY <1>6 DEF StartRender, Tick, TestEnabled, SortObjects, DrawObject,
              EndFrame, Free
<1>7. CASE UNCHANGED glvars
  BY <1>7 DEF glvars
<1>8. CASE TornRead
  BY <1>8 DEF TornRead, Abort
<1>. QED
  BY <1>1, <1>2, <1>3, <1>4, <1>5, <1>6, <1>7, <1>8
     DEF GlNext, ViewUser, Render, Gone

-----------------------------------------------------------------------------
(* The theorems.                                                           *)

\* The inductive invariant holds in every reachable state.
THEOREM GlInvariance == GlSpec => []GlIInv
<1>1. GlIInv /\ [GlNext]_glvars => GlIInv'
  BY PictureKept, FrameKept, CountKept, SizeKept DEF GlIInv
<1>. QED
  BY <1>1, GlInitInv, PTL DEF GlSpec

\* Only whole pictures are shown: SetEnabled brackets the calls of a view.
THEOREM Pictures == GlSpec => []PictureComplete
<1>1. GlIInv => PictureComplete
  BY DEF GlIInv, FrameInv
<1>. QED
  BY <1>1, GlInvariance, PTL

\* Every size that the window had last is set (PlotGl::run, resizeEvent).
THEOREM Sizes == GlSpec => []ResizeKept
<1>1. GlIInv => ResizeKept
  BY DEF GlIInv, SizeInv
<1>. QED
  BY <1>1, GlInvariance, PTL

\* A frame draws its objects from an unchanged list: what changes the list has
\* waited for it, or the frame has found the list empty.
THEOREM Undisturbed == GlSpec => DrawnUndisturbed
<1>1. GlIInv /\ [GlNext]_glvars =>
        [render = "draw" /\ render' = "draw" /\ order # {} /\ ~torn
           => objs' = objs]_glvars
  <2>. SUFFICES ASSUME CountInv, GlNext, render = "draw", order # {}, ~torn
                PROVE  objs' = objs
    BY DEF GlIInv
  <2>1. view \notin {"count", "grow"}
    BY DEF CountInv
  <2>2. CASE ViewWork
    BY <2>1, <2>2 DEF ViewWork, ClearObjects, GrowList, SetObjectCount, Plot,
                      EnablePlot, Wait, HoldsMutex
  <2>3. CASE ViewUser
    BY <2>3 DEF ViewUser, NewPicture, MoveQ, HideView, ShowView, Resize, Destroy
  <2>4. CASE Render
    BY <2>4, RenderKeepsPicture
  <2>5. CASE TornRead
    BY <2>5 DEF TornRead
  <2>6. CASE Gone
    BY <2>6 DEF Gone, glvars
  <2>. QED
    BY <2>2, <2>3, <2>4, <2>5, <2>6 DEF GlNext
<1>. QED
  BY <1>1, GlInvariance, PTL DEF GlSpec, DrawnUndisturbed
=============================================================================
