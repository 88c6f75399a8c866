----------------------------- MODULE MCThreads ------------------------------
(***************************************************************************)
(* The parts of the program in which threads wait for each other: the      *)
(* convolution dialog and its worker, the main window and the threads of   *)
(* its connection, a 3D view and its render thread, and the pool of        *)
(* convofit, here with job files named relative to where it is started.    *)
(* The parts share no state; part says which of them moves in a behaviour. *)
(***************************************************************************)
EXTENDS ConvoDlg, NetConn, PlotGl, ConvofitJobs

VARIABLE part

\* A directory, another one, and the first one again.
ThereAndBack == [j \in Jobs |-> IF j % 2 = 1 THEN "d1" ELSE "d2"]

allvars == <<part, vars, netvars, glvars, jobsvars>>

InPart(p, step, others) == part = p /\ step /\ UNCHANGED <<part, others>>

ConvoPart(step) == InPart("convo", step, <<netvars, glvars, jobsvars>>)
NetPart(step) == InPart("net", step, <<vars, glvars, jobsvars>>)
GlPart(step) == InPart("gl", step, <<vars, netvars, jobsvars>>)
JobsPart(step) == InPart("jobs", step, <<vars, netvars, glvars>>)

\* The other parts' uninitialised variables need not differ.
MCInit ==
  /\ part \in {"convo", "net", "gl", "jobs"}
  /\ Init /\ NetInit /\ GlInit /\ JobsInit
  /\ part # "convo" => ~stop
  /\ part # "net" => ~pollerActive

MCNext ==
  \/ ConvoPart(Next) \/ NetPart(NetNext) \/ GlPart(GlNext)
  \/ JobsPart(JobsNext)

\* The fairness of the parts' specifications.
MCFairness ==
  /\ WF_allvars(ConvoPart(GuiReacts)) /\ WF_allvars(ConvoPart(WorkerStep))
  /\ SF_allvars(ConvoPart(NextStep))
  /\ \A i \in Steps : WF_allvars(ConvoPart(PoolStep(i)))
  /\ WF_allvars(NetPart(~aborted /\ GuiStep))
  /\ WF_allvars(NetPart(~aborted /\ StartPoller))
  /\ \A t \in Conns : WF_allvars(NetPart(~aborted /\ PollerEnds(t)))
  /\ SF_allvars(GlPart(ViewWork)) /\ WF_allvars(GlPart(Render))

MCSpec == MCInit /\ [][MCNext]_allvars /\ MCFairness

=============================================================================
