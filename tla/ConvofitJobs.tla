---------------------------- MODULE ConvofitJobs ----------------------------
(***************************************************************************)
(* Convofit's jobs (main in tools/convofit/convofit_main.cpp, run_job in   *)
(* tools/convofit/convofit.cpp).  The threads of a pool take the jobs of   *)
(* the command line one after the other.  A job changes to the directory   *)
(* of its job file, which is the directory of the whole process, and finds *)
(* its files there.  It may send what its thread logs to a file.           *)
(***************************************************************************)
EXTENDS Integers

CONSTANTS
  NJobs,     \* number of job files on the command line
  Threads,   \* the pool's threads
  Dirs,      \* directories with job files
  StartDir,  \* the directory convofit has been started in
  Nowhere,   \* a path that leads to no directory
  DirOf,     \* the directory of each job file, or Nowhere
  Relative,  \* whether the job files are named relative to StartDir
  JobsMayFail \* whether a job may return early: missing data, bad settings

Jobs == 1 .. NJobs
NoJob == 0

ASSUME JobsAssumption ==
  /\ NJobs \in Nat
  /\ NoJob \notin Threads
  /\ StartDir \in Dirs /\ Nowhere \notin Dirs
  /\ DirOf \in [Jobs -> Dirs \cup {Nowhere}]
  /\ Relative \in BOOLEAN /\ JobsMayFail \in BOOLEAN

VARIABLES
  nextJob,    \* the next job in the pool's list of tasks
  job,     \* the job each thread runs
  place,      \* where each job is
  cwd,     \* the process' working directory
  prog,    \* pathProg: the directory each job found its job file to be in
  moved,   \* bChangedCWD of each job
  ostrs,   \* the jobs whose log files each thread logs to
  files    \* the directories in which jobs opened files

jobsvars == <<nextJob, job, place, cwd, prog, moved, ostrs, files>>

\* The directory the name of a job file leads to, from the working directory.
\* No directory has a further one below it.
Lookup(j) ==
  CASE ~Relative \/ cwd = StartDir -> DirOf[j]
    [] Relative /\ cwd # StartDir /\ DirOf[j] = StartDir -> cwd
    [] OTHER -> Nowhere

Goto(j, label) == place' = [place EXCEPT ![j] = label]

Opens(j, dir) == files' = files \cup {[job |-> j, dir |-> dir]}

\* The job of thread t returns; its log file is closed.
Return(t) ==
  /\ Goto(job[t], "returned")
  /\ job' = [job EXCEPT ![t] = NoJob]

-----------------------------------------------------------------------------
JobsInit ==
  /\ nextJob = 1
  /\ job = [t \in Threads |-> NoJob]
  /\ place = [j \in Jobs |-> "listed"]
  /\ cwd = StartDir
  /\ prog = [j \in Jobs |-> Nowhere]
  /\ moved = [j \in Jobs |-> FALSE]
  /\ ostrs = [t \in Threads |-> {}]
  /\ files = {}

\* A thread of the pool takes the first job in the list.
TakeJob(t) ==
  /\ job[t] = NoJob /\ nextJob \in Jobs
  /\ job' = [job EXCEPT ![t] = nextJob]
  /\ Goto(nextJob, "complete")
  /\ nextJob' = nextJob + 1
  /\ UNCHANGED <<cwd, prog, moved, ostrs, files>>

\* Mutant: the file's name is not removed from the path.
CompletePathOnly(t) ==
  LET j == job[t]
  IN  /\ j \in Jobs /\ place[j] = "complete"
      /\ prog' = [prog EXCEPT ![j] = Nowhere]
      /\ Goto(j, "compare")
      /\ UNCHANGED <<nextJob, job, cwd, moved, ostrs, files>>

\* fs::system_complete(_strJob), without the file's name
CompletePath(t) ==
  LET j == job[t]
  IN  /\ j \in Jobs /\ place[j] = "complete"
      /\ prog' = [prog EXCEPT ![j] = Lookup(j)]
      /\ Goto(j, "compare")
      /\ UNCHANGED <<nextJob, job, cwd, moved, ostrs, files>>

\* Mutant: the directory is changed only from the one convofit started in.
ComparePathsOnce(t) ==
  LET j == job[t]
  IN  /\ j \in Jobs /\ place[j] = "compare"
      /\ Goto(j, IF cwd = StartDir /\ prog[j] # cwd THEN "change" ELSE "load")
      /\ UNCHANGED <<nextJob, job, cwd, prog, moved, ostrs, files>>

\* pathProg != pathCWD
ComparePaths(t) ==
  LET j == job[t]
  IN  /\ j \in Jobs /\ place[j] = "compare"
      /\ Goto(j, IF prog[j] # cwd THEN "change" ELSE "load")
      /\ UNCHANGED <<nextJob, job, cwd, prog, moved, ostrs, files>>

\* fs::current_path(pathProg)
ChangeDir(t) ==
  LET j == job[t]
  IN  /\ j \in Jobs /\ place[j] = "change"
      /\ prog[j] # Nowhere
      /\ cwd' = prog[j]
      /\ moved' = [moved EXCEPT ![j] = TRUE]
      /\ Goto(j, "load")
      /\ UNCHANGED <<nextJob, job, prog, ostrs, files>>

\* ... throws if there is no such directory: the exception is kept for main.
ChangeDirThrows(t) ==
  /\ job[t] \in Jobs /\ place[job[t]] = "change"
  /\ prog[job[t]] = Nowhere
  /\ Return(t)
  /\ UNCHANGED <<nextJob, cwd, prog, moved, ostrs, files>>

\* The job file is loaded, by its name alone in a new directory.
LoadJob(t) ==
  LET j == job[t]
      dir == IF moved[j] THEN cwd ELSE Lookup(j)
  IN  /\ j \in Jobs /\ place[j] = "load"
      /\ dir # Nowhere
      /\ Opens(j, dir)
      /\ Goto(j, "log")
      /\ UNCHANGED <<nextJob, job, cwd, prog, moved, ostrs>>

\* "Cannot load job file"
LoadJobFails(t) ==
  /\ job[t] \in Jobs /\ place[job[t]] = "load"
  /\ JobsMayFail \/ (~moved[job[t]] /\ Lookup(job[t]) = Nowhere)
  /\ Return(t)
  /\ UNCHANGED <<nextJob, cwd, prog, moved, ostrs, files>>

\* The job may give a log file, which is added to the thread's streams.
OpenLog(t) ==
  LET j == job[t]
  IN  /\ j \in Jobs /\ place[j] = "log"
      /\ Goto(j, "data")
      /\ \/ /\ Opens(j, cwd)
            /\ ostrs' = [ostrs EXCEPT ![t] = @ \cup {j}]
         \/ UNCHANGED <<ostrs, files>>
      /\ UNCHANGED <<nextJob, job, cwd, prog, moved>>

\* Scans, instrument and model are loaded.
LoadData(t) ==
  LET j == job[t]
  IN  /\ j \in Jobs /\ place[j] = "data"
      /\ Opens(j, cwd)
      /\ Goto(j, "save")
      /\ UNCHANGED <<nextJob, job, cwd, prog, moved, ostrs>>

\* Early returns: the log file is closed, but stays among the streams.
ReturnEarly(t) ==
  /\ JobsMayFail
  /\ job[t] \in Jobs /\ place[job[t]] \in {"data", "save"}
  /\ Return(t)
  /\ UNCHANGED <<nextJob, cwd, prog, moved, ostrs, files>>

\* After the fit the results are saved.
Save(t) ==
  LET j == job[t]
  IN  /\ j \in Jobs /\ place[j] = "save"
      /\ Opens(j, cwd)
      /\ Goto(j, "finish")
      /\ UNCHANGED <<nextJob, job, cwd, prog, moved, ostrs>>

\* Mutant: the log file is not removed from the thread's streams.
FinishKeepsLog(t) ==
  /\ job[t] \in Jobs /\ place[job[t]] = "finish"
  /\ Return(t)
  /\ UNCHANGED <<nextJob, cwd, prog, moved, ostrs, files>>

\* "remove thread-local loggers"
Finish(t) ==
  /\ job[t] \in Jobs /\ place[job[t]] = "finish"
  /\ ostrs' = [ostrs EXCEPT ![t] = @ \ {job[t]}]
  /\ Return(t)
  /\ UNCHANGED <<nextJob, cwd, prog, moved, files>>

Step(t) ==
  \/ TakeJob(t) \/ CompletePath(t) \/ ComparePaths(t)
  \/ ChangeDir(t) \/ ChangeDirThrows(t) \/ LoadJob(t) \/ LoadJobFails(t)
  \/ OpenLog(t) \/ LoadData(t) \/ ReturnEarly(t) \/ Save(t) \/ Finish(t)

\* The pool has no more tasks.
AllReturned == (\A j \in Jobs : place[j] = "returned") /\ UNCHANGED jobsvars

JobsNext == AllReturned \/ \E t \in Threads : Step(t)

JobsSpec == JobsInit /\ [][JobsNext]_jobsvars

-----------------------------------------------------------------------------
Labels == {"listed", "complete", "compare", "change", "load", "log", "data",
           "save", "finish", "returned"}

\* Type invariant.
JobsTypeOK ==
  /\ nextJob \in 1 .. NJobs + 1
  /\ job \in [Threads -> Jobs \cup {NoJob}]
  /\ place \in [Jobs -> Labels]
  /\ cwd \in Dirs
  /\ prog \in [Jobs -> Dirs \cup {Nowhere}]
  /\ moved \in [Jobs -> BOOLEAN]
  /\ ostrs \in [Threads -> SUBSET Jobs]
  /\ files \subseteq [job : Jobs, dir : Dirs]

\* A job reads and writes the files in the directory of its job file: "set
\* working directory for job".
OwnDirectory == \A f \in files : f.dir = DirOf[f.job]

\* A job file is looked for where the command line says that it is.
JobFileFound ==
  \A j \in Jobs : place[j] \notin {"listed", "complete"} => prog[j] = DirOf[j]

\* A thread logs to the log file of the job it runs and to no other: the
\* "thread-local debug log" of an earlier job has been closed.
OwnLog == \A t \in Threads : job[t] # NoJob => ostrs[t] \subseteq {job[t]}

-----------------------------------------------------------------------------
(* The inductive invariant behind these properties.                        *)

\* Jobs change directory one after the other, or have nothing to change.
OneDirectory ==
  \/ \A j \in Jobs : DirOf[j] = StartDir
  \/ ~Relative /\ \A s, t \in Threads : s = t

\* No two threads run the same job, and the jobs in the list wait for one.
JobsInv ==
  /\ \A s, t \in Threads : job[s] = job[t] /\ job[s] # NoJob => s = t
  /\ \A j \in Jobs : j >= nextJob => place[j] = "listed"
  /\ \A t \in Threads : job[t] # NoJob => job[t] < nextJob

\* The log file of a job is open between OpenLog and Finish only.
LogsInv ==
  \A t \in Threads :
    ostrs[t] \subseteq
      {j \in {job[t]} \ {NoJob} : place[j] \in {"data", "save", "finish"}}

\* The working directory is the one that a running job has changed to.
DirectoryInv ==
  \A t \in Threads :
    /\ job[t] # NoJob
    /\ place[job[t]] \in {"load", "log", "data", "save", "finish"}
    => cwd = DirOf[job[t]]

\* The invariant that the proofs carry through every step.
JobsIInv ==
  /\ JobsTypeOK /\ JobsInv
  /\ ~JobsMayFail => LogsInv
  /\ OneDirectory =>
       /\ OwnDirectory /\ JobFileFound /\ DirectoryInv
       /\ (\A j \in Jobs : DirOf[j] = StartDir) => cwd = StartDir
=============================================================================
