------------------------------- MODULE MultiFit ------------------------------
(***************************************************************************)
(* A fit of one S(Q,w) model to several groups of scans (run_job in        *)
(* tools/convofit/convofit.cpp, SqwFuncModel in tools/convofit/model.cpp). *)
(* Minuit evaluates chi^2 again and again: each time the model object is   *)
(* copied, the copy is given the parameters and is evaluated for one scan  *)
(* group after the other.  Copies of a built-in S(Q,w) model have their    *)
(* own variables, copies of a script model share the ones of the script.   *)
(*                                                                         *)
(* Sets are counted from 1 here and from 0 in the code.                    *)
(***************************************************************************)
EXTENDS Integers, Sequences

CONSTANTS
  NGroups,   \* number of scan groups in the job
  NResos,    \* number of instrument files in the job
  Temps,     \* temperatures (and fields) the scans are measured at
  Fits,      \* values of the fit parameters
  Shared,    \* whether copies of the S(Q,w) model share their variables
  Recycle,   \* recycle_neutrons: every evaluation draws the same neutrons
  MayFail,   \* whether a group's scan files may fail to load
  MaxChi2    \* bound: number of chi^2 evaluations

ASSUME FitAssumption ==
  /\ NGroups \in Nat \ {0}
  /\ NResos \in {1, NGroups}      \* otherwise the job is refused
  /\ Shared \in BOOLEAN /\ Recycle \in BOOLEAN /\ MayFail \in BOOLEAN
  /\ MaxChi2 \in Nat

Groups == 1 .. NGroups
NoGroup == 0
Objects == {"mod", "copy"}

VARIABLES
  pc,     \* where the job is
  next,   \* the next group to load, or set to evaluate
  temp,   \* temperature of each group
  scans,  \* vecSc: the groups that have been loaded
  fkt,    \* the SqwFuncModel objects: the job's and Minuit's copy
  sqw,    \* the variables of their S(Q,w) models
  rand,   \* the random numbers: just seeded ("seed") or used since
  evals,  \* chi^2 evaluations so far
  asked,  \* the fit parameters that were set last
  seen    \* what has been evaluated, and under which conditions

vars == <<pc, next, temp, scans, fkt, sqw, rand, evals, asked, seen>>

\* A resolution is read from an instrument file and adapted to a scan's sample.
Reso(file, sample) == [file |-> file, sample |-> sample]
NoFkt == [set |-> 1, scan |-> NoGroup, resos |-> <<Reso(1, NoGroup)>>]

\* Where the variables of an object's model are kept.
Vars(o) == IF Shared THEN "mod" ELSE o

\* Only a job with several groups tells the model about its scans.
MultiFit == Len(scans) > 1

-----------------------------------------------------------------------------
(* The operations of SqwFuncModel.                                         *)

\* Mutant: the first resolution always.
FirstReso(f) == f.resos[1]

\* The resolution in use.
GetTASReso(f) == f.resos[IF MultiFit /\ Len(f.resos) > 1 THEN f.set ELSE 1]

\* set_tasreso_params_from_scan
SetSample(resos, i, g) == [resos EXCEPT ![i].sample = g]

\* The set is changed, unless it is the one the object remembers.
Switches(o, i) == MultiFit /\ i \in 1 .. Len(scans) /\ fkt[o].set # i

SetParamSet(o, i) ==
  LET f == fkt[o]
      g == scans[i]
  IN  IF Switches(o, i)
        THEN [set |-> i, scan |-> g,
              resos |-> SetSample(f.resos, IF Len(f.resos) > 1 THEN i ELSE 1, g)]
        ELSE f

\* Mutant: the temperature of the first group always.
SetFirstParams(o, i) ==
  IF Switches(o, i) THEN [sqw EXCEPT ![Vars(o)].temp = temp[scans[1]]] ELSE sqw

\* SetOtherParams, on a switch only
SetOtherParams(o, i) ==
  IF Switches(o, i) THEN [sqw EXCEPT ![Vars(o)].temp = temp[scans[i]]] ELSE sqw

\* Mutant: recycling is turned on and off the wrong way round.
ParamsChangedNot == IF Recycle THEN rand ELSE "seed"

\* The listeners to a change of parameters seed the random numbers again.
ParamsChanged == IF Recycle THEN "seed" ELSE rand

\* What an evaluation of the object for its i-th set depends on.
Result(o, i) ==
  [group |-> scans[i],
   scan  |-> SetParamSet(o, i).scan,
   reso  |-> GetTASReso(SetParamSet(o, i)),
   temp  |-> SetOtherParams(o, i)[Vars(o)].temp,
   fit   |-> SetOtherParams(o, i)[Vars(o)].fit,
   asked |-> asked,
   rand  |-> IF Switches(o, i) THEN ParamsChanged ELSE rand]

\* SetParamSet, then the model is evaluated at all points of the scan.
Evaluate(o, i) ==
  /\ fkt' = [fkt EXCEPT ![o] = SetParamSet(o, i)]
  /\ sqw' = SetOtherParams(o, i)
  /\ seen' = seen \cup {Result(o, i)}
  /\ rand' = "used"

\* SetParams
SetParams(v) ==
  /\ asked' = v
  /\ rand' = ParamsChanged

-----------------------------------------------------------------------------
(* run_job                                                                 *)

Init ==
  /\ pc = "scans"
  /\ next = 1
  /\ temp \in [Groups -> Temps]
  /\ scans = <<>>
  /\ fkt = [o \in Objects |-> NoFkt]
  /\ \E t \in Temps, v \in Fits :
       /\ sqw = [o \in Objects |-> [temp |-> t, fit |-> v]]
       /\ asked = v
  /\ rand = "seed"
  /\ evals = 0
  /\ seen = {}

\* A group that cannot be loaded is left out.
LoadScans ==
  /\ pc = "scans" /\ next <= NGroups
  /\ next' = next + 1
  /\ \/ scans' = Append(scans, next)
     \/ MayFail /\ UNCHANGED scans
  /\ UNCHANGED <<pc, temp, fkt, sqw, rand, evals, asked, seen>>

\* Early returns: no scan, instrument, model or minimiser.
GiveUp ==
  /\ pc = "scans" /\ next > NGroups
  /\ pc' = "end"
  /\ UNCHANGED <<next, temp, scans, fkt, sqw, rand, evals, asked, seen>>

\* The model object, set to the first scan, and the initial parameters.
SetUp(v) ==
  /\ pc = "scans" /\ next > NGroups
  /\ scans # <<>>
  /\ fkt' = [fkt EXCEPT !["mod"] =
       [set |-> 1, scan |-> scans[1],
        resos |-> SetSample([i \in 1 .. NResos |-> Reso(i, NoGroup)], 1, scans[1])]]
  /\ sqw' = [sqw EXCEPT !["mod"] = [temp |-> temp[scans[1]], fit |-> v]]
  /\ SetParams(v)
  /\ pc' = "fit"
  /\ UNCHANGED <<next, temp, scans, evals, seen>>

\* Minuit: copy, and give the copy the parameters.
StartChi2(v) ==
  /\ pc = "fit" /\ evals < MaxChi2
  /\ fkt' = [fkt EXCEPT !["copy"] = fkt["mod"]]
  /\ sqw' = [sqw EXCEPT ![Vars("copy")] = [temp |-> sqw["mod"].temp, fit |-> v]]
  /\ SetParams(v)
  /\ evals' = evals + 1
  /\ pc' = "chi2" /\ next' = 1
  /\ UNCHANGED <<temp, scans, seen>>

Chi2Set ==
  /\ pc = "chi2" /\ next <= Len(scans)
  /\ Evaluate("copy", next)
  /\ next' = next + 1
  /\ UNCHANGED <<pc, temp, scans, evals, asked>>

EndChi2 ==
  /\ pc = "chi2" /\ next > Len(scans)
  /\ pc' = "fit"
  /\ UNCHANGED <<next, temp, scans, fkt, sqw, rand, evals, asked, seen>>

\* Mutant: the result is kept, but not given to the S(Q,w) model.
FitDoneForgets(v) ==
  /\ pc = "fit"
  /\ SetParams(v)
  /\ pc' = "save" /\ next' = 1
  /\ UNCHANGED <<temp, scans, fkt, sqw, evals, seen>>

\* The result of the fit is given to the job's own object.
FitDone(v) ==
  /\ pc = "fit"
  /\ sqw' = [sqw EXCEPT !["mod"].fit = v]
  /\ SetParams(v)
  /\ pc' = "save" /\ next' = 1
  /\ UNCHANGED <<temp, scans, fkt, evals, seen>>

\* do_fit = 0
SkipFit ==
  /\ pc = "fit" /\ evals = 0
  /\ pc' = "save" /\ next' = 1
  /\ UNCHANGED <<temp, scans, fkt, sqw, rand, evals, asked, seen>>

\* The model curve of each group is saved.
SaveSet ==
  /\ pc = "save" /\ next <= Len(scans)
  /\ Evaluate("mod", next)
  /\ next' = next + 1
  /\ UNCHANGED <<pc, temp, scans, evals, asked>>

Saved ==
  /\ pc = "save" /\ next > Len(scans)
  /\ pc' = "end"
  /\ UNCHANGED <<next, temp, scans, fkt, sqw, rand, evals, asked, seen>>

Next ==
  \/ LoadScans \/ GiveUp \/ Chi2Set \/ EndChi2 \/ SkipFit \/ SaveSet \/ Saved
  \/ \E v \in Fits : SetUp(v) \/ StartChi2(v) \/ FitDone(v)

Spec == Init /\ [][Next]_vars

-----------------------------------------------------------------------------
(* Properties.                                                             *)

Resolutions == [file : Groups, sample : Groups \cup {NoGroup}]
Fkts == [set : Groups, scan : Groups \cup {NoGroup}, resos : Seq(Resolutions)]
Results == [group : Groups, scan : Groups, reso : Resolutions, temp : Temps,
            fit : Fits, asked : Fits, rand : {"seed", "used"}]

\* Type invariant.
TypeOK ==
  /\ pc \in {"scans", "fit", "chi2", "save", "end"}
  /\ next \in 1 .. NGroups + 1
  /\ temp \in [Groups -> Temps]
  /\ scans \in Seq(Groups)
  /\ fkt \in [Objects -> Fkts]
  /\ sqw \in [Objects -> [temp : Temps, fit : Fits]]
  /\ rand \in {"seed", "used"}
  /\ evals \in 0 .. MaxChi2
  /\ asked \in Fits
  /\ seen \subseteq Results

\* Every group is evaluated at the temperature it was measured at: a set that
\* "is already set" does not need to be set again.
MeasuredConditions == \A r \in seen : r.temp = temp[r.group]

\* Every group is evaluated along its own scan, for its own sample.
OwnScan == \A r \in seen : r.scan = r.group /\ r.reso.sample = r.group

\* Every group is evaluated with the instrument given for it.
OwnInstrument == \A r \in seen : r.reso.file = IF NResos = 1 THEN 1 ELSE r.group

\* ... at least if no group before has been left out.
InOrder == \A i \in 1 .. Len(scans) : scans[i] = i
LoadedInstrument == InOrder => OwnInstrument

\* The parameters in force are the ones that were asked for.
FitInForce == \A r \in seen : r.fit = r.asked

\* All of them: what a group is evaluated along, with and by.
OwnInputs == OwnScan /\ FitInForce /\ LoadedInstrument

\* chi^2 is a function of the parameters: what a group's evaluation depends on
\* is the same whenever it is asked for, in the fit and when it is saved.
Reproducible ==
  \A r, s \in seen : r.group = s.group /\ r.fit = s.fit => r = s

-----------------------------------------------------------------------------
(* The inductive invariant behind these properties.                        *)

\* The objects that exist.
Live(o) == \/ o = "mod" /\ pc \in {"fit", "chi2", "save"}
           \/ o = "copy" /\ pc = "chi2"

\* The groups are loaded in order, each at most once.
ScansInv ==
  /\ pc = "scans" => Len(scans) <= next - 1
  /\ Len(scans) <= NGroups
  /\ ~MayFail => InOrder /\ (pc = "scans" => Len(scans) = next - 1)
  /\ pc \in {"fit", "chi2", "save"} => scans # <<>>

\* What an object remembers to be set is set, in a model of its own.
ObjectInv ==
  \A o \in Objects : Live(o) =>
    LET f == fkt[o]
        g == scans[f.set]
    IN  /\ f.set \in 1 .. Len(scans)
        /\ f.scan = g
        /\ f.resos \in [1 .. NResos -> Resolutions]
        /\ \A i \in 1 .. NResos : f.resos[i].file = i
        /\ GetTASReso(f).sample = g
        /\ ~Shared => sqw[o].temp = temp[g]

\* The object that is evaluated next has the parameters asked for.
AskedInv ==
  /\ pc = "chi2" => evals > 0 /\ sqw[Vars("copy")].fit = asked
  /\ pc = "save" \/ (pc = "fit" /\ evals = 0) => sqw["mod"].fit = asked

\* The invariant that the proofs carry through every step.
IInv ==
  /\ TypeOK /\ ScansInv /\ ObjectInv /\ AskedInv
  /\ OwnScan /\ FitInForce
  /\ ~Shared => MeasuredConditions
  /\ LoadedInstrument
\* Which instrument file belongs to the i-th of the loaded groups.
Used(i) == IF MultiFit /\ NResos > 1 THEN i ELSE 1

\* The groups that have been loaded are in order; those still to come are
\* behind them, and nothing is evaluated before all are loaded.
Increasing ==
  /\ \A i, j \in 1 .. Len(scans) : i < j => scans[i] < scans[j]
  /\ pc = "scans" => seen = {} /\ \A i \in 1 .. Len(scans) : scans[i] < next

\* Whatever was evaluated stands at one place among the loaded groups, and
\* used the instrument of this place.
SeenInPlace ==
  \A r \in seen : \E i \in 1 .. Len(scans) :
    scans[i] = r.group /\ r.reso.file = Used(i)

\* The object under evaluation remembers the set before the next one, so that
\* every set but the first is switched to, and with it the numbers seeded.
Follows(o) ==
  IF next = 1 THEN rand = "seed"
  ELSE next <= Len(scans) => fkt[o].set = next - 1

\* Every evaluation starts from the seed.
SeedInv ==
  /\ \A r \in seen : r.rand = "seed"
  /\ pc = "fit" /\ evals = 0 => rand = "seed"
  /\ pc = "chi2" => Follows("copy")
  /\ pc = "save" => Follows("mod")

\* What Reproducible needs besides IInv, if the neutrons are recycled.
SameInv == Increasing /\ SeenInPlace /\ (Recycle => SeedInv)
==============================================================================
