------------------------------ MODULE Fit_proofs ------------------------------
(***************************************************************************)
(* Proofs about the fit and the built-in models that it evaluates.         *)
(*                                                                         *)
(* MultiFit: for any number of scan groups, instruments, temperatures and  *)
(* parameters, every group is evaluated along its own scan with the        *)
(* parameters asked for; at its own temperature if the copies of the       *)
(* S(Q,w) model have their own variables; with its own instrument if no    *)
(* group failed to load; and twice with the same result if the random      *)
(* numbers start from the same seed.                                       *)
(*                                                                         *)
(* SqwModels: for any number of models, values and calls, a built-in model *)
(* evaluates the variables it was given, although copies share its tree.   *)
(***************************************************************************)
EXTENDS MultiFit, SqwModels, TLAPS


LEMMA AppendProperties ==
  ASSUME NEW S, NEW s \in Seq(S), NEW x \in S
  PROVE  /\ Append(s, x) \in Seq(S)
         /\ Len(Append(s, x)) = Len(s) + 1
         /\ \A i \in 1 .. Len(s) : Append(s, x)[i] = s[i]
         /\ Append(s, x)[Len(s) + 1] = x
  OBVIOUS

LEMMA VarsType == \A o \in Objects : Vars(o) \in Objects /\ (~Shared => Vars(o) = o)
  BY FitAssumption DEF Vars, Objects

\* Resolutions of an object as a sequence.
LEMMA ResosAreSeq ==
  ASSUME NEW r \in [1 .. NResos -> Resolutions]
  PROVE  r \in Seq(Resolutions) /\ Len(r) = NResos
<1>1. NResos \in Nat
  BY FitAssumption
<1> QED
  BY <1>1

LEMMA UsedInRange ==
  ASSUME IInv, NEW i \in 1 .. Len(scans)
  PROVE  Used(i) \in 1 .. NResos /\ (~MultiFit => i = 1)
  BY FitAssumption DEF IInv, TypeOK, ScansInv, MultiFit, Used

\* What SetParamSet leaves behind.
LEMMA SetParamSetResult ==
  ASSUME IInv, NEW o \in Objects, Live(o), NEW i \in 1 .. Len(scans)
  PROVE  LET f == SetParamSet(o, i)
         IN  /\ f.set = i /\ f.scan = scans[i]
             /\ f.resos \in [1 .. NResos -> Resolutions]
             /\ \A j \in 1 .. NResos : f.resos[j].file = j
             /\ GetTASReso(f) = f.resos[Used(i)]
             /\ f.resos[Used(i)].sample = scans[i]
             /\ f \in Fkts
<1> DEFINE e == fkt[o]
<1>1. /\ e.set \in 1 .. Len(scans) /\ e.scan = scans[e.set]
      /\ e.resos \in [1 .. NResos -> Resolutions]
      /\ \A j \in 1 .. NResos : e.resos[j].file = j
      /\ GetTASReso(e).sample = scans[e.set]
      /\ e \in Fkts
  BY DEF IInv, ObjectInv, TypeOK
<1>2. Len(e.resos) = NResos /\ e.resos \in Seq(Resolutions)
  BY <1>1, ResosAreSeq
<1>3. /\ scans[i] \in Groups /\ i \in Groups
      /\ NResos > 1 /\ ~MultiFit => i = 1
  BY UsedInRange, FitAssumption DEF IInv, TypeOK, ScansInv, InOrder, Groups
<1>4. Used(i) \in 1 .. NResos
  BY UsedInRange
<1>5. CASE Switches(o, i)
  <2> DEFINE k == IF Len(e.resos) > 1 THEN i ELSE 1
             f == SetParamSet(o, i)
  <2>1. k = Used(i)
    BY <1>2, <1>5 DEF Switches, Used
  <2>2. f = [set |-> i, scan |-> scans[i], resos |-> SetSample(e.resos, k, scans[i])]
    BY <1>5 DEF SetParamSet
  <2>3. f.resos = [e.resos EXCEPT ![Used(i)].sample = scans[i]]
    BY <2>1, <2>2 DEF SetSample
  <2>4. /\ f.resos \in [1 .. NResos -> Resolutions]
        /\ \A j \in 1 .. NResos : f.resos[j].file = j
        /\ f.resos[Used(i)].sample = scans[i]
    <3> DEFINE n == [e.resos[Used(i)] EXCEPT !.sample = scans[i]]
    <3>1. n \in Resolutions /\ n.file = e.resos[Used(i)].file /\ n.sample = scans[i]
      BY <1>1, <1>3, <1>4 DEF Resolutions
    <3>2. f.resos = [e.resos EXCEPT ![Used(i)] = n]
      BY <2>3
    <3> HIDE DEF n
    <3> QED
      BY <1>1, <1>4, <3>1, <3>2
  <2>5. Len(f.resos) = NResos /\ f.resos \in Seq(Resolutions)
    BY <2>4, ResosAreSeq
  <2>6. GetTASReso(f) = f.resos[Used(i)]
    BY <2>2, <2>5 DEF GetTASReso, Used
  <2>7. f \in Fkts
    BY <1>3, <2>2, <2>5 DEF Fkts
  <2> QED
    BY <2>2, <2>4, <2>6, <2>7
<1>6. CASE ~Switches(o, i)
  <2>1. SetParamSet(o, i) = e
    BY <1>6 DEF SetParamSet
  <2>2. e.set = i
    BY <1>1, <1>6, UsedInRange DEF Switches
  <2>3. GetTASReso(e) = e.resos[Used(i)]
    BY <1>2, <2>2 DEF GetTASReso, Used
  <2> QED
    BY <1>1, <2>1, <2>2, <2>3
<1> QED
  BY <1>5, <1>6

\* ... and SetOtherParams.
LEMMA SetOtherParamsResult ==
  ASSUME IInv, NEW o \in Objects, Live(o), NEW i \in 1 .. Len(scans)
  PROVE  LET q == SetOtherParams(o, i)
         IN  /\ q \in [Objects -> [temp : Temps, fit : Fits]]
             /\ \A e \in Objects : q[e].fit = sqw[e].fit
             /\ ~Shared => /\ q[o].temp = temp[scans[i]]
                           /\ \A e \in Objects : e # o => q[e] = sqw[e]
<1>1. temp[scans[i]] \in Temps
  BY DEF IInv, TypeOK
<1>2. sqw \in [Objects -> [temp : Temps, fit : Fits]] /\ Vars(o) \in Objects
  BY VarsType DEF IInv, TypeOK
<1>3. CASE Switches(o, i)
  <2>1. SetOtherParams(o, i) = [sqw EXCEPT ![Vars(o)].temp = temp[scans[i]]]
    BY <1>3 DEF SetOtherParams
  <2> QED
    BY <1>1, <1>2, <2>1, VarsType
<1>4. CASE ~Switches(o, i)
  <2>1. SetOtherParams(o, i) = sqw
    BY <1>4 DEF SetOtherParams
  <2>2. fkt[o].set = i
    BY <1>4, UsedInRange DEF Switches, IInv, ObjectInv
  <2>3. ~Shared => sqw[o].temp = temp[scans[i]]
    BY <2>2 DEF IInv, ObjectInv
  <2> QED
    BY <1>2, <2>1, <2>3
<1> QED
  BY <1>3, <1>4

\* An evaluation depends on what it should depend on.
LEMMA ResultProperties ==
  ASSUME IInv, NEW o \in Objects, Live(o), NEW i \in 1 .. Len(scans),
         sqw[Vars(o)].fit = asked
  PROVE  LET r == Result(o, i)
         IN  /\ r \in Results
             /\ r.group = scans[i] /\ r.scan = r.group /\ r.reso.sample = r.group
             /\ r.fit = r.asked
             /\ ~Shared => r.temp = temp[r.group]
             /\ InOrder => r.reso.file = IF NResos = 1 THEN 1 ELSE r.group
<1> DEFINE f == SetParamSet(o, i)
           q == SetOtherParams(o, i)
           r == Result(o, i)
<1>1. /\ f.scan = scans[i] /\ GetTASReso(f) = f.resos[Used(i)]
      /\ f.resos[Used(i)].sample = scans[i]
      /\ f.resos[Used(i)] \in Resolutions /\ f.resos[Used(i)].file = Used(i)
  <2>1. /\ f.scan = scans[i] /\ GetTASReso(f) = f.resos[Used(i)]
        /\ f.resos[Used(i)].sample = scans[i]
        /\ f.resos \in [1 .. NResos -> Resolutions]
        /\ \A j \in 1 .. NResos : f.resos[j].file = j
    BY SetParamSetResult
  <2>2. Used(i) \in 1 .. NResos
    BY UsedInRange
  <2> HIDE DEF f
  <2> QED
    BY <2>1, <2>2
<1>2. q[Vars(o)] \in [temp : Temps, fit : Fits] /\ q[Vars(o)].fit = asked
  BY SetOtherParamsResult, VarsType
<1>3. ~Shared => q[Vars(o)].temp = temp[scans[i]]
  BY SetOtherParamsResult, VarsType
<1>4. /\ r.group = scans[i] /\ r.scan = f.scan /\ r.reso = GetTASReso(f)
      /\ r.temp = q[Vars(o)].temp /\ r.fit = q[Vars(o)].fit /\ r.asked = asked
  BY DEF Result
<1>5. scans[i] \in Groups /\ asked \in Fits /\ rand \in {"seed", "used"}
  BY DEF IInv, TypeOK
<1>6. r \in Results
  <2>1. (IF Switches(o, i) THEN ParamsChanged ELSE rand) \in {"seed", "used"}
    BY <1>5 DEF ParamsChanged
  <2> QED
    BY <1>1, <1>2, <1>5, <2>1 DEF Result, Results
<1>7. InOrder => Used(i) = IF NResos = 1 THEN 1 ELSE scans[i]
  BY FitAssumption, UsedInRange DEF IInv, ScansInv, InOrder, Used
<1> QED
  BY <1>1, <1>2, <1>3, <1>4, <1>6, <1>7

-----------------------------------------------------------------------------
(* Every action preserves the invariant.                                   *)

\* The properties of what has been seen, for one more result.
LEMMA SeenStep ==
  ASSUME IInv, NEW r, seen' = seen \cup {r}, UNCHANGED <<temp, scans>>,
         r \in Results,
         r.scan = r.group, r.reso.sample = r.group, r.fit = r.asked,
         ~Shared => r.temp = temp[r.group],
         InOrder => r.reso.file = IF NResos = 1 THEN 1 ELSE r.group
  PROVE  /\ seen' \subseteq Results /\ OwnScan' /\ FitInForce'
         /\ ~Shared => MeasuredConditions'
         /\ LoadedInstrument'
  BY DEF IInv, TypeOK, OwnScan, FitInForce, MeasuredConditions, OwnInstrument, LoadedInstrument, InOrder

LEMMA LiveObjects ==
  /\ "mod" \in Objects /\ "copy" \in Objects
  /\ pc = "chi2" => Live("copy")
  /\ pc = "save" => Live("mod")
  BY DEF Objects, Live

LEMMA EvaluateStep ==
  ASSUME IInv, NEW o \in Objects, Live(o), next \in 1 .. Len(scans),
         Evaluate(o, next), next' = next + 1,
         UNCHANGED <<pc, temp, scans, evals, asked>>,
         \/ pc = "chi2" /\ o = "copy"
         \/ pc = "save" /\ o = "mod"
  PROVE  IInv'
<1>1. sqw[Vars(o)].fit = asked
  BY DEF IInv, AskedInv, Vars
<1>2. /\ Result(o, next) \in Results
      /\ seen' \subseteq Results /\ OwnScan' /\ FitInForce'
      /\ ~Shared => MeasuredConditions'
      /\ LoadedInstrument'
  <2>1. seen' = seen \cup {Result(o, next)}
    BY DEF Evaluate
  <2> QED
    BY <1>1, <2>1, ResultProperties, SeenStep
<1>3. /\ fkt' \in [Objects -> Fkts]
      /\ \A e \in Objects : fkt'[e] = IF e = o THEN SetParamSet(o, next) ELSE fkt[e]
  BY SetParamSetResult DEF Evaluate, IInv, TypeOK
<1>4. /\ sqw' \in [Objects -> [temp : Temps, fit : Fits]]
      /\ \A e \in Objects : sqw'[e].fit = sqw[e].fit
      /\ ~Shared => /\ sqw'[o].temp = temp[scans[next]]
                    /\ \A e \in Objects : e # o => sqw'[e] = sqw[e]
  BY SetOtherParamsResult DEF Evaluate
<1>5. TypeOK'
  <2>1. next' \in 1 .. NGroups + 1
    BY FitAssumption DEF IInv, TypeOK, ScansInv
  <2>2. rand' \in {"seed", "used"}
    BY DEF Evaluate
  <2> QED
    BY <1>2, <1>3, <1>4, <2>1, <2>2 DEF IInv, TypeOK
<1>6. ScansInv'
  BY DEF IInv, ScansInv, InOrder
<1>7. ObjectInv'
  <2> SUFFICES ASSUME NEW e \in Objects, Live(e)
               PROVE  LET f == fkt'[e]
                          g == scans[f.set]
                      IN  /\ f.set \in 1 .. Len(scans)
                          /\ f.scan = g
                          /\ f.resos \in [1 .. NResos -> Resolutions]
                          /\ \A i \in 1 .. NResos : f.resos[i].file = i
                          /\ GetTASReso(f).sample = g
                          /\ ~Shared => sqw'[e].temp = temp[g]
    BY DEF ObjectInv, Live, GetTASReso, MultiFit
  <2>1. CASE e = o
    BY <1>3, <1>4, <2>1, SetParamSetResult
  <2>2. CASE e # o
    BY <1>3, <1>4, <2>2 DEF IInv, ObjectInv
  <2> QED
    BY <2>1, <2>2
<1>8. AskedInv'
  BY <1>1, <1>4, VarsType DEF IInv, AskedInv, Vars, Objects
<1> QED
  BY <1>2, <1>5, <1>6, <1>7, <1>8 DEF IInv

LEMMA LoadScansStep == ASSUME IInv, LoadScans PROVE IInv'
<1> USE DEF LoadScans
<1>1. next \in Groups /\ scans \in Seq(Groups)
  BY FitAssumption DEF IInv, TypeOK, Groups
<1>2. TypeOK'
  <2>1. scans' \in Seq(Groups)
    BY <1>1, AppendProperties
  <2>2. next' \in 1 .. NGroups + 1
    BY <1>1, FitAssumption DEF Groups
  <2> QED
    BY <2>1, <2>2 DEF IInv, TypeOK
<1>3. ScansInv'
  <2>1. CASE scans' = Append(scans, next)
    BY <1>1, <2>1, AppendProperties, FitAssumption DEF IInv, TypeOK, ScansInv, InOrder, Groups
  <2>2. CASE MayFail /\ UNCHANGED scans
    BY <1>1, <2>2, FitAssumption DEF IInv, TypeOK, ScansInv, InOrder, Groups
  <2> QED
    BY <2>1, <2>2
<1>4. ObjectInv' /\ AskedInv'
  BY DEF IInv, ObjectInv, Live, AskedInv, Vars
<1>5. OwnScan' /\ FitInForce' /\ (~Shared => MeasuredConditions') /\ LoadedInstrument'
  BY DEF IInv, OwnScan, FitInForce, MeasuredConditions, OwnInstrument, LoadedInstrument, InOrder
<1> QED
  BY <1>2, <1>3, <1>4, <1>5 DEF IInv

LEMMA SetUpStep == ASSUME IInv, NEW v \in Fits, SetUp(v) PROVE IInv'
<1> USE DEF SetUp, SetParams
<1> DEFINE r0 == [i \in 1 .. NResos |-> Reso(i, NoGroup)]
           r1 == SetSample(r0, 1, scans[1])
           f  == [set |-> 1, scan |-> scans[1], resos |-> r1]
<1>1. /\ 1 \in 1 .. Len(scans) /\ scans[1] \in Groups /\ 1 \in Groups
      /\ NResos \in Nat /\ 1 \in 1 .. NResos
      /\ \A i \in 1 .. NResos : i \in Groups
  BY FitAssumption DEF IInv, TypeOK, Groups
<1>2. /\ r0 \in [1 .. NResos -> Resolutions]
      /\ \A i \in 1 .. NResos : r0[i].file = i
  BY <1>1 DEF Reso, Resolutions
<1>3. /\ r1 \in [1 .. NResos -> Resolutions]
      /\ \A i \in 1 .. NResos : r1[i].file = i
      /\ r1[1].sample = scans[1]
  <2> DEFINE n == [r0[1] EXCEPT !.sample = scans[1]]
  <2>1. n \in Resolutions /\ n.file = r0[1].file /\ n.sample = scans[1]
    BY <1>1, <1>2 DEF Resolutions
  <2>2. r1 = [r0 EXCEPT ![1] = n]
    BY DEF SetSample
  <2> HIDE DEF n, r0
  <2> QED
    BY <1>1, <1>2, <2>1, <2>2
<1> HIDE DEF r0, r1
<1>4. f \in Fkts /\ fkt' \in [Objects -> Fkts] /\ fkt'["mod"] = f
  <2>1. r1 \in Seq(Resolutions)
    BY <1>3, ResosAreSeq
  <2>2. f \in Fkts
    BY <1>1, <2>1 DEF Fkts
  <2>3. fkt' = [fkt EXCEPT !["mod"] = f]
    BY DEF r1, r0
  <2> QED
    BY <2>2, <2>3 DEF IInv, TypeOK, Objects
<1>5. /\ sqw' \in [Objects -> [temp : Temps, fit : Fits]]
      /\ sqw'["mod"].temp = temp[scans[1]] /\ sqw'["mod"].fit = v
  BY <1>1 DEF IInv, TypeOK, Objects
<1>6. TypeOK'
  BY <1>4, <1>5 DEF IInv, TypeOK, ParamsChanged
<1>7. ScansInv'
  BY DEF IInv, ScansInv, InOrder
<1>8. ObjectInv'
  <2>1. GetTASReso(f) = r1[1]
    BY DEF GetTASReso
  <2>2. GetTASReso(f)' = GetTASReso(f)
    BY DEF GetTASReso, MultiFit, r1, r0, SetSample
  <2> QED
    BY <1>1, <1>3, <1>4, <1>5, <2>1 DEF ObjectInv, Live, GetTASReso, MultiFit
<1>9. AskedInv'
  BY <1>5 DEF AskedInv
<1>10. OwnScan' /\ FitInForce' /\ (~Shared => MeasuredConditions') /\ LoadedInstrument'
  BY DEF IInv, OwnScan, FitInForce, MeasuredConditions, OwnInstrument, LoadedInstrument, InOrder
<1> QED
  BY <1>6, <1>7, <1>8, <1>9, <1>10 DEF IInv

LEMMA StartChi2Step == ASSUME IInv, NEW v \in Fits, StartChi2(v) PROVE IInv'
<1> USE DEF StartChi2, SetParams
<1>1. fkt' \in [Objects -> Fkts] /\ \A o \in Objects : fkt'[o] = fkt["mod"]
  BY DEF IInv, TypeOK, Objects
<1>2. /\ sqw' \in [Objects -> [temp : Temps, fit : Fits]]
      /\ sqw'[Vars("copy")].fit = v
      /\ ~Shared => \A o \in Objects : sqw'[o].temp = sqw["mod"].temp
  BY VarsType DEF IInv, TypeOK, Objects
<1>3. TypeOK'
  BY <1>1, <1>2, FitAssumption DEF IInv, TypeOK, ParamsChanged
<1>4. ScansInv'
  BY DEF IInv, ScansInv, InOrder
<1>5. ObjectInv'
  BY <1>1, <1>2 DEF IInv, ObjectInv, Live, GetTASReso, MultiFit, Objects
<1>6. AskedInv'
  BY <1>2 DEF AskedInv, Vars, IInv, TypeOK
<1>7. OwnScan' /\ FitInForce' /\ (~Shared => MeasuredConditions') /\ LoadedInstrument'
  BY DEF IInv, OwnScan, FitInForce, MeasuredConditions, OwnInstrument, LoadedInstrument, InOrder
<1> QED
  BY <1>3, <1>4, <1>5, <1>6, <1>7 DEF IInv

LEMMA FitDoneStep == ASSUME IInv, NEW v \in Fits, FitDone(v) PROVE IInv'
<1> USE DEF FitDone, SetParams
<1>1. /\ sqw' \in [Objects -> [temp : Temps, fit : Fits]]
      /\ sqw'["mod"].fit = v
      /\ \A o \in Objects : sqw'[o].temp = sqw[o].temp
  BY DEF IInv, TypeOK, Objects
<1>2. TypeOK'
  BY <1>1, FitAssumption DEF IInv, TypeOK, ParamsChanged
<1>3. ScansInv' /\ AskedInv'
  BY <1>1 DEF IInv, ScansInv, InOrder, AskedInv, Vars
<1>4. ObjectInv'
  BY <1>1 DEF IInv, ObjectInv, Live, GetTASReso, MultiFit
<1>5. OwnScan' /\ FitInForce' /\ (~Shared => MeasuredConditions') /\ LoadedInstrument'
  BY DEF IInv, OwnScan, FitInForce, MeasuredConditions, OwnInstrument, LoadedInstrument, InOrder
<1> QED
  BY <1>2, <1>3, <1>4, <1>5 DEF IInv

\* Steps that only move on to the next part of the job.
LEMMA MoveStep ==
  ASSUME IInv, GiveUp \/ EndChi2 \/ SkipFit \/ Saved \/ UNCHANGED vars
  PROVE  IInv'
<1> USE DEF GiveUp, EndChi2, SkipFit, Saved, vars
<1>1. UNCHANGED <<temp, scans, fkt, sqw, rand, evals, asked, seen>>
  OBVIOUS
<1>2. TypeOK'
  BY <1>1, FitAssumption DEF IInv, TypeOK
<1>3. ScansInv'
  BY DEF IInv, ScansInv, InOrder
<1>4. ObjectInv'
  BY DEF IInv, ObjectInv, Live, GetTASReso, MultiFit
<1>5. AskedInv'
  <2>1. CASE EndChi2
    <3>1. evals # 0
      BY <2>1 DEF IInv, AskedInv
    <3> QED
      BY <2>1, <3>1 DEF IInv, AskedInv, Vars
  <2>2. CASE ~EndChi2
    BY <2>2 DEF IInv, AskedInv, Vars
  <2> QED
    BY <2>1, <2>2
<1>6. OwnScan' /\ FitInForce' /\ (~Shared => MeasuredConditions') /\ LoadedInstrument'
  BY DEF IInv, OwnScan, FitInForce, MeasuredConditions, OwnInstrument, LoadedInstrument, InOrder
<1> QED
  BY <1>2, <1>3, <1>4, <1>5, <1>6 DEF IInv

LEMMA Initially == Init => IInv
<1> SUFFICES ASSUME Init PROVE IInv
  OBVIOUS
<1> USE DEF Init
<1>1. NoFkt \in Fkts
  <2>1. 1 \in Groups
    BY FitAssumption DEF Groups
  <2>2. <<Reso(1, NoGroup)>> \in Seq(Resolutions)
    BY <2>1 DEF Reso, Resolutions
  <2> QED
    BY <2>1, <2>2 DEF NoFkt, Fkts
<1>2. TypeOK
  <2>1. next \in 1 .. NGroups + 1 /\ evals \in 0 .. MaxChi2
    BY FitAssumption
  <2>2. fkt \in [Objects -> Fkts]
    BY <1>1
  <2>3. sqw \in [Objects -> [temp : Temps, fit : Fits]] /\ asked \in Fits
    OBVIOUS
  <2> QED
    BY <2>1, <2>2, <2>3 DEF TypeOK
<1>3. ScansInv /\ ObjectInv /\ AskedInv
  BY FitAssumption DEF ScansInv, InOrder, ObjectInv, Live, AskedInv
<1> QED
  BY <1>2, <1>3 DEF IInv, OwnScan, FitInForce, MeasuredConditions, OwnInstrument, LoadedInstrument, InOrder

LEMMA Inductive == IInv /\ [Next]_vars => IInv'
<1> SUFFICES ASSUME IInv, [Next]_vars PROVE IInv'
  OBVIOUS
<1>1. CASE LoadScans
  BY <1>1, LoadScansStep
<1>2. CASE GiveUp \/ EndChi2 \/ SkipFit \/ Saved \/ UNCHANGED vars
  BY <1>2, MoveStep
<1>3. CASE Chi2Set
  <2>1. next \in 1 .. Len(scans)
    BY <1>3 DEF Chi2Set, IInv, TypeOK
  <2>2. Live("copy") /\ "copy" \in Objects
    BY <1>3, LiveObjects DEF Chi2Set, Live, Objects
  <2>3. /\ pc = "chi2" /\ Evaluate("copy", next) /\ next' = next + 1
        /\ UNCHANGED <<pc, temp, scans, evals, asked>>
    BY <1>3 DEF Chi2Set
  <2> QED
    BY <2>1, <2>2, <2>3, EvaluateStep, Zenon
<1>4. CASE SaveSet
  <2>1. next \in 1 .. Len(scans)
    BY <1>4 DEF SaveSet, IInv, TypeOK
  <2>2. Live("mod") /\ "mod" \in Objects
    BY <1>4, LiveObjects DEF SaveSet, Live, Objects
  <2>3. /\ pc = "save" /\ Evaluate("mod", next) /\ next' = next + 1
        /\ UNCHANGED <<pc, temp, scans, evals, asked>>
    BY <1>4 DEF SaveSet
  <2> QED
    BY <2>1, <2>2, <2>3, EvaluateStep, Zenon
<1>5. ASSUME NEW v \in Fits, SetUp(v) \/ StartChi2(v) \/ FitDone(v) PROVE IInv'
  BY <1>5, SetUpStep, StartChi2Step, FitDoneStep
<1> QED
  BY <1>1, <1>2, <1>3, <1>4, <1>5 DEF Next

\* For every job the invariant holds in every reachable state.
THEOREM Invariance == Spec => []IInv
  BY Initially, Inductive, PTL DEF Spec

\* Every variable keeps its type.
THEOREM TypeCorrect == Spec => []TypeOK
<1>1. IInv => TypeOK
  BY DEF IInv
<1> QED
  BY <1>1, Invariance, PTL

\* Every evaluation uses the scan and sample of its group and the parameters
\* that were asked for, whatever was evaluated before and with which object;
\* and, as long as no group before has been left out (run_job), its instrument.
THEOREM Inputs == Spec => []OwnInputs
<1>1. IInv => OwnInputs
  BY DEF IInv, OwnInputs
<1> QED
  BY <1>1, Invariance, PTL

\* If copies have variables of their own, every group is evaluated at its own
\* temperature.
THEOREM Conditions == ASSUME ~Shared PROVE Spec => []MeasuredConditions
<1>1. IInv => MeasuredConditions
  BY DEF IInv
<1> QED
  BY <1>1, Invariance, PTL

\* If no group fails to load, every group is evaluated with its instrument.
THEOREM Instruments == ASSUME ~MayFail PROVE Spec => []OwnInstrument
<1>1. IInv => OwnInstrument
  BY DEF IInv, ScansInv, LoadedInstrument
<1> QED
  BY <1>1, Invariance, PTL
-----------------------------------------------------------------------------
(* The same evaluation gives the same result.                              *)

\* A set that is evaluated has its place and starts from the seed.
LEMMA EvaluateSame ==
  ASSUME IInv, SameInv, NEW o \in Objects, Live(o), next \in 1 .. Len(scans),
         Evaluate(o, next), next' = next + 1,
         UNCHANGED <<pc, temp, scans, evals, asked>>,
         \/ pc = "chi2" /\ o = "copy"
         \/ pc = "save" /\ o = "mod"
  PROVE  SameInv'
<1> DEFINE r == Result(o, next)
<1>1. /\ r.group = scans[next] /\ r.reso.file = Used(next)
      /\ fkt'[o].set = next
  <2> DEFINE f == SetParamSet(o, next)
  <2>1. /\ f.set = next /\ f.resos \in [1 .. NResos -> Resolutions]
        /\ \A j \in 1 .. NResos : f.resos[j].file = j
        /\ GetTASReso(f) = f.resos[Used(next)]
    BY SetParamSetResult
  <2>2. Used(next) \in 1 .. NResos
    BY UsedInRange
  <2>3. fkt'[o] = f
    BY DEF Evaluate, IInv, TypeOK
  <2>4. r.group = scans[next] /\ r.reso = GetTASReso(f)
    BY DEF Result
  <2> HIDE DEF f, r
  <2> QED
    BY <2>1, <2>2, <2>3, <2>4
<1>2. seen' = seen \cup {r}
  BY DEF Evaluate
<1>3. Increasing'
  BY DEF SameInv, Increasing
<1>4. SeenInPlace'
  <2>1. \A i : Used(i)' = Used(i)
    BY DEF Used, MultiFit
  <2>2. r.group = scans[next] /\ r.reso.file = Used(next) /\ next \in 1 .. Len(scans)
    BY <1>1
  <2> HIDE DEF r
  <2> QED
    BY <1>2, <2>1, <2>2 DEF SameInv, SeenInPlace
<1>5. ASSUME Recycle PROVE SeedInv'
  <2>1. r.rand = "seed"
    <3>1. CASE next = 1
      BY <1>5, <3>1 DEF SameInv, SeedInv, Follows, Result, ParamsChanged
    <3>2. CASE next # 1
      <4>1. fkt[o].set = next - 1 /\ fkt[o].set # next
        BY <1>5, <3>2 DEF SameInv, SeedInv, Follows, IInv, TypeOK
      <4>2. MultiFit
        BY <3>2, UsedInRange
      <4>3. Switches(o, next)
        BY <4>1, <4>2 DEF Switches
      <4> QED
        BY <1>5, <4>3 DEF Result, ParamsChanged
    <3> QED
      BY <3>1, <3>2
  <2>2. next' # 1 /\ fkt'[o].set = next' - 1
    BY <1>1 DEF IInv, TypeOK
  <2> HIDE DEF r
  <2> QED
    BY <1>2, <1>5, <2>1, <2>2 DEF SameInv, SeedInv, Follows
<1> QED
  BY <1>3, <1>4, <1>5 DEF SameInv

\* The groups stay in order when one more is loaded.
LEMMA LoadScansSame == ASSUME IInv, SameInv, LoadScans PROVE SameInv'
<1> USE DEF LoadScans
<1>1. next \in Groups /\ scans \in Seq(Groups) /\ next \in Nat
  BY FitAssumption DEF IInv, TypeOK, Groups
<1>2. seen = {} /\ seen' = {}
  BY DEF SameInv, Increasing
<1>3. Increasing'
  <2>1. /\ \A i, j \in 1 .. Len(scans) : i < j => scans[i] < scans[j]
        /\ \A i \in 1 .. Len(scans) : scans[i] < next /\ scans[i] \in Int
    <3>1. \A i \in 1 .. Len(scans) : scans[i] \in Int
      BY <1>1, FitAssumption DEF Groups
    <3>2. pc = "scans" /\ Increasing
      BY DEF SameInv
    <3>3. \A i \in 1 .. Len(scans) : scans[i] < next
      BY <3>2 DEF Increasing
    <3>4. \A i, j \in 1 .. Len(scans) : i < j => scans[i] < scans[j]
      BY <3>2 DEF Increasing
    <3> QED
      BY <3>1, <3>3, <3>4
  <2>2. CASE scans' = Append(scans, next)
    <3>1. /\ Len(scans') = Len(scans) + 1 /\ scans'[Len(scans) + 1] = next
          /\ \A i \in 1 .. Len(scans) : scans'[i] = scans[i]
      BY <1>1, <2>2, AppendProperties
    <3>2. Len(scans) \in Nat
      BY <1>1
    <3> QED
      BY <1>1, <1>2, <2>1, <3>1, <3>2 DEF Increasing
  <2>3. CASE UNCHANGED scans
    BY <1>1, <1>2, <2>1, <2>3 DEF Increasing
  <2> QED
    BY <2>2, <2>3
<1>4. SeenInPlace' /\ SeedInv'
  BY <1>2 DEF SeenInPlace, SeedInv, SameInv
<1> QED
  BY <1>3, <1>4 DEF SameInv

\* Steps in which no group is loaded or evaluated.
LEMMA OtherSame ==
  ASSUME IInv, SameInv,
         \/ GiveUp \/ EndChi2 \/ SkipFit \/ Saved \/ UNCHANGED vars
         \/ \E v \in Fits : SetUp(v) \/ StartChi2(v) \/ FitDone(v)
  PROVE  SameInv'
<1> USE DEF GiveUp, EndChi2, SkipFit, Saved, vars, SetUp, StartChi2, FitDone, SetParams
<1>1. UNCHANGED <<scans, seen>> /\ (pc' = "scans" => pc = "scans" /\ next' = next)
  OBVIOUS
<1>2. Increasing'
  BY <1>1 DEF SameInv, Increasing
<1>3. SeenInPlace'
  BY <1>1 DEF SameInv, SeenInPlace, Used, MultiFit
<1>4. ASSUME Recycle PROVE SeedInv'
  <2>1. SeedInv
    BY <1>4 DEF SameInv
  <2>2. CASE GiveUp \/ Saved \/ UNCHANGED vars
    BY <2>1, <2>2 DEF SeedInv, Follows
  <2>3. CASE EndChi2
    <3>1. evals \in Nat /\ evals > 0
      BY <2>3 DEF IInv, AskedInv, TypeOK
    <3> QED
      BY <2>1, <2>3, <3>1 DEF SeedInv
  <2>4. CASE SkipFit
    BY <2>1, <2>4 DEF SeedInv, Follows
  <2>5. CASE \E v \in Fits : SetUp(v) \/ StartChi2(v) \/ FitDone(v)
    BY <1>4, <2>1, <2>5 DEF SeedInv, Follows, ParamsChanged
  <2> QED
    BY <2>2, <2>3, <2>4, <2>5
<1> QED
  BY <1>2, <1>3, <1>4 DEF SameInv

\* The strengthened invariant holds in every reachable state.
LEMMA Sameness == Spec => []SameInv
<1>1. Init => SameInv
  BY DEF Init, SameInv, Increasing, SeenInPlace, SeedInv
<1>2. IInv /\ SameInv /\ [Next]_vars => SameInv'
  <2> SUFFICES ASSUME IInv, SameInv, [Next]_vars PROVE SameInv'
    OBVIOUS
  <2>1. CASE LoadScans
    BY <2>1, LoadScansSame
  <2>2. CASE Chi2Set
    <3>1. next \in 1 .. Len(scans)
      BY <2>2 DEF Chi2Set, IInv, TypeOK
    <3>2. Live("copy") /\ "copy" \in Objects
      BY <2>2 DEF Chi2Set, Live, Objects
    <3>3. /\ pc = "chi2" /\ Evaluate("copy", next) /\ next' = next + 1
          /\ UNCHANGED <<pc, temp, scans, evals, asked>>
      BY <2>2 DEF Chi2Set
    <3> QED
      BY <3>1, <3>2, <3>3, EvaluateSame, Zenon
  <2>3. CASE SaveSet
    <3>1. next \in 1 .. Len(scans)
      BY <2>3 DEF SaveSet, IInv, TypeOK
    <3>2. Live("mod") /\ "mod" \in Objects
      BY <2>3 DEF SaveSet, Live, Objects
    <3>3. /\ pc = "save" /\ Evaluate("mod", next) /\ next' = next + 1
          /\ UNCHANGED <<pc, temp, scans, evals, asked>>
      BY <2>3 DEF SaveSet
    <3> QED
      BY <3>1, <3>2, <3>3, EvaluateSame, Zenon
  <2>4. CASE \/ GiveUp \/ EndChi2 \/ SkipFit \/ Saved \/ UNCHANGED vars
             \/ \E v \in Fits : SetUp(v) \/ StartChi2(v) \/ FitDone(v)
    BY <2>4, OtherSame
  <2> QED
    BY <2>1, <2>2, <2>3, <2>4 DEF Next
<1> QED
  BY <1>1, <1>2, Invariance, PTL DEF Spec

\* If the neutrons are recycled and copies have variables of their own, a
\* group's chi^2 depends on the fit parameters alone: whenever it is evaluated,
\* in the fit or when the result is saved, everything that goes in is the same.
THEOREM SameResult == ASSUME Recycle, ~Shared PROVE Spec => []Reproducible
<1>1. IInv /\ SameInv => Reproducible
  <2> SUFFICES ASSUME IInv, SameInv, NEW r \in seen, NEW s \in seen,
                      r.group = s.group, r.fit = s.fit
               PROVE  r = s
    BY DEF Reproducible
  <2>1. r \in Results /\ s \in Results
    BY DEF IInv, TypeOK
  <2>2. r.scan = s.scan /\ r.reso.sample = s.reso.sample /\ r.asked = s.asked
    BY DEF IInv, OwnScan, FitInForce
  <2>3. r.temp = s.temp
    BY DEF IInv, MeasuredConditions
  <2>4. r.rand = s.rand
    BY DEF SameInv, SeedInv
  <2>5. r.reso.file = s.reso.file
    <3>1. PICK i \in 1 .. Len(scans) : scans[i] = r.group /\ r.reso.file = Used(i)
      BY DEF SameInv, SeenInPlace
    <3>2. PICK j \in 1 .. Len(scans) : scans[j] = s.group /\ s.reso.file = Used(j)
      BY DEF SameInv, SeenInPlace
    <3>3. scans[i] \in Int /\ i \in Int /\ j \in Int
      BY FitAssumption DEF IInv, TypeOK, Groups
    <3>4. i = j
      BY <3>1, <3>2, <3>3 DEF SameInv, Increasing
    <3> QED
      BY <3>1, <3>2, <3>4
  <2>6. r.reso = s.reso
    <3>1. r.reso \in Resolutions /\ s.reso \in Resolutions
      BY <2>1 DEF Results
    <3>2. \A a, b \in Resolutions : a.file = b.file /\ a.sample = b.sample => a = b
      BY DEF Resolutions
    <3> QED
      BY <2>2, <2>5, <3>1, <3>2
  <2> QED
    BY <2>1, <2>2, <2>3, <2>4, <2>6 DEF Results
<1> QED
  BY <1>1, Invariance, Sameness, PTL

-----------------------------------------------------------------------------
(* The built-in models.                                                    *)


AllValues == Values \union {Missing}

LEMMA KindFacts ==
  /\ VarNames("elastic") = {} /\ VarNames("kdtree") = {}
  /\ VarNames("table1d") = {"columns", "G"}
  /\ VarNames("phonon") = {"grid", "G", "TA", "line"}
  /\ VarNames("phonon_single") = {"G", "amp", "line"}
  /\ VarNames("magnon") = {"G", "disp", "line"}
  /\ Vectors("phonon") = {"G", "TA"}
  /\ "none" \notin Kinds
BY DEF VarNames, TableVars, PhononVars, SingleVars, MagnonVars, Vectors, Kinds

LEMMA ObjectFacts ==
  ASSUME NEW m \in ModelObjects
  PROVE  /\ m.kind \in Kinds /\ m.ok \in BOOLEAN /\ m.data \in {NoData, "file"}
         /\ m.mem \in MemberValues(m.kind) /\ m.mem \in [VarNames(m.kind) -> AllValues]
         /\ m.tree \in Trees \union {NoTree}
         /\ m.fit \in SUBSET VarNames(m.kind)
         /\ m = [kind |-> m.kind, ok |-> m.ok, data |-> m.data, mem |-> m.mem,
                 tree |-> m.tree, fit |-> m.fit]
         /\ m # NoModel
<1>1. PICK k \in Kinds :
        m \in [kind : {k}, ok : BOOLEAN, data : {NoData, "file"}, mem : MemberValues(k),
               tree : Trees \union {NoTree}, fit : SUBSET VarNames(k)]
  BY DEF ModelObjects
<1>2. m.kind = k /\ m.mem \in MemberValues(k) /\ m.fit \in SUBSET VarNames(k)
  BY <1>1
<1>3. m.mem \in [VarNames(k) -> AllValues]
  BY <1>2 DEF MemberValues, AllValues
<1>4. m # NoModel
  BY <1>2, KindFacts DEF NoModel
<1> QED
  BY <1>1, <1>2, <1>3, <1>4

LEMMA MakeObject ==
  ASSUME NEW k \in Kinds, NEW ok \in BOOLEAN, NEW d \in {NoData, "file"},
         NEW f \in MemberValues(k), NEW t \in Trees \union {NoTree},
         NEW F \in SUBSET VarNames(k)
  PROVE  [kind |-> k, ok |-> ok, data |-> d, mem |-> f, tree |-> t, fit |-> F]
           \in ModelObjects
BY DEF ModelObjects

LEMMA ChangeObject ==
  ASSUME NEW m \in ModelObjects
  PROVE  /\ \A f \in MemberValues(m.kind) : [m EXCEPT !.mem = f] \in ModelObjects
         /\ \A t \in Trees : [m EXCEPT !.tree = t] \in ModelObjects
         /\ \A F \in SUBSET VarNames(m.kind) : [m EXCEPT !.fit = F] \in ModelObjects
<1>1. /\ m.kind \in Kinds /\ m.ok \in BOOLEAN /\ m.data \in {NoData, "file"}
      /\ m.mem \in MemberValues(m.kind) /\ m.tree \in Trees \union {NoTree}
      /\ m.fit \in SUBSET VarNames(m.kind)
      /\ m = [kind |-> m.kind, ok |-> m.ok, data |-> m.data, mem |-> m.mem,
              tree |-> m.tree, fit |-> m.fit]
  BY ObjectFacts
<1>2. ASSUME NEW f \in MemberValues(m.kind) PROVE [m EXCEPT !.mem = f] \in ModelObjects
  <2>1. [m EXCEPT !.mem = f] =
          [kind |-> m.kind, ok |-> m.ok, data |-> m.data, mem |-> f,
           tree |-> m.tree, fit |-> m.fit]
    BY <1>1
  <2> QED
    BY <1>1, <2>1, MakeObject
<1>3. ASSUME NEW t \in Trees PROVE [m EXCEPT !.tree = t] \in ModelObjects
  <2>1. [m EXCEPT !.tree = t] =
          [kind |-> m.kind, ok |-> m.ok, data |-> m.data, mem |-> m.mem,
           tree |-> t, fit |-> m.fit]
    BY <1>1
  <2> QED
    BY <1>1, <2>1, MakeObject
<1>4. ASSUME NEW F \in SUBSET VarNames(m.kind)
      PROVE  [m EXCEPT !.fit = F] \in ModelObjects
  <2>1. [m EXCEPT !.fit = F] =
          [kind |-> m.kind, ok |-> m.ok, data |-> m.data, mem |-> m.mem,
           tree |-> m.tree, fit |-> F]
    BY <1>1
  <2> QED
    BY <1>1, <2>1, MakeObject
<1> QED
  BY <1>2, <1>3, <1>4

-----------------------------------------------------------------------------
(* Lists of variables.                                                     *)

LEMMA ListTypes ==
  ASSUME NEW k \in Kinds, NEW l \in Lists(k)
  PROVE  DOMAIN l \subseteq VarNames(k) /\ l \in [DOMAIN l -> AllValues]
BY DEF Lists, AllValues

LEMMA GivenTypes ==
  ASSUME NEW k \in Kinds, NEW f \in Given(k)
  PROVE  DOMAIN f \subseteq VarNames(k) /\ f \in [DOMAIN f -> AllValues]
<1>1. CASE ReadsData(k)
  <2>1. f = <<>>
    BY <1>1 DEF Given
  <2> QED BY <2>1
<1>2. CASE ~ReadsData(k)
  <2>1. PICK T \in {U \in SUBSET VarNames(k) : U = {} \/ Cardinality(VarNames(k) \ U) < 2} :
             f \in [T -> Values]
    BY <1>2 DEF Given
  <2>2. DOMAIN f = T /\ T \subseteq VarNames(k)
    BY <2>1
  <2> QED
    BY <2>1, <2>2 DEF AllValues
<1> QED BY <1>1, <1>2

LEMMA OverTypes ==
  ASSUME NEW S, NEW f \in [S -> AllValues], NEW l, l \in [DOMAIN l -> AllValues]
  PROVE  Over(l, f) \in [S -> AllValues]
BY DEF Over

LEMMA ExamplesType ==
  ASSUME NEW k \in Kinds, NEW f \in [VarNames(k) -> AllValues]
  PROVE  Examples(k, f) \in MemberValues(k)
<1>1. CASE k = "phonon"
  <2>1. \A x \in Vectors(k) : x \in VarNames(k)
    BY <1>1, KindFacts
  <2>2. CASE \E x \in Vectors(k) : f[x] = Missing
    <3>1. Examples(k, f) = [f EXCEPT !["G"] = Default, !["TA"] = Default]
      BY <1>1, <2>2 DEF Examples
    <3> QED
      BY <1>1, <3>1, KindFacts, ModelsAssumption DEF MemberValues, AllValues
  <2>3. CASE ~\E x \in Vectors(k) : f[x] = Missing
    <3>1. Examples(k, f) = f
      BY <1>1, <2>3 DEF Examples
    <3> QED
      BY <1>1, <2>3, <3>1, KindFacts DEF MemberValues, AllValues
  <2> QED
    BY <2>2, <2>3
<1>2. CASE k # "phonon"
  BY <1>2 DEF Examples, MemberValues, AllValues
<1> QED
  BY <1>1, <1>2

\* A list that does not rebuild a phonon's tree leaves its examples away.
LEMMA LineOnly ==
  ASSUME NEW k \in Kinds, NEW f \in MemberValues(k),
         NEW l, l \in [DOMAIN l -> AllValues],
         k = "phonon" => DOMAIN l \subseteq {"line"}
  PROVE  Over(l, f) \in MemberValues(k) /\ Examples(k, Over(l, f)) = Over(l, f)
<1>1. f \in [VarNames(k) -> AllValues]
  BY DEF MemberValues, AllValues
<1>2. Over(l, f) \in [VarNames(k) -> AllValues]
  BY <1>1, OverTypes
<1>3. CASE k = "phonon"
  <2>1. f["G"] # Missing /\ f["TA"] # Missing
    BY <1>3 DEF MemberValues
  <2>2. Over(l, f)["G"] = f["G"] /\ Over(l, f)["TA"] = f["TA"]
    BY <1>1, <1>3, KindFacts DEF Over
  <2> QED
    BY <1>2, <1>3, <2>1, <2>2, KindFacts DEF MemberValues, Examples, AllValues
<1>4. CASE k # "phonon"
  BY <1>2, <1>4 DEF MemberValues, Examples, AllValues
<1> QED
  BY <1>3, <1>4

LEMMA CompletedType ==
  ASSUME NEW k \in Kinds, NEW f \in [VarNames(k) -> AllValues]
  PROVE  Completed(k, f) \in MemberValues(k)
<1>1. CASE k = "phonon"
  BY <1>1, ExamplesType DEF Completed
<1>2. CASE k = "phonon_single"
  <2>1. Completed(k, f) = SingleCompleted(f)
    BY <1>2 DEF Completed
  <2> QED
    BY <1>2, <2>1, ModelsAssumption DEF SingleCompleted, MemberValues, AllValues
<1>3. CASE k = "magnon"
  <2>1. Completed(k, f) = MagnonCompleted(f)
    BY <1>3 DEF Completed
  <2> QED
    BY <1>3, <2>1, ModelsAssumption DEF MagnonCompleted, MemberValues, AllValues
<1>4. CASE k \in {"elastic", "kdtree", "table1d"}
  <2>1. Completed(k, f) = f
    BY <1>4 DEF Completed
  <2> QED
    BY <1>4, <2>1 DEF MemberValues, AllValues
<1> QED
  BY <1>1, <1>2, <1>3, <1>4 DEF Kinds

LEMMA MembersType ==
  ASSUME NEW k \in Kinds
  PROVE  Members(k) \in MemberValues(k) \/ k = "phonon"
BY ModelsAssumption DEF Members, MemberValues

LEMMA MembersValues ==
  ASSUME NEW k \in Kinds
  PROVE  Members(k) \in [VarNames(k) -> AllValues]
BY ModelsAssumption DEF Members, AllValues

-----------------------------------------------------------------------------
(* Trees.                                                                  *)

\* There is always a tree that no model owns.
LEMMA NewTree == MdTypeOK => \E t \in Trees : t \in Unused
<1> SUFFICES ASSUME MdTypeOK PROVE \E t \in Trees : t \in Unused
  OBVIOUS
<1> DEFINE f == [o \in Models |-> IF Alive(o) THEN obj[o].tree ELSE NoTree]
<1>1. \A o \in Models : Alive(o) => obj[o].tree \in Trees \union {NoTree}
  BY ObjectFacts DEF MdTypeOK, Alive
<1>2. f \in [Models -> Trees \union {NoTree}]
  BY <1>1
<1>3. PICK t \in Trees : \A o \in Models : f[o] # t
  BY <1>2, ModelsAssumption
<1> QED
  BY <1>3 DEF Unused

\* What a tree holds is given by the kind, the data and the members.
LEMMA ContentFacts ==
  ASSUME NEW m \in ModelObjects, NEW n \in ModelObjects, HasTree(m.kind),
         n.kind = m.kind, n.data = m.data,
         m.kind = "phonon" =>
           \A x \in {"grid", "G", "TA"} : n.mem[x] = m.mem[x],
         m.kind = "table1d" => n.mem["columns"] = m.mem["columns"]
  PROVE  Content(n) = Content(m)
BY DEF Content, KdTree, TableTree, PhononTree, Kept, HasTree

\* What the histories say of another object than o stays.
Kept1(o) ==
  /\ DOMAIN wanted' = Models /\ derived' \in [Models -> BOOLEAN]
  /\ \A p \in Models \ {o} : wanted'[p] = wanted[p] /\ derived'[p] = derived[p]

\* An object that becomes m, without a new tree.
LEMMA PlainKeeps ==
  ASSUME MdIInv, NEW o \in Models, NEW m \in ModelObjects, Kept1(o),
         obj' = [obj EXCEPT ![o] = m], UNCHANGED heap,
         ~(derived'[o] /\ m.kind = "table1d") => m.mem = wanted'[o],
         m.ok /\ HasTree(m.kind) =>
           /\ m.tree \in Trees
           /\ ~(derived'[o] /\ m.kind = "table1d") => heap[m.tree] = Content(m)
  PROVE  MdIInv'
<1>1. MdTypeOK'
  BY DEF MdIInv, MdTypeOK, Kept1
<1>2. obj'[o] = m /\ \A p \in Models \ {o} : obj'[p] = obj[p]
  BY DEF MdIInv, MdTypeOK
<1>3. ASSUME NEW p \in Models PROVE Content(obj[p])' = Content(obj'[p])
  BY DEF Content, KdTree, TableTree, PhononTree, Kept
<1>4. MembersInv'
  BY <1>2 DEF MdIInv, MembersInv, Stale, Alive, Kept1
<1>5. TreesInv'
  BY <1>2, <1>3 DEF MdIInv, TreesInv, Stale, Alive, Kept1
<1> QED
  BY <1>1, <1>4, <1>5 DEF MdIInv

\* An object that becomes m, with a new tree: no other object has it.
LEMMA CreateKeeps ==
  ASSUME MdIInv, NEW o \in Models, NEW m \in ModelObjects, Kept1(o),
         HasTree(m.kind), Create(o, m),
         ~(derived'[o] /\ m.kind = "table1d") => m.mem = wanted'[o]
  PROVE  MdIInv'
<1> DEFINE t == CHOOSE u \in Unused : TRUE
           n == [m EXCEPT !.tree = t]
<1>1. t \in Trees /\ t \in Unused
  BY NewTree DEF MdIInv, Unused
<1>2. obj' = [obj EXCEPT ![o] = n] /\ heap' = Loaded(t, m)
  BY DEF Create
<1> HIDE DEF t
<1>3. n \in ModelObjects
  BY <1>1, ChangeObject
<1>4. /\ m = [kind |-> m.kind, ok |-> m.ok, data |-> m.data, mem |-> m.mem,
              tree |-> m.tree, fit |-> m.fit]
  BY ObjectFacts
<1>5. n.kind = m.kind /\ n.data = m.data /\ n.mem = m.mem /\ n.tree = t
  BY <1>4
<1>6. Content(n) = Content(m)
  BY <1>3, <1>5, ContentFacts
<1> HIDE DEF n
<1>7. obj'[o] = n /\ \A p \in Models \ {o} : obj'[p] = obj[p]
  BY <1>2 DEF MdIInv, MdTypeOK
<1>8. MdTypeOK'
  BY <1>2, <1>3 DEF MdIInv, MdTypeOK, Kept1, Loaded
<1>9. MembersInv'
  BY <1>5, <1>7 DEF MdIInv, MembersInv, Stale, Alive, Kept1
<1>10. heap'[t] = Content(n)
  BY <1>1, <1>2, <1>6 DEF Loaded
<1>11. ASSUME NEW p \in Models \ {o}, Alive(p), obj[p].tree \in Trees
       PROVE  heap'[obj[p].tree] = heap[obj[p].tree]
  <2>1. obj[p].tree \notin Unused
    BY <1>11 DEF Unused
  <2> QED
    BY <1>1, <1>2, <1>11, <2>1 DEF Loaded
<1>12. ASSUME NEW p \in Models PROVE Content(obj[p])' = Content(obj'[p])
  BY DEF Content, KdTree, TableTree, PhononTree, Kept
<1>13. TreesInv'
  BY <1>1, <1>5, <1>7, <1>10, <1>11, <1>12
  DEF MdIInv, TreesInv, Stale, Alive, Kept1
<1> QED
  BY <1>8, <1>9, <1>13 DEF MdIInv

-----------------------------------------------------------------------------
(* The operations.                                                         *)

LEMMA SetKeeps ==
  ASSUME MdIInv, NEW o \in Models, Alive(o),
         NEW l, l \in [DOMAIN l -> AllValues],
         DOMAIN l \subseteq VarNames(obj[o].kind),
         NEW F \in SUBSET VarNames(obj[o].kind),
         SetVarsAndFit(o, l, F), Asked(o, l), UNCHANGED derived
  PROVE  MdIInv'
<1> DEFINE k == obj[o].kind
           old == obj[o].mem
           w == [WithVars(obj[o], l) EXCEPT !.fit = F]
           e == [w EXCEPT !.mem = Examples(k, @)]
<1>1. obj[o] \in ModelObjects
  BY DEF MdIInv, MdTypeOK, Alive
<1>2. /\ k \in Kinds /\ obj[o].ok \in BOOLEAN
      /\ obj[o].data \in {NoData, "file"}
      /\ old \in MemberValues(k) /\ old \in [VarNames(k) -> AllValues]
      /\ obj[o].tree \in Trees \union {NoTree}
      /\ obj[o] = [kind |-> k, ok |-> obj[o].ok, data |-> obj[o].data,
                   mem |-> old, tree |-> obj[o].tree, fit |-> obj[o].fit]
  BY <1>1, ObjectFacts
<1>3. w = [kind |-> k, ok |-> obj[o].ok, data |-> obj[o].data,
           mem |-> Over(l, old), tree |-> obj[o].tree, fit |-> F]
  <2> DEFINE m == obj[o]
             g == Over(l, m.mem)
             v == [m EXCEPT !.mem = g]
  <2>1. w = [v EXCEPT !.fit = F]
    BY DEF WithVars
  <2>2. v = [kind |-> k, ok |-> m.ok, data |-> m.data, mem |-> g,
             tree |-> m.tree, fit |-> m.fit]
    <3> HIDE DEF g
    <3> QED
      BY <1>2
  <2> HIDE DEF w, v
  <2> QED
    BY <2>1, <2>2
<1>4. e = [kind |-> k, ok |-> obj[o].ok, data |-> obj[o].data,
           mem |-> Examples(k, Over(l, old)), tree |-> obj[o].tree, fit |-> F]
  <2> DEFINE g == Examples(k, w.mem)
  <2>1. e = [w EXCEPT !.mem = g]
    OBVIOUS
  <2>2. g = Examples(k, Over(l, old))
    BY <1>3
  <2> HIDE DEF w, e, g
  <2> QED
    BY <1>3, <2>1, <2>2
<1>5. Over(l, old) \in [VarNames(k) -> AllValues]
  BY <1>2, OverTypes
<1>6. Kept1(o) /\ wanted'[o] = Examples(k, Over(l, wanted[o]))
  BY DEF MdIInv, MdTypeOK, Kept1, Asked
<1>7. ~(derived'[o] /\ k = "table1d") => wanted'[o] = Examples(k, Over(l, old))
  BY <1>6 DEF MdIInv, MembersInv, Stale
<1>8. CASE Rebuilds(w, l)
  <2>1. Create(o, e)
    BY <1>3, <1>8 DEF SetVarsAndFit
  <2>2. HasTree(k)
    BY <1>3, <1>8 DEF Rebuilds, HasTree
  <2>3. e \in ModelObjects
    BY <1>2, <1>4, <1>5, ExamplesType, MakeObject
  <2>4. e.kind = k /\ e.mem = Examples(k, Over(l, old))
    BY <1>4
  <2> HIDE DEF e, w, k, old
  <2> QED
    BY <1>6, <1>7, <2>1, <2>2, <2>3, <2>4, CreateKeeps
<1>9. CASE ~Rebuilds(w, l)
  <2>1. obj' = [obj EXCEPT ![o] = w] /\ UNCHANGED heap
    BY <1>9 DEF SetVarsAndFit
  <2>2. k = "phonon" => DOMAIN l \subseteq {"line"}
    BY <1>3, <1>9 DEF Rebuilds, PhononRebuilds
  <2>3. k = "table1d" /\ obj[o].ok => DOMAIN l = {}
    BY <1>3, <1>9 DEF Rebuilds, TableRebuilds
  <2>4. Over(l, old) \in MemberValues(k) /\ Examples(k, Over(l, old)) = Over(l, old)
    BY <1>2, <2>2, LineOnly
  <2>5. w \in ModelObjects
    BY <1>2, <1>3, <2>4, MakeObject
  <2>6. /\ w.kind = k /\ w.mem = Over(l, old) /\ w.ok = obj[o].ok
        /\ w.tree = obj[o].tree /\ w.data = obj[o].data
    BY <1>3
  <2>7. w.ok /\ HasTree(w.kind) => Content(w) = Content(obj[o])
    <3> SUFFICES ASSUME obj[o].ok, HasTree(k)
                 PROVE  Content(w) = Content(obj[o])
      BY <2>6
    <3>1. k = "phonon" => \A x \in {"grid", "G", "TA"} : w.mem[x] = old[x]
      BY <1>2, <2>2, <2>6, KindFacts DEF Over
    <3>2. k = "table1d" => w.mem["columns"] = old["columns"]
      BY <1>2, <2>3, <2>6, KindFacts DEF Over
    <3> HIDE DEF w
    <3> QED
      BY <1>1, <2>5, <2>6, <3>1, <3>2, ContentFacts
  <2>8. obj[o].ok /\ HasTree(k) =>
          /\ obj[o].tree \in Trees
          /\ ~(derived[o] /\ k = "table1d") =>
               heap[obj[o].tree] = Content(obj[o])
    BY DEF MdIInv, TreesInv, Stale
  <2> HIDE DEF w, k, old
  <2> QED
    BY <1>6, <1>7, <2>1, <2>4, <2>5, <2>6, <2>7, <2>8, PlainKeeps
<1> QED
  BY <1>8, <1>9

LEMMA ConstructKeeps ==
  ASSUME MdIInv, NEW o \in Models, NEW k \in Kinds, NEW d \in {NoData, "file"},
         NEW given \in Given(k), Construct(o, k, d, given)
  PROVE  MdIInv'
<1> DEFINE f == Completed(k, Over(given, Members(k)))
           m == [kind |-> k, ok |-> ReadsData(k) => d # NoData, data |-> d,
                 mem |-> f, tree |-> NoTree, fit |-> {}]
<1>1. f \in MemberValues(k)
  BY MembersValues, GivenTypes, OverTypes, CompletedType
<1> HIDE DEF f
<1>2. m \in ModelObjects
  BY <1>1, MakeObject
<1>3. /\ wanted' = [wanted EXCEPT ![o] = m.mem]
      /\ derived' = [derived EXCEPT ![o] = FALSE]
      /\ IF HasTree(k) /\ m.ok
           THEN Create(o, m)
           ELSE obj' = [obj EXCEPT ![o] = m] /\ UNCHANGED heap
  BY DEF Construct, f
<1>4. m.kind = k
  OBVIOUS
<1> HIDE DEF m
<1>5. Kept1(o) /\ wanted'[o] = m.mem
  BY <1>3 DEF MdIInv, MdTypeOK, Kept1
<1> QED
  BY <1>2, <1>3, <1>4, <1>5, PlainKeeps, CreateKeeps

LEMMA CopyKeeps ==
  ASSUME MdIInv, NEW o \in Models, NEW p \in Models, ShallowCopy(o, p)
  PROVE  MdIInv'
<1> DEFINE m == obj[o]
           c == Copied(m)
<1>1. m \in ModelObjects
  BY DEF MdIInv, MdTypeOK, Alive, ShallowCopy
<1>2. m.kind \in Kinds /\ m.mem \in MemberValues(m.kind)
  BY <1>1, ObjectFacts
<1>3. c \in ModelObjects /\ c.kind = m.kind /\ c.ok = m.ok /\ c.tree = m.tree
  <2>1. CASE m.kind = "table1d"
    <3>1. Members(m.kind) \in MemberValues(m.kind)
      BY <1>2, <2>1, MembersType
    <3>2. c = [m EXCEPT !.mem = Members(m.kind)]
      BY <2>1 DEF Copied
    <3>3. m = [kind |-> m.kind, ok |-> m.ok, data |-> m.data, mem |-> m.mem,
               tree |-> m.tree, fit |-> m.fit]
      BY <1>1, ObjectFacts
    <3> HIDE DEF m, c
    <3> QED
      BY <1>1, <3>1, <3>2, <3>3, ChangeObject
  <2>2. CASE m.kind # "table1d"
    BY <1>1, <2>2 DEF Copied
  <2> QED
    BY <2>1, <2>2
<1>4. m.kind # "table1d" => c = m
  BY DEF Copied
<1>5. Alive(o) /\ o # p
  BY DEF ShallowCopy
<1>6. Kept1(p) /\ derived'[p] /\ wanted'[p] = wanted[o]
  BY DEF MdIInv, MdTypeOK, Kept1, ShallowCopy
<1>7. m.kind # "table1d" => m.mem = wanted[o]
  BY <1>5 DEF MdIInv, MembersInv, Stale
<1>8. m.ok /\ HasTree(m.kind) =>
        /\ m.tree \in Trees
        /\ m.kind # "table1d" => heap[m.tree] = Content(m)
  BY <1>5 DEF MdIInv, TreesInv, Stale
<1>9. obj' = [obj EXCEPT ![p] = c] /\ UNCHANGED heap
  BY DEF ShallowCopy
<1> HIDE DEF m, c
<1> QED
  BY <1>3, <1>4, <1>6, <1>7, <1>8, <1>9, PlainKeeps

LEMMA DeleteKeeps ==
  ASSUME MdIInv, NEW o \in Models, Delete(o)
  PROVE  MdIInv'
<1>1. /\ obj' = [obj EXCEPT ![o] = NoModel]
      /\ UNCHANGED <<heap, wanted, derived>>
  BY DEF Delete
<1>2. obj'[o] = NoModel /\ \A p \in Models \ {o} : obj'[p] = obj[p]
  BY <1>1 DEF MdIInv, MdTypeOK
<1>3. MdTypeOK'
  BY <1>1 DEF MdIInv, MdTypeOK
<1>4. ASSUME NEW p \in Models PROVE Content(obj[p])' = Content(obj'[p])
  BY DEF Content, KdTree, TableTree, PhononTree, Kept
<1>5. MembersInv' /\ TreesInv'
  BY <1>1, <1>2, <1>4 DEF MdIInv, MembersInv, TreesInv, Stale, Alive
<1> QED
  BY <1>3, <1>5 DEF MdIInv

\* The tree that is built and the members, as the model reads them.
LEMMA ReadFacts ==
  ASSUME MdIInv, NEW o \in Models, Alive(o), obj[o].ok, ~Stale(o)
  PROVE  Evaluated(o) = [data |-> obj[o].data, vars |-> obj[o].mem]
<1> DEFINE m == obj[o]
           k == m.kind
<1>1. m \in ModelObjects
  BY DEF MdIInv, MdTypeOK, Alive
<1>2. k \in Kinds /\ m.mem \in [VarNames(k) -> AllValues]
  BY <1>1, ObjectFacts
<1>3. HasTree(k) => heap[m.tree] = Content(m)
  BY DEF MdIInv, TreesInv
<1>4. CASE k = "elastic"
  BY <1>4 DEF Evaluated, ElasticResult, FromMembers
<1>5. CASE k = "phonon_single"
  BY <1>5 DEF Evaluated, SingleResult, FromMembers
<1>6. CASE k = "magnon"
  BY <1>6 DEF Evaluated, MagnonResult, FromMembers
<1>7. CASE k = "kdtree"
  <2>1. heap[m.tree] = [data |-> m.data, vars |-> [x \in {} |-> m.mem[x]]]
    BY <1>3, <1>7 DEF HasTree, Content, KdTree, Kept
  <2>2. Evaluated(o) = FromTree(m, {})
    BY <1>7 DEF Evaluated, KdResult
  <2>3. m.mem = [x \in {} |-> m.mem[x]]
    BY <1>2, <1>7, KindFacts
  <2> DEFINE built == heap[m.tree].vars
  <2>4. DOMAIN built = {} /\ heap[m.tree].data = m.data
    BY <2>1
  <2>5. [x \in DOMAIN built \union {} |->
           IF x \in DOMAIN built THEN built[x] ELSE m.mem[x]] = m.mem
    BY <2>3, <2>4
  <2> QED
    BY <2>2, <2>4, <2>5 DEF FromTree
<1>8. CASE k = "table1d"
  <2>1. heap[m.tree] =
          [data |-> m.data, vars |-> [x \in {"columns"} |-> m.mem[x]]]
    BY <1>3, <1>8 DEF HasTree, Content, TableTree, Kept
  <2>2. Evaluated(o) = FromTree(m, {"G"})
    BY <1>8 DEF Evaluated, TableResult
  <2> QED
    BY <1>2, <1>8, <2>1, <2>2, KindFacts DEF FromTree
<1>9. CASE k = "phonon"
  <2>1. heap[m.tree] =
          [data |-> m.data, vars |-> [x \in {"grid", "G", "TA"} |-> m.mem[x]]]
    BY <1>3, <1>9 DEF HasTree, Content, PhononTree, Kept
  <2>2. Evaluated(o) = FromTree(m, {"line"})
    BY <1>9 DEF Evaluated, PhononResult
  <2> QED
    BY <1>2, <1>9, <2>1, <2>2, KindFacts DEF FromTree
<1> QED
  BY <1>2, <1>4, <1>5, <1>6, <1>7, <1>8, <1>9 DEF Kinds

-----------------------------------------------------------------------------

LEMMA MdInitInv == MdInit => MdIInv
BY DEF MdInit, MdIInv, MdTypeOK, MembersInv, TreesInv, Alive

\* Every call keeps the members of the objects what was asked for, and the
\* trees what is built from them.
LEMMA MdStep == MdIInv /\ [MdNext]_mdvars => MdIInv'
<1> SUFFICES ASSUME MdIInv, [MdNext]_mdvars PROVE MdIInv'
  OBVIOUS
<1>1. \A o \in Models : Alive(o) => obj[o] \in ModelObjects
  BY DEF MdIInv, MdTypeOK, Alive
<1>2. ASSUME NEW o \in Models, NEW k \in Kinds,
             NEW d \in IF ReadsData(k) THEN {NoData, "file"} ELSE {NoData},
             NEW given \in Given(k), Construct(o, k, d, given)
      PROVE  MdIInv'
  BY <1>2, ConstructKeeps
<1>3. ASSUME NEW o \in Models, Alive(o), NEW l \in Lists(obj[o].kind),
             \/ Set(o, l)
             \/ \E marked \in {{}, {"G"}} : SaveSqwParams(o, l, marked)
      PROVE  MdIInv'
  <2>1. obj[o].kind \in Kinds /\ obj[o].fit \in SUBSET VarNames(obj[o].kind)
    BY <1>1, <1>3, ObjectFacts
  <2>2. /\ DOMAIN l \subseteq VarNames(obj[o].kind)
        /\ l \in [DOMAIN l -> AllValues]
    BY <2>1, ListTypes
  <2>3. \E F \in SUBSET VarNames(obj[o].kind) :
          SetVarsAndFit(o, l, F) /\ Asked(o, l) /\ UNCHANGED derived
    BY <1>3, <2>1, <2>2 DEF Set, SetVars, SaveSqwParams
  <2> QED
    BY <1>3, <2>2, <2>3, SetKeeps
<1>4. ASSUME NEW o \in Models, NEW x \in {"G", "grid", "line", "columns"},
             NEW v \in Values \union {Missing}, SetVarIfAvail(o, x, v)
      PROVE  MdIInv'
  <2>1. Alive(o) /\ UNCHANGED derived
    BY <1>4 DEF SetVarIfAvail
  <2>2. CASE x \in VarNames(obj[o].kind)
    <3> DEFINE l == [y \in {x} |-> v]
    <3>1. SetVarsAndFit(o, l, obj[o].fit) /\ Asked(o, l)
      BY <1>4, <2>2 DEF SetVarIfAvail, SetVars
    <3>2. /\ DOMAIN l \subseteq VarNames(obj[o].kind)
          /\ l \in [DOMAIN l -> AllValues]
      BY <2>2 DEF AllValues
    <3>3. obj[o].fit \in SUBSET VarNames(obj[o].kind)
      BY <1>1, <2>1, ObjectFacts
    <3> HIDE DEF l
    <3> QED
      BY <2>1, <3>1, <3>2, <3>3, SetKeeps
  <2>3. CASE x \notin VarNames(obj[o].kind)
    <3>1. UNCHANGED <<obj, heap, wanted>>
      BY <1>4, <2>3 DEF SetVarIfAvail
    <3> QED
      BY <2>1, <3>1
      DEF MdIInv, MdTypeOK, MembersInv, TreesInv, Stale, Alive, Content, KdTree,
          TableTree, PhononTree, Kept
  <2> QED
    BY <2>2, <2>3
<1>5. ASSUME NEW o \in Models, NEW p \in Models, LoadParams(o, p)
      PROVE  MdIInv'
  <2>1. /\ Alive(o) /\ Alive(p) /\ obj[o].kind = obj[p].kind
        /\ SetVarsAndFit(o, obj[p].mem, obj[p].fit) /\ Asked(o, obj[p].mem)
        /\ UNCHANGED derived
    BY <1>5 DEF LoadParams
  <2>2. /\ obj[p].mem \in [VarNames(obj[o].kind) -> AllValues]
        /\ obj[p].fit \in SUBSET VarNames(obj[o].kind)
    BY <1>1, <2>1, ObjectFacts
  <2>3. DOMAIN obj[p].mem = VarNames(obj[o].kind)
    BY <2>2
  <2> QED
    BY <2>1, <2>2, <2>3, SetKeeps
<1>6. ASSUME NEW o \in Models, NEW p \in Models, ShallowCopy(o, p)
      PROVE  MdIInv'
  BY <1>6, CopyKeeps
<1>7. ASSUME NEW o \in Models, Delete(o) PROVE MdIInv'
  BY <1>7, DeleteKeeps
<1>8. CASE UNCHANGED mdvars
  BY <1>8
  DEF mdvars, MdIInv, MdTypeOK, MembersInv, TreesInv, Stale, Alive, Content,
      KdTree, TableTree, PhononTree, Kept
<1> QED
  BY <1>2, <1>3, <1>4, <1>5, <1>6, <1>7, <1>8 DEF MdNext

(***************************************************************************)
(* MdIInv is inductive: no sequence of constructions, settings, copies and *)
(* deletions of models (sqw.cpp) leaves a tree that is not built from the  *)
(* members of every model that shares it.                                  *)
(***************************************************************************)
THEOREM MdInvariance == MdSpec => []MdIInv
<1> QED
  BY MdInitInv, MdStep, PTL DEF MdSpec

(***************************************************************************)
(* A built-in model evaluates and shows the variables it was given.        *)
(***************************************************************************)
THEOREM ModelsEvaluate == MdSpec => []ModelsTrue
<1>1. MdIInv => ModelsTrue
  <2> SUFFICES ASSUME MdIInv, NEW o \in Models, Alive(o), obj[o].ok, ~Stale(o)
               PROVE  AsAsked(o)
    BY DEF ModelsTrue, Evaluable, Stale
  <2>1. obj[o].mem = wanted[o]
    BY DEF MdIInv, MembersInv
  <2> QED
    BY <2>1, ReadFacts DEF AsAsked, EvaluatesAsked
<1> QED
  BY <1>1, MdInvariance, PTL
=============================================================================
