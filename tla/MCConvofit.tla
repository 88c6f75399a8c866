------------------------------ MODULE MCConvofit -----------------------------
(***************************************************************************)
(* The parts of the convolution: the fit of a job's scan groups, the jobs  *)
(* that one thread runs after each other, the built-in S(Q,w) models, the  *)
(* settings of the dialog and what it shows of a calculation, the          *)
(* resolution, and the dialogs for powders, dispersions and parameters.    *)
(* The parts share no state; part says which of them moves.                *)
(***************************************************************************)
EXTENDS MCConvofitJobs, MultiFit, SqwModels, ConvoSession, ConvoPlot,
  Reso, CrystalDlgs, ParamDlgs

VARIABLE part

parts == <<jobsvars, vars, mdvars, csvars, cpvars, rsvars, xdvars, pdvars>>

InPart(p, step, others) == part = p /\ step /\ UNCHANGED <<part, others>>

\* The parts that do not move start in one state.
MCInit ==
  /\ part \in {"jobs", "fit", "models", "session", "plot", "reso",
               "crystal", "params"}
  /\ JobsInit /\ Init /\ MdInit /\ CsInit /\ CpInit /\ RsInit /\ XdInit /\ PdInit
  /\ part # "fit" => /\ \A g \in Groups : temp[g] = CHOOSE t \in Temps : TRUE
                     /\ asked = CHOOSE v \in Fits : TRUE
                     /\ sqw["mod"].temp = temp[1]
  /\ part # "session" => \A d \in Folders : disk[d] = Nothing
  /\ part # "reso" => rd = NewDialog(Start0)
  /\ part # "crystal" => xd = NewDlg("powder", FALSE, FALSE)
  /\ part # "params" => pw = NewWindow("foc", {})

\* A fit that is done, the end of the calls, and a GUI thread that waits for
\* itself.
Ended ==
  /\ \/ part = "fit" /\ pc = "end"
     \/ part = "models" /\ calls = MaxCalls
     \/ part = "session" /\ done = MaxDone
     \/ part = "plot" /\ hung
     \/ part = "reso" /\ acts = MaxActs
     \/ part = "crystal" /\ moves = MaxMoves
     \/ part = "params" /\ turns = MaxTurns
  /\ UNCHANGED <<part, parts>>

MCNext ==
  \/ InPart("jobs", JobsNext,
            <<vars, mdvars, csvars, cpvars, rsvars, xdvars, pdvars>>)
  \/ InPart("fit", Next,
            <<jobsvars, mdvars, csvars, cpvars, rsvars, xdvars, pdvars>>)
  \/ InPart("models", MdNext,
            <<jobsvars, vars, csvars, cpvars, rsvars, xdvars, pdvars>>)
  \/ InPart("session", CsNext,
            <<jobsvars, vars, mdvars, cpvars, rsvars, xdvars, pdvars>>)
  \/ InPart("plot", CpNext,
            <<jobsvars, vars, mdvars, csvars, rsvars, xdvars, pdvars>>)
  \/ InPart("reso", RsNext,
            <<jobsvars, vars, mdvars, csvars, cpvars, xdvars, pdvars>>)
  \/ InPart("crystal", XdNext,
            <<jobsvars, vars, mdvars, csvars, cpvars, rsvars, pdvars>>)
  \/ InPart("params", PdNext,
            <<jobsvars, vars, mdvars, csvars, cpvars, rsvars, xdvars>>)
  \/ Ended

MCSpec == MCInit /\ [][MCNext]_<<part, parts>>

\* One file found from anywhere, one that is no scan or model file, and one in
\* the first session's directory.
SessionFiles == {<<Nothing, "abs">>, <<Nothing, "bad">>, <<"s1", "rel">>}
NewVars == [x \in {"x", "y"} |-> "old"]
UserVars == [x \in {"x", "y"} |-> "new"]

\* The resolution dialog: values that give a result, and two curves with one
\* name.
FirstFields ==
  [pos |-> "q1", d |-> 1, coll |-> 1, guide |-> 0, size |-> 1, focus |-> 1,
   curv |-> 1, vert |-> 1, offset |-> 1, tof |-> 1, sig |-> 1,
   flags |-> {"r0", "ki3"}, file |-> "", algo |-> "cn", live |-> TRUE]
CurveFiles == {<<"a", "c">>, <<"b", "c">>}
UserEdits == {<<"coll", 0>>, <<"d", 2>>, <<"focus", 2>>, <<"guide", 1>>,
              <<"offset", 0>>, <<"flags", {"general"}>>}

\* Space groups of four crystal systems; one file of another dialog without
\* some keys, and one of an earlier session whose lattice is not that of its
\* group.
FourGroups == <<"P2", "P4", "P6", "Fm">>
FourSystems == [P2 |-> "monoclinic", P4 |-> "tetragonal", P6 |-> "hexagonal",
                Fm |-> "cubic"]
FilterP == [entry \in {"", "P"} |->
              IF entry = "" THEN FourGroups ELSE <<"P2", "P4", "P6">>]
NoOdd == [P2 |-> {}, P4 |-> {}, P6 |-> {}, Fm |-> {1}]
Beta100 ==
  [a |-> 5, b |-> 6, c |-> 7, alpha |-> 90, beta |-> 100, gamma |-> 90]
TwoAtoms == [cell |-> Beta100, order |-> 2, lam |-> 1, centre |-> 1,
             group |-> "P2", atoms |-> <<"H", "O">>]
OtherFile == {[FileOf(TwoAtoms) EXCEPT !.order = {}, !.lam = {}, !.centre = {},
                                       !.atoms = {<<"H">>}]}
EarlierFiles == [powder |-> {[TwoAtoms EXCEPT !.centre = 0]},
                 disp |-> {TwoAtoms, [TwoAtoms EXCEPT !.group = "P4"],
                          [TwoAtoms EXCEPT !.centre = -1]}]

\* Numbers of both signs; positions, one of which has more energy than the
\* spurions' spin box takes; a crystal with and one without a space group.
SmallNumbers == {-1, 1}
TwoPositions == {[ki |-> 1, kf |-> 1, other |-> 1],
                 [ki |-> 1, kf |-> 9, other |-> 2]}
TwoCrystals ==
  {[cell |-> 1, grouped |-> TRUE], [cell |-> 2, grouped |-> FALSE]}
==============================================================================
