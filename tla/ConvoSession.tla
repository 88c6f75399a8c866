----------------------------- MODULE ConvoSession -----------------------------
(***************************************************************************)
(* What the convolution dialog is set to (tools/monteconvo/ConvoDlg.cpp,   *)
(* ConvoDlg_file.cpp): the S(Q,w) model and its file, the scan that gives  *)
(* the positions, the favourite positions (dialogs/FavDlg.cpp), the list   *)
(* of recent sessions (qthelpers), the session file, the program's         *)
(* settings, and the job exported for convofit.  A field that changes      *)
(* calls its handler, also while a session is loaded, where a flag keeps   *)
(* the handlers from constructing the model again for every field.         *)
(*                                                                         *)
(* A model's variables are two, a position is a start and a stop.  Left    *)
(* out: fields that are only stored and read back, and the last directory  *)
(* of each file dialog.                                                    *)
(***************************************************************************)
EXTENDS Naturals, Sequences, SequencesExt

CONSTANTS
  Idents,    \* models the program knows
  Plugin,    \* a model whose plug-in is not loaded
  Folders,   \* directories, each with one session
  Nothing,   \* no directory, no model, nothing
  Names,     \* file names that are typed
  Found,     \* the files: pairs of a directory, or Nothing, and a name
  FarName,   \* the one that is only found in a directory
  Bad,       \* names of files that are not a scan, or not the model's
  Places,    \* positions a user goes to; a scan's position is the scan's name
  Defaults,  \* initial values of a model's variables
  Changed,   \* values a user gives them
  MaxDone    \* bound: number of things the user does

\* An empty field.
Unset == ""

\* Models that are constructed, with the values of their variables.
Vals == {Defaults[x] : x \in DOMAIN Defaults}
          \union {Changed[x] : x \in DOMAIN Changed}
AnyModel ==
  [ident : Idents, file : Found \union {Nothing},
   var : [DOMAIN Defaults -> Vals], fit : SUBSET DOMAIN Defaults]

ASSUME SessionAssumption ==
  /\ {Unset, FarName} \subseteq Names
  /\ \A d \in Folders \union {Nothing} : <<d, Unset>> \notin Found
  /\ Nothing \notin Folders \union Idents \union AnyModel
  /\ "job" \notin Folders \union {Nothing}
  /\ Plugin \notin Idents /\ Idents # {}
  /\ Defaults \in [DOMAIN Defaults -> Vals]
  /\ Changed \in [DOMAIN Defaults -> Vals]

\* The first entry of the combo box.
FirstIdent == CHOOSE c \in Idents : TRUE

VARIABLES
  combo,    \* comboSqw
  sqwFile,  \* editSqw
  pSqw,     \* m_pSqw, or Nothing
  rows,     \* model whose variables the parameter dialog lists, or Nothing
  check,    \* checkScan
  scanFile, \* editScan
  scanning, \* m_bUseScan, m_scan's file, the position in the spin boxes
  current,  \* m_pFavDlg's m_curPos
  favs,     \* FavDlg's list
  path,     \* the global path, or Nothing
  last,     \* directory of m_strLastFile, or Nothing
  recent,   \* the list of recent sessions
  disk,     \* the session in each directory, or Nothing
  setts,    \* the program's settings: a session without a model's variables
  exported, \* the exported job, or Nothing
  kept,     \* history: a session without a model's name left the model
  opened,   \* history: what the last step loaded or exported
  meant,    \* history: the model and scan at the time each session was saved
  done      \* number of steps

csvars == <<combo, sqwFile, pSqw, rows, check, scanFile, scanning, current,
            favs, path, last, recent, disk, setts, exported, kept, opened,
            meant, done>>
model == <<combo, sqwFile, pSqw, rows, kept>>
scan == <<check, scanFile, scanning, current>>
stored == <<path, last, recent, disk, setts>>

-----------------------------------------------------------------------------
(* Files.                                                                  *)

\* find_file_in_global_paths: the file itself, one in the global path, or none.
FindFile(name, p) ==
  IF <<Nothing, name>> \in Found THEN <<Nothing, name>>
  ELSE IF <<p, name>> \in Found THEN <<p, name>> ELSE Nothing

\* std::remove, and one element less; a list has no element twice.
RemoveFile(list, d) ==
  IF \E i \in DOMAIN list : list[i] = d
    THEN RemoveAt(list, CHOOSE i \in DOMAIN list : list[i] = d)
    ELSE list
AddFile(list, d) == <<d>> \o RemoveFile(list, d)

-----------------------------------------------------------------------------
(* The model.                                                              *)

\* construct_sqw; a model that could not read its file is kept.
ConstructSqw(ident, file) ==
  IF ident \notin Idents THEN Nothing
  ELSE [ident |-> ident, file |-> file, var |-> Defaults, fit |-> {}]

IsOk(q) == q # Nothing /\ q.file # Nothing /\ q.file[2] \notin Bad

\* createSqwModel: the parameter dialog is emptied, and filled if all is well.
CreatedRows(ident, name, p) ==
  LET q == ConstructSqw(ident, FindFile(name, p)) IN
  IF IsOk(q) THEN q.ident ELSE Nothing

CreateSqwModel(ident, name, p) ==
  /\ pSqw' = ConstructSqw(ident, FindFile(name, p))
  /\ rows' = CreatedRows(ident, name, p)
  /\ kept' = FALSE

\* SqwModelChanged; the file's name is cleared, which constructs it already.
SqwModelChanged(c) ==
  /\ c # combo /\ combo' = c /\ sqwFile' = Unset
  /\ CreateSqwModel(c, Unset, path)
  /\ opened' = Nothing /\ UNCHANGED <<scan, favs, stored, exported, meant>>

SqwFileChanged(name) ==
  /\ name # sqwFile /\ sqwFile' = name
  /\ CreateSqwModel(combo, name, path)
  /\ opened' = Nothing
  /\ UNCHANGED <<combo, scan, favs, stored, exported, meant>>

\* SqwParamsChanged: the selected rows; all flags are set by the list.
SqwParamsChanged(selected, fit) ==
  /\ rows # Nothing /\ pSqw # Nothing
  /\ pSqw' = [pSqw EXCEPT
       !.var = [x \in DOMAIN @ |->
                  IF x \in selected THEN Changed[x] ELSE @[x]],
       !.fit = fit]
  /\ opened' = Nothing
  /\ UNCHANGED <<combo, sqwFile, rows, kept>>
  /\ UNCHANGED <<scan, favs, stored, exported, meant>>

-----------------------------------------------------------------------------
(* The scan and the positions.                                             *)

Loads(name, p) == FindFile(name, p) # Nothing /\ name \notin Bad

\* Mutant: the scan in use is kept until another one is loaded.
ScanKept(s, checked, name, p) ==
  IF name = Unset \/ ~checked THEN s
  ELSE IF Loads(name, p) THEN [use |-> TRUE, file |-> name, spin |-> name]
  ELSE [s EXCEPT !.file = Nothing]

\* scanFileChanged: the scan that is used, and the spin boxes.
ScanFileChanged(s, checked, name, p) ==
  IF name = Unset \/ ~checked THEN [s EXCEPT !.use = FALSE]
  ELSE IF Loads(name, p) THEN [use |-> TRUE, file |-> name, spin |-> name]
  ELSE [s EXCEPT !.use = FALSE, !.file = Nothing]

\* scanCheckToggled
ScanCheckToggled(s, checked, name, p) ==
  IF checked THEN ScanFileChanged(s, checked, name, p) ELSE s

\* UpdateCurFavPos: every spin box that changes tells the list of favourites.
SetScanning(s) ==
  /\ scanning' = s
  /\ current' = s.spin

ToggleScan ==
  /\ check' = ~check
  /\ SetScanning(ScanCheckToggled(scanning, ~check, scanFile, path))
  /\ opened' = Nothing
  /\ UNCHANGED <<model, scanFile, favs, stored, exported, meant>>

EditScan(name) ==
  /\ name # scanFile /\ scanFile' = name
  /\ SetScanning(ScanFileChanged(scanning, check, name, path))
  /\ opened' = Nothing
  /\ UNCHANGED <<model, check, favs, stored, exported, meant>>

\* The spin boxes, and the axes' swaps.
ChangeHKL(pos) ==
  /\ pos # scanning.spin
  /\ SetScanning([scanning EXCEPT !.spin = pos])
  /\ opened' = Nothing
  /\ UNCHANGED <<model, check, scanFile, favs, stored, exported, meant>>

\* ChangePos: from a favourite.
ChangePos(i) ==
  /\ i \in DOMAIN favs /\ favs[i] # scanning.spin
  /\ SetScanning([scanning EXCEPT !.spin = favs[i]])
  /\ opened' = Nothing
  /\ UNCHANGED <<model, check, scanFile, favs, stored, exported, meant>>

AddPosToList ==
  /\ favs' = Append(favs, current)
  /\ opened' = Nothing /\ UNCHANGED <<model, scan, stored, exported, meant>>

\* RemPosFromList: without a current item, all are removed.
RemPosFromList(i) ==
  /\ favs # <<>>
  /\ favs' = IF i \in DOMAIN favs THEN RemoveAt(favs, i) ELSE <<>>
  /\ opened' = Nothing /\ UNCHANGED <<model, scan, stored, exported, meant>>

-----------------------------------------------------------------------------
(* Sessions.                                                               *)

NoSession ==
  [check |-> FALSE, spin |-> Unset, ident |-> Nothing, sqwFile |-> Unset,
   scanFile |-> Unset, favs |-> <<>>, var |-> Defaults, fit |-> {}]

\* Save(mapConf): the model's name and variables are saved with a model.
SaveConf ==
  [check |-> check, spin |-> scanning.spin,
   ident |-> IF pSqw = Nothing THEN Nothing ELSE combo,
   sqwFile |-> sqwFile, scanFile |-> scanFile, favs |-> favs,
   var |-> IF pSqw = Nothing THEN Defaults ELSE pSqw.var,
   fit |-> IF pSqw = Nothing THEN {} ELSE pSqw.fit]

SaveTo(d) ==
  /\ disk' = [disk EXCEPT ![d] = SaveConf]
  /\ meant' = [meant EXCEPT ![d] =
       [pSqw |-> pSqw, scanning |-> scanning, path |-> path]]
  /\ opened' = Nothing
  /\ UNCHANGED <<model, scan, favs, path, setts, exported>>

SaveSession == last # Nothing /\ SaveTo(last) /\ UNCHANGED <<last, recent>>

SaveAs(d) == SaveTo(d) /\ last' = d /\ recent' = AddFile(recent, d)

\* New only forgets the file.
New ==
  /\ path' = Nothing /\ last' = Nothing /\ opened' = Nothing
  /\ UNCHANGED <<model, scan, favs, recent, disk, setts, exported, meant>>

\* The scan while a session's fields are set: check box, spin boxes, file, and
\* the file once more at the end.
LoadScan(s, p) ==
  LET toggled == IF s.check = check THEN scanning
                 ELSE ScanCheckToggled(scanning, s.check, scanFile, p)
      spun == [toggled EXCEPT !.spin = s.spin]
      edited == IF s.scanFile = scanFile THEN spun
                ELSE ScanFileChanged(spun, s.check, s.scanFile, p)
  IN IF s.check THEN ScanFileChanged(edited, TRUE, s.scanFile, p) ELSE edited

\* The model of a session: its variables are set in one that could not read its
\* file, too.  Without a name the model stays.
LoadModel(s, p) ==
  IF s.ident = Nothing THEN kept' = TRUE /\ UNCHANGED <<combo, pSqw, rows>>
  ELSE LET q == ConstructSqw(s.ident, FindFile(s.sqwFile, p)) IN
       /\ combo' = IF s.ident \in Idents THEN s.ident ELSE Nothing
       /\ pSqw' = IF q = Nothing THEN q
                 ELSE [q EXCEPT !.var = s.var, !.fit = s.fit]
       /\ rows' = IF q = Nothing THEN Nothing ELSE q.ident
       /\ kept' = FALSE

\* Mutant: the directory is added after the session is loaded.
LoadThenPath(d) ==
  /\ disk[d] # Nothing
  /\ sqwFile' = disk[d].sqwFile /\ LoadModel(disk[d], Nothing)
  /\ check' = disk[d].check /\ scanFile' = disk[d].scanFile
  /\ SetScanning(LoadScan(disk[d], Nothing))
  /\ favs' = disk[d].favs /\ path' = d /\ last' = d
  /\ recent' = AddFile(recent, d) /\ opened' = d
  /\ UNCHANGED <<disk, setts, exported, meant>>

\* Load: the session's directory is the only global path.
Load(d) ==
  /\ disk[d] # Nothing
  /\ path' = d /\ last' = d /\ recent' = AddFile(recent, d)
  /\ sqwFile' = disk[d].sqwFile /\ LoadModel(disk[d], d)
  /\ check' = disk[d].check /\ scanFile' = disk[d].scanFile
  /\ SetScanning(LoadScan(disk[d], d))
  /\ favs' = disk[d].favs
  /\ opened' = d /\ UNCHANGED <<disk, setts, exported, meant>>

\* accept: the model's variables are not kept in the settings.
Accept ==
  /\ setts' = [SaveConf EXCEPT !.ident = combo, !.var = Defaults, !.fit = {}]
  /\ opened' = Nothing
  /\ UNCHANGED <<model, scan, favs, path, last, recent, disk, exported, meant>>

\* The program is started again: the dialog's constructor, and LoadSettings,
\* which sets the check boxes last.
LoadSettings ==
  LET fresh == [use |-> FALSE, file |-> Nothing, spin |-> setts.spin]
      c == IF setts.ident \in Idents THEN setts.ident ELSE Nothing IN
  /\ combo' = c /\ sqwFile' = setts.sqwFile
  /\ CreateSqwModel(c, setts.sqwFile, Nothing)
  /\ check' = setts.check /\ scanFile' = setts.scanFile
  /\ SetScanning(ScanCheckToggled(fresh, setts.check, setts.scanFile, Nothing))
  /\ favs' = setts.favs
  /\ path' = Nothing /\ last' = Nothing /\ opened' = Nothing
  /\ UNCHANGED <<recent, disk, setts, exported, meant>>

\* SaveConvofit, convert_monteconvo: variables are fitted, or set in the model.
\* Bound: only with a model.
SaveConvofit ==
  /\ pSqw # Nothing
  /\ LET s == SaveConf IN
     exported' = [ident |-> s.ident, sqwFile |-> s.sqwFile,
                  scanFile |-> s.scanFile,
                  params |-> [x \in s.fit |-> s.var[x]],
                  sets |-> [x \in DOMAIN Defaults \ s.fit |-> s.var[x]]]
  /\ opened' = "job"
  /\ UNCHANGED <<model, scan, favs, stored, meant>>

\* Sessions of earlier runs of the program: one with a model whose plug-in is
\* gone, and one with a scan and a file that are relative to it.
Earlier ==
  {[NoSession EXCEPT !.ident = Plugin]} \union
  {[check |-> TRUE, spin |-> pos, ident |-> c, sqwFile |-> name,
    scanFile |-> name, favs |-> <<pos>>, var |-> Changed, fit |-> {}] :
     c \in Idents \ {FirstIdent},
     name \in {FarName}, pos \in Places}

CsInit ==
  /\ combo = FirstIdent
  /\ sqwFile = Unset /\ pSqw = ConstructSqw(combo, Nothing) /\ rows = Nothing
  /\ check = FALSE /\ scanFile = Unset
  /\ scanning = [use |-> FALSE, file |-> Nothing, spin |-> Unset] /\ current = Unset
  /\ favs = <<>> /\ path = Nothing /\ last = Nothing /\ recent = <<>>
  /\ disk \in [Folders -> {Nothing} \union Earlier]
  /\ setts = [NoSession EXCEPT !.ident = combo]
  /\ exported = Nothing /\ kept = FALSE /\ opened = Nothing
  /\ done = 0
  /\ meant = [d \in Folders |->
       IF disk[d] = Nothing \/ disk[d].ident = Plugin THEN Nothing
       ELSE [pSqw |-> [ident |-> disk[d].ident,
                       file |-> FindFile(disk[d].sqwFile, d),
                       var |-> disk[d].var, fit |-> disk[d].fit],
             scanning |-> [use |-> Loads(disk[d].scanFile, d),
                           file |-> disk[d].scanFile, spin |-> disk[d].spin],
             path |-> d]]

ModelStep ==
  \/ \E c \in Idents : SqwModelChanged(c)
  \/ \E name \in Names : SqwFileChanged(name)
  \/ \E S \in SUBSET DOMAIN Defaults, F \in SUBSET DOMAIN Defaults :
       S # {} /\ F \subseteq S /\ SqwParamsChanged(S, F)

PositionStep ==
  \/ ToggleScan \/ AddPosToList
  \/ \E name \in Names : EditScan(name)
  \/ \E pos \in Places : ChangeHKL(pos)
  \/ \E i \in 1 .. 2 : ChangePos(i)
  \/ \E i \in 0 .. 1 : RemPosFromList(i)

FileStep ==
  \/ New \/ SaveSession \/ Accept \/ LoadSettings \/ SaveConvofit
  \/ \E d \in Folders : SaveAs(d) \/ Load(d)

CsNext ==
  /\ done < MaxDone /\ done' = done + 1
  /\ ModelStep \/ PositionStep \/ FileStep

CsSpec == CsInit /\ [][CsNext]_csvars

-----------------------------------------------------------------------------
(* Properties.                                                             *)

\* The model is of the kind the combo box shows, with the file of its field as
\* it is found in one of the global paths; only after a session that names no
\* model may the field be another's.
ModelTrue ==
  pSqw # Nothing =>
    /\ pSqw.ident = combo
    /\ \/ kept
       \/ pSqw.file \in {FindFile(sqwFile, p) : p \in Folders \union {Nothing}}

\* The parameter dialog lists the model's variables, or none: what it applies
\* is never meant for a model that has been replaced.
RowsOfModel ==
  rows # Nothing => pSqw # Nothing /\ rows = pSqw.ident

\* The scan that a calculation would use is the one named in the dialog.
ScanTrue ==
  check /\ scanning.use => scanning.file = scanFile /\ scanFile \notin Bad

\* The position added to the favourites is the dialog's; the newest session in
\* the menu is the one Save writes, and none is listed twice.
ListsTrue ==
  /\ current = scanning.spin
  /\ last # Nothing => recent # <<>> /\ Head(recent) = last
  /\ IsInjective(recent)

\* The dialog shows what it calculates with (ConvoDlg's handlers).
DialogTrue == ModelTrue /\ RowsOfModel /\ ScanTrue /\ ListsTrue

\* A session that is loaded brings back the model of the time it was saved,
\* with its variables and flags, if its file is still found where it was, and
\* the positions, unless a scan is used that gives them; and an exported job
\* has every variable of the model, once (ConvoDlg::Load, Save).
Reloaded ==
  /\ \A d \in Folders :
       LET m == meant[d] IN
       opened = d /\ m # Nothing /\ m.pSqw # Nothing =>
         /\ FindFile(sqwFile, d) = m.pSqw.file => pSqw = m.pSqw
         /\ pSqw.var = m.pSqw.var /\ pSqw.fit = m.pSqw.fit
         /\ ~(check /\ scanning.use) => scanning.spin = m.scanning.spin
         /\ check /\ m.scanning.use /\ m.path = d
              => scanning.use /\ scanning.file = m.scanning.file
  /\ opened = "job" =>
       \A x \in DOMAIN Defaults :
         IF x \in pSqw.fit THEN exported.params[x] = pSqw.var[x]
         ELSE exported.sets[x] = pSqw.var[x]

-----------------------------------------------------------------------------
(* The inductive invariant of the proofs.                                  *)

Roots == Folders \union {Nothing}
Spins == Names \union Places
ComboEntries == Idents \union {Plugin, Nothing}

AnyScan == [use : BOOLEAN, file : Names \union {Nothing}, spin : Spins]
AnySession ==
  [check : BOOLEAN, spin : Spins, ident : ComboEntries, sqwFile : Names,
   scanFile : Names, favs : Seq(Spins), var : [DOMAIN Defaults -> Vals],
   fit : SUBSET DOMAIN Defaults]
AnyMeant ==
  [pSqw : AnyModel \union {Nothing}, scanning : AnyScan, path : Roots]

CsTypeOK ==
  /\ combo \in ComboEntries /\ sqwFile \in Names
  /\ pSqw \in AnyModel \union {Nothing}
  /\ check \in BOOLEAN /\ scanFile \in Names /\ scanning \in AnyScan
  /\ favs \in Seq(Spins) /\ path \in Roots /\ last \in Roots
  /\ recent \in Seq(Folders)
  /\ disk \in [Folders -> AnySession \union {Nothing}]
  /\ setts \in AnySession
  /\ meant \in [Folders -> AnyMeant \union {Nothing}]

\* A scan that is used is found from the directory of the open session.
ScanHere == check /\ scanning.use /\ path # Nothing => Loads(scanFile, path)

\* A session that was saved with a model has its name, variables and flags, the
\* position and, if it can be found again, the scan.
SavedInv ==
  \A d \in Folders :
    LET s == disk[d]  m == meant[d] IN
    s # Nothing /\ m # Nothing /\ m.pSqw # Nothing =>
      /\ s.ident = m.pSqw.ident /\ s.var = m.pSqw.var /\ s.fit = m.pSqw.fit
      /\ s.spin = m.scanning.spin
      /\ s.check /\ m.scanning.use /\ m.path = d =>
           Loads(s.scanFile, d) /\ s.scanFile = m.scanning.file

CsIInv == CsTypeOK /\ DialogTrue /\ ScanHere /\ SavedInv /\ Reloaded
==============================================================================
