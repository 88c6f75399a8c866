---------------------------- MODULE Dialogs_proofs ----------------------------
(***************************************************************************)
(* Proofs about ConvoSession, the session of the convolution dialog,       *)
(* CrystalDlgs, the dialogs for powder lines and for a dispersion, and     *)
(* ParamDlgs, the dialogs that calculate while the user types.             *)
(***************************************************************************)
EXTENDS ConvoSession, CrystalDlgs, ParamDlgs, SequenceTheorems,
  WellFoundedInduction, TLAPS

-----------------------------------------------------------------------------
(* The list of recent sessions.                                            *)

LEMMA RemoveAtFacts ==
  ASSUME NEW S, NEW s \in Seq(S), NEW i \in 1 .. Len(s)
  PROVE  /\ RemoveAt(s, i) \in Seq(S) /\ Len(RemoveAt(s, i)) = Len(s) - 1
         /\ \A j \in 1 .. Len(s) - 1 :
              RemoveAt(s, i)[j] = IF j < i THEN s[j] ELSE s[j + 1]
<1> DEFINE a == SubSeq(s, 1, i - 1)
           b == SubSeq(s, i + 1, Len(s))
<1>1. a \in Seq(S) /\ Len(a) = i - 1 /\ \A j \in 1 .. i - 1 : a[j] = s[j]
  BY SubSeqProperties
<1>2. /\ b \in Seq(S) /\ Len(b) = Len(s) - i
      /\ \A j \in 1 .. Len(s) - i : b[j] = s[i + j]
  BY SubSeqProperties
<1> HIDE DEF a, b
<1>3. /\ a \o b \in Seq(S) /\ Len(a \o b) = Len(s) - 1
      /\ \A j \in 1 .. Len(s) - 1 :
           (a \o b)[j] = IF j <= Len(a) THEN a[j] ELSE b[j - Len(a)]
  <2>1. /\ a \o b \in Seq(S) /\ Len(a \o b) = Len(a) + Len(b)
        /\ \A j \in 1 .. Len(a) + Len(b) :
             (a \o b)[j] = IF j <= Len(a) THEN a[j] ELSE b[j - Len(a)]
    BY <1>1, <1>2, ConcatProperties
  <2>2. Len(a) + Len(b) = Len(s) - 1
    BY <1>1, <1>2
  <2> QED
    BY <2>1, <2>2
<1>4. ASSUME NEW j \in 1 .. Len(s) - 1
      PROVE  (a \o b)[j] = IF j < i THEN s[j] ELSE s[j + 1]
  <2>1. CASE j < i
    BY <1>1, <1>3, <2>1
  <2>2. CASE ~(j < i)
    <3>1. (a \o b)[j] = b[j - (i - 1)]
      BY <1>1, <1>3, <2>2
    <3>2. j - (i - 1) \in 1 .. Len(s) - i /\ i + (j - (i - 1)) = j + 1
      BY <2>2
    <3> QED
      BY <1>2, <2>2, <3>1, <3>2
  <2> QED
    BY <2>1, <2>2
<1> QED
  BY <1>3, <1>4 DEF RemoveAt, a, b

LEMMA RemoveFacts ==
  ASSUME NEW S, NEW s \in Seq(S), IsInjective(s), NEW d
  PROVE  /\ RemoveFile(s, d) \in Seq(S)
         /\ IsInjective(RemoveFile(s, d))
         /\ \A i \in DOMAIN RemoveFile(s, d) : RemoveFile(s, d)[i] # d
<1>1. CASE \E i \in DOMAIN s : s[i] = d
  <2> DEFINE i == CHOOSE j \in DOMAIN s : s[j] = d
             r == RemoveAt(s, i)
  <2>1. i \in 1 .. Len(s) /\ s[i] = d
    BY <1>1
  <2>2. RemoveFile(s, d) = r
    BY <1>1 DEF RemoveFile
  <2> HIDE DEF i
  <2>3. /\ r \in Seq(S) /\ Len(r) = Len(s) - 1
        /\ \A j \in 1 .. Len(s) - 1 : r[j] = IF j < i THEN s[j] ELSE s[j + 1]
    BY <2>1, RemoveAtFacts
  <2> HIDE DEF r
  <2>4. \A j, k \in 1 .. Len(s) : s[j] = s[k] => j = k
    BY DEF IsInjective
  <2>5. DOMAIN r = 1 .. Len(s) - 1
    BY <2>3
  <2>6. \A j \in DOMAIN r : r[j] # d
    BY <2>1, <2>3, <2>4, <2>5
  <2>7. \A j, k \in DOMAIN r : r[j] = r[k] => j = k
    BY <2>1, <2>3, <2>4, <2>5
  <2> QED
    BY <2>2, <2>3, <2>6, <2>7 DEF IsInjective
<1>2. CASE ~\E i \in DOMAIN s : s[i] = d
  BY <1>2 DEF RemoveFile
<1> QED
  BY <1>1, <1>2

LEMMA AddFacts ==
  ASSUME NEW S, NEW s \in Seq(S), IsInjective(s), NEW d \in S
  PROVE  /\ AddFile(s, d) \in Seq(S) /\ IsInjective(AddFile(s, d))
         /\ AddFile(s, d) # <<>> /\ Head(AddFile(s, d)) = d
<1> DEFINE r == RemoveFile(s, d)
           a == <<d>> \o r
<1>1. /\ r \in Seq(S) /\ IsInjective(r)
      /\ \A i \in DOMAIN r : r[i] # d
  BY RemoveFacts
<1>2. AddFile(s, d) = a
  BY DEF AddFile
<1> HIDE DEF r
<1>3. <<d>> \in Seq(S) /\ Len(<<d>>) = 1 /\ <<d>>[1] = d
  OBVIOUS
<1>4. /\ a \in Seq(S) /\ Len(a) = Len(r) + 1
      /\ \A i \in 1 .. Len(r) + 1 :
           a[i] = IF i <= 1 THEN <<d>>[i] ELSE r[i - 1]
  BY <1>1, <1>3, ConcatProperties
<1> HIDE DEF a
<1>5. Len(r) \in Nat /\ DOMAIN r = 1 .. Len(r) /\ DOMAIN a = 1 .. Len(r) + 1
  BY <1>1, <1>4
<1>6. a[1] = d
  BY <1>3, <1>4, <1>5
<1>7. \A i \in DOMAIN a : i # 1 => i - 1 \in DOMAIN r /\ a[i] = r[i - 1]
  BY <1>4, <1>5
<1>8. IsInjective(a)
  <2> SUFFICES ASSUME NEW i \in DOMAIN a, NEW j \in DOMAIN a, a[i] = a[j]
               PROVE  i = j
    BY DEF IsInjective
  <2>1. CASE i = 1 /\ j # 1
    BY <1>1, <1>6, <1>7, <2>1
  <2>2. CASE i # 1 /\ j = 1
    BY <1>1, <1>6, <1>7, <2>2
  <2>3. CASE i # 1 /\ j # 1
    <3>1. i - 1 = j - 1
      BY <1>1, <1>7, <2>3 DEF IsInjective
    <3> QED
      BY <1>5, <3>1
  <2> QED
    BY <2>1, <2>2, <2>3
<1>9. a # <<>> /\ Head(a) = d
  BY <1>4, <1>5, <1>6
<1> QED
  BY <1>2, <1>4, <1>8, <1>9

-----------------------------------------------------------------------------
(* Models and scans.                                                       *)

LEMMA FindFacts ==
  ASSUME NEW name, NEW p
  PROVE  /\ FindFile(name, p) \in Found \union {Nothing}
         /\ p \in Roots => ~Loads(Unset, p)
BY SessionAssumption DEF FindFile, Loads, Roots

\* A model that is constructed is of the kind asked for; there is none for an
\* unknown one.
LEMMA ConstructFacts ==
  ASSUME NEW ident, NEW file \in Found \union {Nothing}
  PROVE  /\ ConstructSqw(ident, file) \in AnyModel \union {Nothing}
         /\ ConstructSqw(ident, file) # Nothing <=> ident \in Idents
         /\ ident \in Idents =>
              ConstructSqw(ident, file) =
                [ident |-> ident, file |-> file, var |-> Defaults, fit |-> {}]
<1>1. CASE ident \in Idents
  <2>1. ConstructSqw(ident, file) =
          [ident |-> ident, file |-> file, var |-> Defaults, fit |-> {}]
    BY <1>1 DEF ConstructSqw
  <2>2. Defaults \in [DOMAIN Defaults -> Vals]
    BY SessionAssumption
  <2>3. ConstructSqw(ident, file) \in AnyModel
    BY <1>1, <2>1, <2>2 DEF AnyModel
  <2> QED
    BY <1>1, <2>1, <2>3, SessionAssumption
<1>2. CASE ident \notin Idents
  BY <1>2 DEF ConstructSqw
<1> QED
  BY <1>1, <1>2

LEMMA CreateFacts ==
  ASSUME NEW c, NEW name, NEW p \in Roots, CreateSqwModel(c, name, p)
  PROVE  /\ pSqw' \in AnyModel \union {Nothing} /\ kept' = FALSE
         /\ pSqw' # Nothing =>
              /\ c \in Idents
              /\ pSqw'.ident = c /\ pSqw'.file = FindFile(name, p)
         /\ rows' # Nothing => pSqw' # Nothing /\ rows' = pSqw'.ident
<1> DEFINE f == FindFile(name, p)
           q == ConstructSqw(c, f)
<1>1. f \in Found \union {Nothing}
  BY FindFacts
<1>2. pSqw' = q /\ kept' = FALSE /\ rows' = IF IsOk(q) THEN q.ident ELSE Nothing
  BY DEF CreateSqwModel, CreatedRows
<1> HIDE DEF f
<1>3. /\ q \in AnyModel \union {Nothing} /\ (q # Nothing <=> c \in Idents)
      /\ c \in Idents => q.ident = c /\ q.file = f
  BY <1>1, ConstructFacts
<1>4. IsOk(q) => q # Nothing
  BY DEF IsOk
<1> HIDE DEF q
<1> QED
  BY <1>2, <1>3, <1>4 DEF f

LEMMA ChangedScan ==
  ASSUME NEW s \in AnyScan, NEW b, NEW name \in Names, NEW p
  PROVE  /\ ScanFileChanged(s, b, name, p) \in AnyScan
         /\ ScanFileChanged(s, b, name, p).use <=>
              name # Unset /\ b /\ Loads(name, p)
         /\ ScanFileChanged(s, b, name, p).use =>
              /\ ScanFileChanged(s, b, name, p).file = name
              /\ name \notin Bad
         /\ ~ScanFileChanged(s, b, name, p).use =>
              ScanFileChanged(s, b, name, p).spin = s.spin
<1> DEFINE t == ScanFileChanged(s, b, name, p)
<1>1. s = [use |-> s.use, file |-> s.file, spin |-> s.spin]
      /\ s.file \in Names \union {Nothing} /\ s.spin \in Spins
  BY DEF AnyScan
<1>2. CASE name = Unset \/ ~b
  <2>1. t = [s EXCEPT !.use = FALSE]
    BY <1>2 DEF ScanFileChanged
  <2> QED
    BY <1>1, <1>2, <2>1 DEF AnyScan
<1>3. CASE name # Unset /\ b /\ Loads(name, p)
  <2>1. t = [use |-> TRUE, file |-> name, spin |-> name]
    BY <1>3 DEF ScanFileChanged
  <2>2. name \notin Bad
    BY <1>3 DEF Loads
  <2>3. t.use = TRUE /\ t.file = name /\ t.spin = name
    BY <2>1
  <2>4. t \in AnyScan
    BY <2>1 DEF AnyScan, Spins
  <2> QED
    BY <1>3, <2>2, <2>3, <2>4
<1>4. CASE name # Unset /\ b /\ ~Loads(name, p)
  <2>1. t = [s EXCEPT !.use = FALSE, !.file = Nothing]
    BY <1>4 DEF ScanFileChanged
  <2> QED
    BY <1>1, <1>4, <2>1 DEF AnyScan
<1> QED
  BY <1>2, <1>3, <1>4

\* A session's scan is used exactly if it is found from its directory; the
\* position is the session's if it is not used.
LEMMA LoadedScan ==
  ASSUME CsTypeOK, NEW s \in AnySession, NEW p, NEW t, t = LoadScan(s, p)
  PROVE  /\ t \in AnyScan
         /\ s.check => (t.use <=> s.scanFile # Unset /\ Loads(s.scanFile, p))
         /\ s.check /\ t.use => t.file = s.scanFile /\ s.scanFile \notin Bad
         /\ ~(s.check /\ t.use) => t.spin = s.spin
<1>1. /\ s.check \in BOOLEAN /\ s.spin \in Spins /\ s.scanFile \in Names
      /\ scanning \in AnyScan /\ scanFile \in Names
  BY DEF AnySession, CsTypeOK
<1>2. PICK b \in BOOLEAN, name \in Names : b = s.check /\ name = s.scanFile
  BY <1>1
<1> DEFINE toggled == IF b = check THEN scanning
                      ELSE ScanCheckToggled(scanning, b, scanFile, p)
           spun == [toggled EXCEPT !.spin = s.spin]
           edited == IF name = scanFile THEN spun
                     ELSE ScanFileChanged(spun, b, name, p)
<1>3. toggled \in AnyScan
  <2>1. CASE b = check \/ ~b
    BY <1>1, <2>1 DEF ScanCheckToggled
  <2>2. CASE b # check /\ b
    <3>1. toggled = ScanFileChanged(scanning, b, scanFile, p)
      BY <2>2 DEF ScanCheckToggled
    <3> HIDE DEF toggled
    <3> QED
      BY <1>1, <3>1, ChangedScan
  <2> QED
    BY <2>1, <2>2
<1>4. t = IF b THEN ScanFileChanged(edited, TRUE, name, p) ELSE edited
  BY <1>2 DEF LoadScan
<1> HIDE DEF toggled
<1>5. spun \in AnyScan /\ spun.spin = s.spin
  BY <1>1, <1>3 DEF AnyScan
<1> HIDE DEF spun
<1>6. /\ edited \in AnyScan
      /\ ~(name # Unset /\ b /\ Loads(name, p)) => edited.spin = s.spin
  <2>1. CASE name = scanFile
    BY <1>5, <2>1
  <2>2. CASE name # scanFile
    <3>1. edited = ScanFileChanged(spun, b, name, p)
      BY <2>2
    <3> HIDE DEF edited
    <3>2. edited \in AnyScan
      BY <1>5, <3>1, ChangedScan
    <3>3. edited.use <=> name # Unset /\ b /\ Loads(name, p)
      BY <1>5, <3>1, ChangedScan
    <3>4. ~edited.use => edited.spin = spun.spin
      BY <1>5, <3>1, ChangedScan
    <3> QED
      BY <1>5, <3>2, <3>3, <3>4
  <2> QED
    BY <2>1, <2>2
<1> HIDE DEF edited
<1>7. CASE b
  <2>1. t = ScanFileChanged(edited, b, name, p)
    <3>1. b = TRUE
      BY <1>7
    <3> QED
      BY <1>4, <3>1
  <2>2. t \in AnyScan
    BY <1>6, <2>1, ChangedScan
  <2>3. t.use <=> name # Unset /\ Loads(name, p)
    <3>1. t.use <=> name # Unset /\ b /\ Loads(name, p)
      BY <1>6, <2>1, ChangedScan
    <3> QED
      BY <1>7, <3>1
  <2>4. t.use => t.file = name /\ name \notin Bad
    BY <1>6, <2>1, ChangedScan
  <2>5. ~t.use => t.spin = edited.spin
    BY <1>6, <2>1, ChangedScan
  <2> QED
    BY <1>2, <1>6, <1>7, <2>2, <2>3, <2>4, <2>5
<1>8. CASE ~b
  <2>1. t = edited
    BY <1>4, <1>8
  <2> QED
    BY <1>2, <1>6, <1>8, <2>1
<1> QED
  BY <1>7, <1>8

-----------------------------------------------------------------------------
(* What an event leaves alone.                                             *)

ModelInv == ModelTrue /\ RowsOfModel
ModelTypes ==
  combo \in ComboEntries /\ sqwFile \in Names /\ pSqw \in AnyModel \union {Nothing}
ScanInv == ScanTrue /\ ScanHere /\ current = scanning.spin
ScanTypes == check \in BOOLEAN /\ scanFile \in Names /\ scanning \in AnyScan
RecentInv ==
  /\ last # Nothing => recent # <<>> /\ Head(recent) = last
  /\ IsInjective(recent)
RecentTypes == last \in Roots /\ recent \in Seq(Folders)
SavedTypes ==
  /\ disk \in [Folders -> AnySession \union {Nothing}]
  /\ meant \in [Folders -> AnyMeant \union {Nothing}]

LEMMA InvParts ==
  CsIInv <=> /\ ModelInv /\ ModelTypes /\ ScanInv /\ ScanTypes
             /\ RecentInv /\ RecentTypes /\ SavedInv /\ SavedTypes
             /\ favs \in Seq(Spins) /\ path \in Roots /\ setts \in AnySession
             /\ Reloaded
BY DEF CsIInv, CsTypeOK, DialogTrue, ListsTrue, ModelInv, ModelTypes, ScanInv,
       ScanTypes, RecentInv, RecentTypes, SavedTypes

LEMMA InvNext ==
  CsIInv' <=> /\ ModelInv' /\ ModelTypes' /\ ScanInv' /\ ScanTypes'
              /\ RecentInv' /\ RecentTypes' /\ SavedInv' /\ SavedTypes'
              /\ favs' \in Seq(Spins) /\ path' \in Roots
              /\ setts' \in AnySession /\ Reloaded'
BY DEF CsIInv, CsTypeOK, DialogTrue, ListsTrue, ModelInv, ModelTypes, ScanInv,
       ScanTypes, RecentInv, RecentTypes, SavedTypes

LEMMA ModelQuiet ==
  ASSUME ModelInv, ModelTypes, UNCHANGED model
  PROVE  ModelInv' /\ ModelTypes'
BY DEF ModelInv, ModelTypes, model, ModelTrue, RowsOfModel

LEMMA ScanQuiet ==
  ASSUME ScanInv, ScanTypes, UNCHANGED scan, path' \in {path, Nothing}
  PROVE  ScanInv' /\ ScanTypes'
BY DEF ScanInv, ScanTypes, scan, ScanTrue, ScanHere

LEMMA RecentQuiet ==
  ASSUME RecentInv, RecentTypes, recent' = recent, last' \in {last, Nothing}
  PROVE  RecentInv' /\ RecentTypes'
BY DEF RecentInv, RecentTypes, Roots

LEMMA SavedQuiet ==
  ASSUME SavedInv, SavedTypes, UNCHANGED <<disk, meant>>
  PROVE  SavedInv' /\ SavedTypes'
BY DEF SavedInv, SavedTypes

LEMMA NothingOpened == opened' = Nothing => Reloaded'
BY SessionAssumption DEF Reloaded

LEMMA StoredKept ==
  ASSUME CsIInv, UNCHANGED <<stored, meant>>
  PROVE  /\ RecentInv' /\ RecentTypes' /\ SavedInv' /\ SavedTypes'
         /\ path' \in Roots /\ path' = path /\ setts' \in AnySession
<1>1. UNCHANGED <<path, last, recent, disk, setts, meant>>
  BY DEF stored
<1> QED
  BY <1>1, InvParts, RecentQuiet, SavedQuiet

-----------------------------------------------------------------------------
(* The model and its variables.                                            *)

\* A model that is created anew is the one that the fields show.
LEMMA CreateKeeps ==
  ASSUME NEW c \in ComboEntries, NEW name \in Names, NEW p \in Roots,
         CreateSqwModel(c, name, p), combo' = c, sqwFile' = name
  PROVE  ModelInv' /\ ModelTypes'
<1>1. /\ pSqw' \in AnyModel \union {Nothing} /\ kept' = FALSE
      /\ pSqw' # Nothing => pSqw'.ident = c /\ pSqw'.file = FindFile(name, p)
      /\ rows' # Nothing => pSqw' # Nothing /\ rows' = pSqw'.ident
  BY CreateFacts
<1> QED
  BY <1>1 DEF ModelInv, ModelTypes, ModelTrue, RowsOfModel, Roots

LEMMA ModelKeeps == CsIInv /\ ModelStep => CsIInv'
<1> SUFFICES ASSUME CsIInv, ModelStep PROVE CsIInv'
  OBVIOUS
<1>1. /\ ModelInv /\ ModelTypes /\ ScanInv /\ ScanTypes
      /\ favs \in Seq(Spins) /\ path \in Roots
  BY InvParts
<1>2. CASE \E c \in Idents : SqwModelChanged(c)
  <2>1. PICK c \in Idents : SqwModelChanged(c)
    BY <1>2
  <2>2. /\ combo' = c /\ sqwFile' = Unset /\ CreateSqwModel(c, Unset, path)
        /\ opened' = Nothing /\ UNCHANGED <<scan, favs, stored, meant>>
    BY <2>1 DEF SqwModelChanged
  <2>3. Unset \in Names /\ c \in ComboEntries
    BY SessionAssumption DEF ComboEntries
  <2>4. ModelInv' /\ ModelTypes'
    BY <1>1, <2>2, <2>3, CreateKeeps
  <2> QED
    BY <1>1, <2>2, <2>4, StoredKept, ScanQuiet, NothingOpened, InvNext
<1>3. CASE \E name \in Names : SqwFileChanged(name)
  <2>1. PICK name \in Names : SqwFileChanged(name)
    BY <1>3
  <2>2. /\ combo' = combo /\ sqwFile' = name /\ CreateSqwModel(combo, name, path)
        /\ opened' = Nothing /\ UNCHANGED <<scan, favs, stored, meant>>
    BY <2>1 DEF SqwFileChanged
  <2>3. combo \in ComboEntries
    BY <1>1 DEF ModelTypes
  <2>4. ModelInv' /\ ModelTypes'
    BY <1>1, <2>2, <2>3, CreateKeeps
  <2> QED
    BY <1>1, <2>2, <2>4, StoredKept, ScanQuiet, NothingOpened, InvNext
<1>4. ASSUME NEW S \in SUBSET DOMAIN Defaults, NEW F \in SUBSET DOMAIN Defaults,
             SqwParamsChanged(S, F)
      PROVE  CsIInv'
  <2> DEFINE v == [x \in DOMAIN pSqw.var |->
                     IF x \in S THEN Changed[x] ELSE pSqw.var[x]]
  <2>1. /\ rows # Nothing /\ pSqw # Nothing
        /\ pSqw' = [pSqw EXCEPT !.var = v, !.fit = F]
        /\ opened' = Nothing /\ UNCHANGED <<combo, sqwFile, rows, kept>>
        /\ UNCHANGED <<scan, favs, stored, meant>>
    BY <1>4 DEF SqwParamsChanged
  <2>2. pSqw \in AnyModel
    BY <1>1, <2>1 DEF ModelTypes
  <2>3. v \in [DOMAIN Defaults -> Vals]
    BY <2>2, SessionAssumption DEF AnyModel
  <2> HIDE DEF v
  <2>4. pSqw' \in AnyModel /\ pSqw'.ident = pSqw.ident /\ pSqw'.file = pSqw.file
    BY <2>1, <2>2, <2>3 DEF AnyModel
  <2>5. pSqw' # Nothing
    BY <2>4, SessionAssumption
  <2>6. ModelInv' /\ ModelTypes'
    BY <1>1, <2>1, <2>4, <2>5
    DEF ModelInv, ModelTypes, ModelTrue, RowsOfModel
  <2> QED
    BY <1>1, <2>1, <2>6, StoredKept, ScanQuiet, NothingOpened, InvNext
<1> QED
  BY <1>2, <1>3, <1>4 DEF ModelStep
-----------------------------------------------------------------------------
(* The scan and the positions.                                             *)

\* The scan field is read anew, and is what the dialog uses.
LEMMA ReadScan ==
  ASSUME NEW s \in AnyScan, NEW b \in BOOLEAN, NEW name \in Names,
         NEW p, p = path',
         check' = b, scanFile' = name,
         SetScanning(ScanFileChanged(s, b, name, p))
  PROVE  ScanInv' /\ ScanTypes'
<1> DEFINE t == ScanFileChanged(s, b, name, p)
<1>1. /\ t \in AnyScan
      /\ t.use => b /\ Loads(name, p)
      /\ t.use => t.file = name /\ name \notin Bad
  BY ChangedScan
<1>2. scanning' = t /\ current' = t.spin
  BY DEF SetScanning
<1> HIDE DEF t
<1> QED
  BY <1>1, <1>2 DEF ScanInv, ScanTypes, ScanTrue, ScanHere

\* A position that is set by hand or from the favourites.
LEMMA SpinKeeps ==
  ASSUME CsIInv, NEW pos \in Spins, SetScanning([scanning EXCEPT !.spin = pos]),
         UNCHANGED <<check, scanFile, path>>
  PROVE  ScanInv' /\ ScanTypes'
<1>1. ScanInv /\ ScanTypes
  BY InvParts
<1>2. /\ scanning' \in AnyScan /\ scanning'.use = scanning.use
      /\ scanning'.file = scanning.file /\ current' = scanning'.spin
  BY <1>1 DEF ScanTypes, AnyScan, SetScanning
<1> QED
  BY <1>1, <1>2 DEF ScanInv, ScanTypes, ScanTrue, ScanHere

LEMMA PositionKeeps == CsIInv /\ PositionStep => CsIInv'
<1> SUFFICES ASSUME CsIInv, PositionStep PROVE CsIInv'
  OBVIOUS
<1>1. /\ ModelInv /\ ModelTypes /\ ScanInv /\ ScanTypes
      /\ favs \in Seq(Spins) /\ path \in Roots
  BY InvParts
<1>2. check \in BOOLEAN /\ scanFile \in Names /\ scanning \in AnyScan
  BY <1>1 DEF ScanTypes
<1>3. CASE ToggleScan
  <2>1. /\ check' = ~check /\ scanFile' = scanFile
        /\ SetScanning(ScanCheckToggled(scanning, ~check, scanFile, path))
        /\ opened' = Nothing /\ UNCHANGED <<model, favs, stored, meant>>
    BY <1>3 DEF ToggleScan
  <2>2. path' = path
    BY <2>1 DEF stored
  <2>3. ScanInv' /\ ScanTypes'
    <3>1. CASE check
      <4>1. scanning' = scanning /\ current' = scanning.spin /\ check' = FALSE
        BY <1>2, <2>1, <3>1 DEF ScanCheckToggled, SetScanning
      <4> QED
        BY <1>2, <2>1, <4>1 DEF ScanInv, ScanTypes, ScanTrue, ScanHere
    <3>2. CASE ~check
      <4>1. check' = TRUE
        BY <1>2, <2>1, <3>2
      <4>2. SetScanning(ScanFileChanged(scanning, check', scanFile, path))
        BY <2>1, <3>2, <4>1 DEF ScanCheckToggled
      <4> QED
        BY <1>2, <2>1, <2>2, <4>1, <4>2, ReadScan
    <3> QED
      BY <3>1, <3>2
  <2> QED
    BY <1>1, <2>1, <2>3, StoredKept, ModelQuiet, NothingOpened, InvNext
<1>4. CASE \E name \in Names : EditScan(name)
  <2>1. PICK name \in Names : EditScan(name)
    BY <1>4
  <2>2. /\ check' = check /\ scanFile' = name
        /\ SetScanning(ScanFileChanged(scanning, check, name, path))
        /\ opened' = Nothing /\ UNCHANGED <<model, favs, stored, meant>>
    BY <2>1 DEF EditScan
  <2>3. path' = path
    BY <2>2 DEF stored
  <2>4. ScanInv' /\ ScanTypes'
    BY <1>2, <2>2, <2>3, ReadScan
  <2> QED
    BY <1>1, <2>2, <2>4, StoredKept, ModelQuiet, NothingOpened, InvNext
<1>5. ASSUME NEW pos \in Spins, SetScanning([scanning EXCEPT !.spin = pos]),
             opened' = Nothing,
             UNCHANGED <<model, check, scanFile, favs, stored, meant>>
      PROVE  CsIInv'
  <2>1. UNCHANGED <<check, scanFile, path>>
    BY <1>5 DEF stored
  <2>2. ScanInv' /\ ScanTypes'
    BY <1>5, <2>1, SpinKeeps
  <2> QED
    BY <1>1, <1>5, <2>2, StoredKept, ModelQuiet, NothingOpened, InvNext
<1>6. CASE \E pos \in Places : ChangeHKL(pos)
  BY <1>5, <1>6 DEF ChangeHKL, Spins
<1>7. ASSUME NEW k \in 1 .. 2, ChangePos(k) PROVE CsIInv'
  <2>1. favs[k] \in Spins
    BY <1>1, <1>7 DEF ChangePos
  <2> QED
    BY <1>5, <1>7, <2>1 DEF ChangePos
<1>8. ASSUME opened' = Nothing, favs' \in Seq(Spins),
             UNCHANGED <<model, scan, stored, meant>>
      PROVE  CsIInv'
  <2>1. path' = path
    BY <1>8 DEF stored
  <2> QED
    BY <1>1, <1>8, <2>1, StoredKept, ModelQuiet, ScanQuiet, NothingOpened,
       InvNext
<1>9. CASE AddPosToList
  <2>1. current \in Spins
    BY <1>1 DEF ScanInv, ScanTypes, AnyScan
  <2>2. favs' \in Seq(Spins)
    BY <1>1, <1>9, <2>1 DEF AddPosToList
  <2> QED
    BY <1>8, <1>9, <2>2 DEF AddPosToList
<1>10. ASSUME NEW k \in 0 .. 1, RemPosFromList(k) PROVE CsIInv'
  <2>1. favs' = IF k \in DOMAIN favs THEN RemoveAt(favs, k) ELSE <<>>
    BY <1>10 DEF RemPosFromList
  <2>2. favs' \in Seq(Spins)
    <3>1. CASE k \in DOMAIN favs
      <4>1. k \in 1 .. Len(favs)
        BY <1>1, <3>1
      <4> QED
        BY <1>1, <2>1, <3>1, <4>1, RemoveAtFacts
    <3>2. CASE k \notin DOMAIN favs
      BY <2>1, <3>2
    <3> QED
      BY <3>1, <3>2
  <2> QED
    BY <1>8, <1>10, <2>2 DEF RemPosFromList
<1> QED
  BY <1>3, <1>4, <1>6, <1>7, <1>9, <1>10 DEF PositionStep

-----------------------------------------------------------------------------
(* Sessions.                                                               *)

LEMMA SaveConfType == CsIInv => SaveConf \in AnySession
<1> SUFFICES ASSUME CsIInv PROVE SaveConf \in AnySession
  OBVIOUS
<1>1. /\ combo \in ComboEntries /\ sqwFile \in Names
      /\ pSqw \in AnyModel \union {Nothing}
      /\ check \in BOOLEAN /\ scanFile \in Names /\ scanning.spin \in Spins
      /\ favs \in Seq(Spins)
  BY DEF CsIInv, CsTypeOK, AnyScan
<1>2. pSqw # Nothing => /\ pSqw.var \in [DOMAIN Defaults -> Vals]
                        /\ pSqw.fit \in SUBSET DOMAIN Defaults
  BY <1>1 DEF AnyModel
<1>3. Defaults \in [DOMAIN Defaults -> Vals] /\ Nothing \in ComboEntries
  BY SessionAssumption DEF ComboEntries
<1> DEFINE c == IF pSqw = Nothing THEN Nothing ELSE combo
           v == IF pSqw = Nothing THEN Defaults ELSE pSqw.var
           F == IF pSqw = Nothing THEN {} ELSE pSqw.fit
<1>4. /\ c \in ComboEntries /\ v \in [DOMAIN Defaults -> Vals]
      /\ F \in SUBSET DOMAIN Defaults
  BY <1>1, <1>2, <1>3
<1>5. SaveConf = [check |-> check, spin |-> scanning.spin, ident |-> c,
                  sqwFile |-> sqwFile, scanFile |-> scanFile, favs |-> favs,
                  var |-> v, fit |-> F]
  BY DEF SaveConf
<1> HIDE DEF c, v, F
<1> QED
  BY <1>1, <1>4, <1>5 DEF AnySession

\* The session of a model has its name, variables and flags.
LEMMA SavedConf ==
  ASSUME CsIInv
  PROVE  /\ SaveConf.check = check /\ SaveConf.spin = scanning.spin
         /\ SaveConf.scanFile = scanFile
         /\ pSqw # Nothing =>
              /\ SaveConf.ident = pSqw.ident
              /\ SaveConf.var = pSqw.var /\ SaveConf.fit = pSqw.fit
BY DEF SaveConf, CsIInv, DialogTrue, ModelTrue

LEMMA SaveToKeeps ==
  ASSUME CsIInv, NEW d \in Folders, SaveTo(d)
  PROVE  SavedInv' /\ SavedTypes'
<1> DEFINE s == SaveConf
           m == [pSqw |-> pSqw, scanning |-> scanning, path |-> path]
<1>1. disk' = [disk EXCEPT ![d] = s] /\ meant' = [meant EXCEPT ![d] = m]
  BY DEF SaveTo
<1>2. s \in AnySession
  BY SaveConfType
<1>3. /\ disk \in [Folders -> AnySession \union {Nothing}]
      /\ meant \in [Folders -> AnyMeant \union {Nothing}]
      /\ SavedInv /\ ScanHere /\ ScanTrue
  BY DEF CsIInv, CsTypeOK, DialogTrue
<1>4. m \in AnyMeant
  BY DEF CsIInv, CsTypeOK, AnyMeant
<1>5. /\ s.spin = scanning.spin
      /\ pSqw # Nothing =>
           s.ident = pSqw.ident /\ s.var = pSqw.var /\ s.fit = pSqw.fit
      /\ s.check = check /\ s.scanFile = scanFile
  BY SavedConf
<1>6. d # Nothing
  BY SessionAssumption
<1>7. s.check /\ scanning.use /\ path = d =>
        Loads(s.scanFile, d) /\ s.scanFile = scanning.file
  BY <1>3, <1>5, <1>6 DEF ScanHere, ScanTrue
<1> HIDE DEF s
<1>8. m.pSqw = pSqw /\ m.scanning = scanning /\ m.path = path
  OBVIOUS
<1> HIDE DEF m
<1>9. disk'[d] = s /\ meant'[d] = m
  BY <1>1, <1>3
<1>10. \A e \in Folders \ {d} : disk'[e] = disk[e] /\ meant'[e] = meant[e]
  BY <1>1, <1>3
<1>11. SavedInv'
  <2> SUFFICES ASSUME NEW e \in Folders,
                      disk'[e] # Nothing, meant'[e] # Nothing,
                      meant'[e].pSqw # Nothing
               PROVE  /\ disk'[e].ident = meant'[e].pSqw.ident
                      /\ disk'[e].var = meant'[e].pSqw.var
                      /\ disk'[e].fit = meant'[e].pSqw.fit
                      /\ disk'[e].spin = meant'[e].scanning.spin
                      /\ disk'[e].check /\ meant'[e].scanning.use
                           /\ meant'[e].path = e =>
                           /\ Loads(disk'[e].scanFile, e)
                           /\ disk'[e].scanFile = meant'[e].scanning.file
    BY DEF SavedInv
  <2>1. CASE e = d
    BY <1>5, <1>7, <1>8, <1>9, <2>1
  <2>2. CASE e # d
    BY <1>3, <1>10, <2>2 DEF SavedInv
  <2> QED
    BY <2>1, <2>2
<1>12. SavedTypes'
  BY <1>1, <1>2, <1>3, <1>4 DEF SavedTypes
<1> QED
  BY <1>11, <1>12

\* The session's model; one without a model's name leaves the model.
LEMMA LoadModelFacts ==
  ASSUME ModelInv, ModelTypes, NEW s \in AnySession, NEW d \in Folders,
         sqwFile' = s.sqwFile, LoadModel(s, d)
  PROVE  /\ ModelInv' /\ ModelTypes'
         /\ s.ident \in Idents =>
              pSqw' = [ident |-> s.ident, file |-> FindFile(s.sqwFile, d),
                       var |-> s.var, fit |-> s.fit]
<1> DEFINE f == FindFile(s.sqwFile, d)
           q == ConstructSqw(s.ident, f)
<1>1. /\ s.ident \in ComboEntries /\ s.sqwFile \in Names
      /\ s.var \in [DOMAIN Defaults -> Vals] /\ s.fit \in SUBSET DOMAIN Defaults
  BY DEF AnySession
<1>2. f \in Found \union {Nothing} /\ Nothing \notin Idents
  BY FindFacts, SessionAssumption
<1>3. CASE s.ident = Nothing
  <2>1. kept' = TRUE /\ UNCHANGED <<combo, pSqw, rows>>
    BY <1>3 DEF LoadModel
  <2> QED
    BY <1>1, <1>2, <1>3, <2>1
    DEF ModelInv, ModelTypes, ModelTrue, RowsOfModel
<1>4. CASE s.ident # Nothing /\ s.ident \notin Idents
  <2>1. q = Nothing
    BY <1>4 DEF ConstructSqw
  <2>2. combo' = Nothing /\ pSqw' = Nothing /\ rows' = Nothing
    BY <1>4, <2>1 DEF LoadModel
  <2> QED
    BY <1>1, <1>4, <2>2
    DEF ModelInv, ModelTypes, ModelTrue, RowsOfModel, ComboEntries
<1>5. CASE s.ident \in Idents
  <2>1. q = [ident |-> s.ident, file |-> f, var |-> Defaults, fit |-> {}]
        /\ q # Nothing
    BY <1>2, <1>5, ConstructFacts
  <2>2. /\ combo' = s.ident /\ rows' = s.ident
        /\ pSqw' = [q EXCEPT !.var = s.var, !.fit = s.fit]
    BY <1>2, <1>5, <2>1 DEF LoadModel
  <2> HIDE DEF q, f
  <2>3. pSqw' = [ident |-> s.ident, file |-> f, var |-> s.var, fit |-> s.fit]
    BY <2>1, <2>2
  <2>4. pSqw' \in AnyModel
    BY <1>1, <1>2, <1>5, <2>3 DEF AnyModel
  <2>5. pSqw' # Nothing
    BY <2>4, SessionAssumption
  <2>6. pSqw'.ident = s.ident /\ pSqw'.file = f
    BY <2>3
  <2>7. f \in {FindFile(s.sqwFile, p) : p \in Folders \union {Nothing}}
    BY DEF f
  <2> QED
    BY <1>1, <2>2, <2>3, <2>4, <2>5, <2>6, <2>7
    DEF ModelInv, ModelTypes, ModelTrue, RowsOfModel, ComboEntries, f
<1> QED
  BY <1>3, <1>4, <1>5

LEMMA LoadKeeps ==
  ASSUME CsIInv, NEW d \in Folders, Load(d)
  PROVE  CsIInv'
<1> DEFINE s == disk[d]
           t == LoadScan(s, d)
<1>1. /\ ModelInv /\ ModelTypes /\ RecentInv /\ RecentTypes /\ SavedInv
      /\ SavedTypes /\ setts \in AnySession /\ CsTypeOK
  BY InvParts DEF CsIInv
<1>2. s \in AnySession
  BY <1>1 DEF Load, SavedTypes
<1>3. /\ path' = d /\ last' = d /\ recent' = AddFile(recent, d)
      /\ sqwFile' = s.sqwFile /\ LoadModel(s, d)
      /\ check' = s.check /\ scanFile' = s.scanFile
      /\ scanning' = t /\ current' = t.spin /\ favs' = s.favs
      /\ opened' = d /\ UNCHANGED <<disk, setts, meant>>
  BY DEF Load, SetScanning
<1>4. /\ ModelInv' /\ ModelTypes'
      /\ s.ident \in Idents =>
           pSqw' = [ident |-> s.ident, file |-> FindFile(s.sqwFile, d),
                    var |-> s.var, fit |-> s.fit]
  BY <1>1, <1>2, <1>3, LoadModelFacts
<1>5. /\ t \in AnyScan
      /\ s.check => (t.use <=> s.scanFile # Unset /\ Loads(s.scanFile, d))
      /\ s.check /\ t.use => t.file = s.scanFile /\ s.scanFile \notin Bad
      /\ ~(s.check /\ t.use) => t.spin = s.spin
  BY <1>1, <1>2, LoadedScan
<1> HIDE DEF t
<1>6. s.check \in BOOLEAN /\ s.scanFile \in Names /\ s.favs \in Seq(Spins)
  BY <1>2 DEF AnySession
<1> HIDE DEF s
<1>7. ScanInv' /\ ScanTypes'
  BY <1>3, <1>5, <1>6 DEF ScanInv, ScanTypes, ScanTrue, ScanHere
<1>8. RecentInv' /\ RecentTypes'
  <2>1. recent \in Seq(Folders) /\ IsInjective(recent)
    BY <1>1 DEF RecentInv, RecentTypes
  <2>2. /\ recent' \in Seq(Folders) /\ IsInjective(recent')
        /\ recent' # <<>> /\ Head(recent') = d
    BY <1>3, <2>1, AddFacts
  <2> QED
    BY <1>3, <2>2 DEF RecentInv, RecentTypes, Roots
<1>9. SavedInv' /\ SavedTypes'
  BY <1>1, <1>3, SavedQuiet
<1>10. path' \in Roots
  BY <1>3 DEF Roots
<1>11. ASSUME meant[d] # Nothing, meant[d].pSqw # Nothing
       PROVE  /\ FindFile(sqwFile', d) = meant[d].pSqw.file =>
                   pSqw' = meant[d].pSqw
              /\ pSqw'.var = meant[d].pSqw.var /\ pSqw'.fit = meant[d].pSqw.fit
              /\ ~(check' /\ scanning'.use) =>
                   scanning'.spin = meant[d].scanning.spin
              /\ check' /\ meant[d].scanning.use /\ meant[d].path = d =>
                   scanning'.use /\ scanning'.file = meant[d].scanning.file
  <2> DEFINE m == meant[d].pSqw
  <2>1. m \in AnyModel
    BY <1>1, <1>11 DEF SavedTypes, AnyMeant
  <2>2. s # Nothing
    BY DEF Load, s
  <2>3. /\ s.ident = m.ident /\ s.var = m.var /\ s.fit = m.fit
        /\ s.spin = meant[d].scanning.spin
        /\ s.check /\ meant[d].scanning.use /\ meant[d].path = d =>
             Loads(s.scanFile, d) /\ s.scanFile = meant[d].scanning.file
    BY <1>1, <1>11, <2>2 DEF SavedInv, s
  <2>4. /\ m = [ident |-> m.ident, file |-> m.file, var |-> m.var,
                fit |-> m.fit]
        /\ m.ident \in Idents
    BY <2>1 DEF AnyModel
  <2>5. pSqw' = [ident |-> m.ident, file |-> FindFile(sqwFile', d),
                 var |-> m.var, fit |-> m.fit]
    BY <1>3, <1>4, <2>3, <2>4
  <2> HIDE DEF m
  <2>6. FindFile(sqwFile', d) = m.file => pSqw' = m
    BY <2>4, <2>5
  <2>7. pSqw'.var = m.var /\ pSqw'.fit = m.fit
    BY <2>5
  <2>8. ~Loads(Unset, d)
    BY FindFacts DEF Roots
  <2>9. ~(check' /\ scanning'.use) => scanning'.spin = meant[d].scanning.spin
    BY <1>3, <1>5, <2>3
  <2>10. check' /\ meant[d].scanning.use /\ meant[d].path = d =>
           scanning'.use /\ scanning'.file = meant[d].scanning.file
    BY <1>3, <1>5, <2>3, <2>8
  <2> QED
    BY <2>6, <2>7, <2>9, <2>10 DEF m
<1>12. Reloaded'
  <2>1. opened' = d /\ opened' # "job" /\ meant' = meant
    BY <1>3, SessionAssumption
  <2> QED
    BY <1>11, <2>1 DEF Reloaded
<1> QED
  BY <1>3, <1>4, <1>6, <1>7, <1>8, <1>9, <1>10, <1>12, <1>1, InvNext

\* Nothing of a running dialog survives a new start but what the settings have.
LEMMA LoadSettingsKeeps ==
  ASSUME CsIInv, LoadSettings
  PROVE  CsIInv'
<1> DEFINE fresh == [use |-> FALSE, file |-> Nothing, spin |-> setts.spin]
           c == IF setts.ident \in Idents THEN setts.ident ELSE Nothing
<1>1. /\ RecentInv /\ RecentTypes /\ SavedInv /\ SavedTypes
      /\ setts \in AnySession
  BY InvParts
<1>2. /\ setts.check \in BOOLEAN /\ setts.spin \in Spins
      /\ setts.sqwFile \in Names /\ setts.scanFile \in Names
      /\ setts.favs \in Seq(Spins)
  BY <1>1 DEF AnySession
<1>3. c \in ComboEntries
  BY DEF ComboEntries
<1>4. fresh \in AnyScan /\ fresh.use = FALSE
  BY <1>2 DEF AnyScan
<1> HIDE DEF fresh, c
<1>5. /\ combo' = c /\ sqwFile' = setts.sqwFile
      /\ CreateSqwModel(c, setts.sqwFile, Nothing)
      /\ check' = setts.check /\ scanFile' = setts.scanFile
      /\ SetScanning(ScanCheckToggled(fresh, setts.check, setts.scanFile,
                                      Nothing))
      /\ favs' = setts.favs
      /\ path' = Nothing /\ last' = Nothing /\ opened' = Nothing
      /\ UNCHANGED <<recent, disk, setts, meant>>
  BY DEF LoadSettings, fresh, c
<1>6. ModelInv' /\ ModelTypes'
  BY <1>2, <1>3, <1>5, CreateKeeps DEF Roots
<1>7. ScanInv' /\ ScanTypes'
  <2>1. CASE setts.check
    <3>1. SetScanning(ScanFileChanged(fresh, check', setts.scanFile, Nothing))
      <4>1. check' = TRUE
        BY <1>2, <1>5, <2>1
      <4> QED
        BY <1>5, <2>1, <4>1 DEF ScanCheckToggled
    <3>2. check' \in BOOLEAN
      BY <1>2, <1>5
    <3> QED
      BY <1>2, <1>4, <1>5, <3>1, <3>2, ReadScan
  <2>2. CASE ~setts.check
    <3>1. scanning' = fresh /\ current' = fresh.spin /\ check' = FALSE
      BY <1>2, <1>5, <2>2 DEF ScanCheckToggled, SetScanning
    <3> QED
      BY <1>2, <1>4, <1>5, <3>1 DEF ScanInv, ScanTypes, ScanTrue, ScanHere
  <2> QED
    BY <2>1, <2>2
<1>8. path' \in Roots
  BY <1>5 DEF Roots
<1> QED
  BY <1>1, <1>2, <1>5, <1>6, <1>7, <1>8, RecentQuiet, SavedQuiet, NothingOpened,
     InvNext

LEMMA FileKeeps == CsIInv /\ FileStep => CsIInv'
<1> SUFFICES ASSUME CsIInv, FileStep PROVE CsIInv'
  OBVIOUS
<1>1. /\ ModelInv /\ ModelTypes /\ ScanInv /\ ScanTypes
      /\ RecentInv /\ RecentTypes /\ SavedInv /\ SavedTypes
      /\ favs \in Seq(Spins) /\ path \in Roots /\ setts \in AnySession
  BY InvParts
<1>2. CASE New
  <2>1. /\ path' = Nothing /\ last' = Nothing /\ opened' = Nothing
        /\ UNCHANGED <<model, scan, favs, recent, disk, setts, meant>>
    BY <1>2 DEF New
  <2>2. path' \in Roots
    BY <2>1 DEF Roots
  <2> QED
    BY <1>1, <2>1, <2>2, ModelQuiet, ScanQuiet, RecentQuiet, SavedQuiet,
       NothingOpened, InvNext
<1>3. CASE SaveSession
  <2>1. last # Nothing /\ SaveTo(last) /\ UNCHANGED <<last, recent>>
    BY <1>3 DEF SaveSession
  <2>2. last \in Folders
    BY <1>1, <2>1 DEF RecentTypes, Roots
  <2>3. opened' = Nothing /\ UNCHANGED <<model, scan, favs, path, setts>>
    BY <2>1 DEF SaveTo
  <2> QED
    BY <1>1, <2>1, <2>2, <2>3, SaveToKeeps, ModelQuiet, ScanQuiet, RecentQuiet,
       NothingOpened, InvNext
<1>4. ASSUME NEW d \in Folders, SaveAs(d) PROVE CsIInv'
  <2>1. SaveTo(d) /\ last' = d /\ recent' = AddFile(recent, d)
    BY <1>4 DEF SaveAs
  <2>2. opened' = Nothing /\ UNCHANGED <<model, scan, favs, path, setts>>
    BY <2>1 DEF SaveTo
  <2>3. RecentInv' /\ RecentTypes'
    <3>1. recent \in Seq(Folders) /\ IsInjective(recent)
      BY <1>1 DEF RecentInv, RecentTypes
    <3>2. /\ recent' \in Seq(Folders) /\ IsInjective(recent')
          /\ recent' # <<>> /\ Head(recent') = d
      BY <2>1, <3>1, AddFacts
    <3> QED
      BY <2>1, <3>2 DEF RecentInv, RecentTypes, Roots
  <2> QED
    BY <1>1, <2>1, <2>2, <2>3, SaveToKeeps, ModelQuiet, ScanQuiet, NothingOpened,
       InvNext
<1>5. CASE Accept
  <2>1. /\ setts' = [SaveConf EXCEPT !.ident = combo, !.var = Defaults, !.fit = {}]
        /\ opened' = Nothing
        /\ UNCHANGED <<model, scan, favs, path, last, recent, disk, meant>>
    BY <1>5 DEF Accept
  <2>2. SaveConf \in AnySession
    BY SaveConfType
  <2>3. combo \in ComboEntries /\ Defaults \in [DOMAIN Defaults -> Vals]
    BY <1>1, SessionAssumption DEF ModelTypes
  <2>4. setts' \in AnySession
    BY <2>1, <2>2, <2>3 DEF AnySession
  <2> QED
    BY <1>1, <2>1, <2>4, ModelQuiet, ScanQuiet, RecentQuiet, SavedQuiet,
       NothingOpened, InvNext
<1>6. CASE LoadSettings
  BY <1>6, LoadSettingsKeeps
<1>7. CASE SaveConvofit
  <2>1. /\ exported'.params = [x \in SaveConf.fit |-> SaveConf.var[x]]
        /\ exported'.sets =
             [x \in DOMAIN Defaults \ SaveConf.fit |-> SaveConf.var[x]]
        /\ pSqw # Nothing /\ opened' = "job"
        /\ UNCHANGED <<model, scan, favs, stored, meant>>
    BY <1>7 DEF SaveConvofit
  <2>2. SaveConf.fit = pSqw.fit /\ SaveConf.var = pSqw.var
    BY <2>1, SavedConf
  <2>3. pSqw' = pSqw /\ UNCHANGED <<path, last, recent, disk, setts>>
    BY <2>1 DEF model, stored
  <2>4. Reloaded'
    BY <2>1, <2>2, <2>3, SessionAssumption DEF Reloaded
  <2> QED
    BY <1>1, <2>1, <2>3, <2>4, ModelQuiet, ScanQuiet, RecentQuiet, SavedQuiet,
       InvNext
<1>8. ASSUME NEW d \in Folders, Load(d) PROVE CsIInv'
  BY <1>8, LoadKeeps
<1> QED
  BY <1>2, <1>3, <1>4, <1>5, <1>6, <1>7, <1>8 DEF FileStep

-----------------------------------------------------------------------------

LEMMA CsInitInv == CsInit => CsIInv
<1> SUFFICES ASSUME CsInit PROVE CsIInv
  OBVIOUS
<1>1. FirstIdent \in Idents
  BY SessionAssumption DEF FirstIdent
<1>2. Unset \in Names /\ FarName \in Names /\ Defaults \in [DOMAIN Defaults -> Vals]
      /\ Changed \in [DOMAIN Defaults -> Vals]
  BY SessionAssumption
<1>3. NoSession \in AnySession
  BY <1>2 DEF NoSession, AnySession, Spins, ComboEntries
<1>4. Earlier \subseteq AnySession
  <2>1. [NoSession EXCEPT !.ident = Plugin] \in AnySession
    BY <1>3 DEF AnySession, ComboEntries
  <2>2. ASSUME NEW c \in Idents, NEW pos \in Places
        PROVE  [check |-> TRUE, spin |-> pos, ident |-> c, sqwFile |-> FarName,
                scanFile |-> FarName, favs |-> <<pos>>, var |-> Changed,
                fit |-> {}] \in AnySession
    <3>1. <<pos>> \in Seq(Spins) /\ pos \in Spins /\ c \in ComboEntries
      BY DEF Spins, ComboEntries
    <3> QED
      BY <1>2, <3>1 DEF AnySession
  <2> QED
    BY <2>1, <2>2 DEF Earlier
<1>5. /\ pSqw = [ident |-> FirstIdent, file |-> Nothing, var |-> Defaults,
                 fit |-> {}]
      /\ combo = FirstIdent
  BY <1>1 DEF CsInit, ConstructSqw
<1>6. ModelInv /\ ModelTypes
  <2>1. pSqw \in AnyModel
    BY <1>1, <1>2, <1>5 DEF AnyModel
  <2>2. FindFile(Unset, Nothing) = Nothing
    BY SessionAssumption DEF FindFile
  <2>3. pSqw.ident = combo /\ pSqw.file = FindFile(sqwFile, Nothing)
    BY <1>5, <2>2 DEF CsInit
  <2> QED
    BY <1>1, <1>2, <1>5, <2>1, <2>3
    DEF CsInit, ModelInv, ModelTypes, ModelTrue, RowsOfModel, ComboEntries
<1>7. ScanInv /\ ScanTypes
  BY <1>2 DEF CsInit, ScanInv, ScanTypes, ScanTrue, ScanHere, AnyScan, Spins
<1>8. RecentInv /\ RecentTypes
  BY DEF CsInit, RecentInv, RecentTypes, Roots, IsInjective
<1>9. disk \in [Folders -> AnySession \union {Nothing}]
  BY <1>4 DEF CsInit
<1>10. ASSUME NEW d \in Folders
       PROVE  /\ meant[d] \in AnyMeant \union {Nothing}
              /\ disk[d] # Nothing /\ meant[d] # Nothing =>
                   /\ disk[d].ident = meant[d].pSqw.ident
                   /\ disk[d].var = meant[d].pSqw.var
                   /\ disk[d].fit = meant[d].pSqw.fit
                   /\ disk[d].spin = meant[d].scanning.spin
                   /\ disk[d].check /\ meant[d].scanning.use =>
                        /\ Loads(disk[d].scanFile, d)
                        /\ disk[d].scanFile = meant[d].scanning.file
  <2>1. CASE disk[d] = Nothing \/ disk[d].ident = Plugin
    <3>1. meant[d] = Nothing
      BY <2>1 DEF CsInit
    <3> QED
      BY <3>1
  <2>2. CASE ~(disk[d] = Nothing \/ disk[d].ident = Plugin)
    <3> DEFINE s == disk[d]
               m == [ident |-> s.ident, file |-> FindFile(s.sqwFile, d),
                     var |-> s.var, fit |-> s.fit]
               t == [use |-> Loads(s.scanFile, d), file |-> s.scanFile,
                     spin |-> s.spin]
    <3>1. meant[d] = [pSqw |-> m, scanning |-> t, path |-> d]
      BY <2>2 DEF CsInit
    <3>2. s \in Earlier /\ s \in AnySession
      BY <1>4, <2>2 DEF CsInit
    <3>3. s.ident \in Idents
      BY <2>2, <3>2 DEF Earlier, NoSession
    <3>4. FindFile(s.sqwFile, d) \in Found \union {Nothing}
      BY FindFacts
    <3>5. m \in AnyModel
      BY <3>2, <3>3, <3>4 DEF AnyModel, AnySession
    <3>6. t \in AnyScan
      <4>1. Loads(s.scanFile, d) \in BOOLEAN
        BY DEF Loads
      <4> QED
        BY <3>2, <4>1 DEF AnyScan, AnySession
    <3>7. meant[d] \in AnyMeant
      BY <3>1, <3>5, <3>6 DEF AnyMeant, Roots
    <3> QED
      BY <3>1, <3>7
  <2> QED
    BY <2>1, <2>2
<1>11. SavedInv
  BY <1>10 DEF SavedInv
<1>12. SavedTypes
  <2>1. meant \in [Folders -> AnyMeant \union {Nothing}]
    BY <1>10 DEF CsInit
  <2> QED
    BY <1>9, <2>1 DEF SavedTypes
<1>13. setts \in AnySession
  <2>1. setts = [NoSession EXCEPT !.ident = FirstIdent]
    BY <1>5 DEF CsInit
  <2>2. FirstIdent \in ComboEntries
    BY <1>1 DEF ComboEntries
  <2> QED
    BY <1>3, <2>1, <2>2 DEF AnySession
<1>14. Reloaded
  BY SessionAssumption DEF CsInit, Reloaded
<1>15. favs \in Seq(Spins) /\ path \in Roots
  BY DEF CsInit, Roots
<1> QED
  BY <1>6, <1>7, <1>8, <1>11, <1>12, <1>13, <1>14, <1>15, InvParts

LEMMA CsStep == CsIInv /\ [CsNext]_csvars => CsIInv'
<1>1. CsIInv /\ UNCHANGED csvars => CsIInv'
  <2> SUFFICES ASSUME CsIInv, UNCHANGED csvars PROVE CsIInv'
    OBVIOUS
  <2>1. Reloaded'
    BY DEF csvars, CsIInv, Reloaded
  <2>2. /\ UNCHANGED <<model, scan, stored, favs, meant>> /\ path' = path
    BY DEF csvars, model, scan, stored
  <2> QED
    BY <2>1, <2>2, InvParts, StoredKept, ModelQuiet, ScanQuiet, InvNext
<1> QED
  BY <1>1, ModelKeeps, PositionKeeps, FileKeeps DEF CsNext

(***************************************************************************)
(* CsIInv is inductive: the fields of the convolution dialog, its session  *)
(* files and its model agree after every event (ConvoDlg.cpp).             *)
(***************************************************************************)
THEOREM CsInvariance == CsSpec => []CsIInv
<1> QED
  BY CsInitInv, CsStep, PTL DEF CsSpec

(***************************************************************************)
(* The convolution dialog shows what it calculates with.                   *)
(***************************************************************************)
THEOREM DialogShows == CsSpec => []DialogTrue
<1>1. CsIInv => DialogTrue
  BY DEF CsIInv
<1> QED
  BY <1>1, CsInvariance, PTL

(***************************************************************************)
(* A session that is loaded brings back the model and scan of the time it  *)
(* was saved (ConvoDlg::Save, Load), and an exported job has every         *)
(* variable once.                                                          *)
(***************************************************************************)
THEOREM SessionsReload == CsSpec => []Reloaded
<1>1. CsIInv => Reloaded
  BY DEF CsIInv
<1> QED
  BY <1>1, CsInvariance, PTL

-----------------------------------------------------------------------------
\* Every set of natural numbers has a least one.
LEMMA LeastNumber ==
  ASSUME NEW T, T \subseteq Nat, T # {}
  PROVE  \E m \in T : \A k \in T : m <= k
<1>1. PICK m \in T : \A k \in T : ~(<<k, m>> \in OpToRel(<, Nat))
  <2> DEFINE R == OpToRel(<, Nat)
  <2>1. IsWellFoundedOn(R, Nat)
    BY NatLessThanWellFounded
  <2> HIDE DEF R
  <2>2. \E m \in T : \A k \in T : ~(<<k, m>> \in R)
    BY <2>1, WFMin
  <2> QED
    BY <2>2 DEF R
<1>2. \A k \in T : ~(k < m)
  BY <1>1 DEF OpToRel
<1> QED
  BY <1>2

\* The dialogs after the first n removals.
RemovalsTo(x, n, a) ==
  a = [k \in 0 .. n |->
        IF k = 0 THEN x ELSE RemoveLast(a[k - 1], Len(x.list) + 1 - k)]

LEMMA RemovalsExist ==
  ASSUME NEW x, NEW n \in Nat
  PROVE  \E a : RemovalsTo(x, n, a)
<1> DEFINE T == {k \in Nat : ~ \E a : RemovalsTo(x, k, a)}
<1>1. SUFFICES T = {}
  OBVIOUS
<1>2. SUFFICES ASSUME T # {} PROVE FALSE
  OBVIOUS
<1>3. PICK m \in T : \A k \in T : m <= k
  BY <1>2, LeastNumber
<1>4. m \in Nat /\ ~ \E a : RemovalsTo(x, m, a)
  BY <1>3
<1>5. CASE m = 0
  <2> DEFINE a == [k \in 0 .. 0 |-> x]
  <2>1. RemovalsTo(x, 0, a)
    BY DEF RemovalsTo
  <2> QED
    BY <1>4, <1>5, <2>1
<1>6. CASE m # 0
  <2>1. m - 1 \in Nat /\ ~(m <= m - 1)
    BY <1>4, <1>6
  <2>2. PICK b : RemovalsTo(x, m - 1, b)
    BY <1>3, <2>1
  <2> DEFINE a == [k \in 0 .. m |->
                     IF k < m THEN b[k]
                     ELSE RemoveLast(b[m - 1], Len(x.list) + 1 - m)]
  <2>3. RemovalsTo(x, m, a)
    <3>1. ASSUME NEW k \in 0 .. m
          PROVE  a[k] = IF k = 0 THEN x
                        ELSE RemoveLast(a[k - 1], Len(x.list) + 1 - k)
      <4>1. CASE k = m
        <5>1. m - 1 \in 0 .. m /\ a[m - 1] = b[m - 1]
          BY <2>1
        <5> QED
          BY <4>1, <1>6, <5>1
      <4>2. CASE k < m
        <5>1. k \in 0 .. m - 1 /\ a[k] = b[k]
          BY <4>2, <2>1
        <5>2. b[k] = IF k = 0 THEN x
                     ELSE RemoveLast(b[k - 1], Len(x.list) + 1 - k)
          BY <2>2, <5>1 DEF RemovalsTo
        <5>3. k # 0 => k - 1 \in 0 .. m /\ a[k - 1] = b[k - 1]
          BY <4>2, <2>1
        <5> QED
          BY <5>1, <5>2, <5>3
      <4> QED
        BY <4>1, <4>2
    <3>2. a = [k \in 0 .. m |->
                IF k = 0 THEN x
                ELSE RemoveLast(a[k - 1], Len(x.list) + 1 - k)]
      <4>1. a = [k \in 0 .. m |-> a[k]]
        OBVIOUS
      <4> HIDE DEF a
      <4> QED
        BY <3>1, <4>1
    <3> HIDE DEF a
    <3> QED
      BY <3>2 DEF RemovalsTo
  <2> QED
    BY <1>4, <2>3
<1> QED
  BY <1>5, <1>6

\* ... which the model's recursion defines.
LEMMA RemovalsFacts ==
  ASSUME NEW x, Len(x.list) \in Nat, Len(x.list) > 0
  PROVE  LET n == Len(x.list)
             a == Removals(x)
         IN  /\ a[0] = x
             /\ \A k \in 1 .. n - 1 : a[k] = RemoveLast(a[k - 1], n + 1 - k)
<1> DEFINE n == Len(x.list)
           a == Removals(x)
<1>1. n \in Nat /\ n > 0
  OBVIOUS
<1>2. \E b : RemovalsTo(x, n - 1, b)
  <2>1. n - 1 \in Nat
    BY <1>1
  <2> HIDE DEF n
  <2> QED
    BY <2>1, RemovalsExist
<1>3. RemovalsTo(x, n - 1, a)
  BY <1>2 DEF Removals, RemovalsTo
<1> HIDE DEF a, n
<1>4. a = [k \in 0 .. n - 1 |->
             IF k = 0 THEN x ELSE RemoveLast(a[k - 1], n + 1 - k)]
  BY <1>3 DEF RemovalsTo, n
<1>5. a[0] = x
  BY <1>1, <1>4
<1>6. \A k \in 1 .. n - 1 : a[k] = RemoveLast(a[k - 1], n + 1 - k)
  BY <1>1, <1>4
<1> QED
  BY <1>5, <1>6 DEF a, n

-----------------------------------------------------------------------------
(* What the operations leave alone.                                        *)

\* All fields but some are the same.
Same(r, x, but) ==
  DOMAIN r = DOMAIN x /\ \A f \in DOMAIN x \ but : r[f] = x[f]

\* What is calculated.
Results == {"shown", "status", "stale"}

LEMMA SameWanted ==
  ASSUME NEW x, NEW r, r.kind = x.kind, Group(r) = Group(x),
         r.atoms = x.atoms, r.order = x.order, r.cell = x.cell,
         r.lam = x.lam, r.unique = x.unique, r.centre = x.centre
  PROVE  Wanted(r) = Wanted(x)
<1>1. UnitCell(r) = UnitCell(x)
  BY DEF UnitCell
<1>2. Peaks(r) = Peaks(x)
  BY DEF Peaks
<1>3. PowderLines(r) = PowderLines(x)
  BY <1>1, <1>2 DEF PowderLines
<1>4. PowderPlot(r) = PowderPlot(x)
  BY <1>2, <1>3 DEF PowderPlot
<1>5. Centre(r) = Centre(x)
  BY DEF Centre
<1>6. Neighbours(r) = Neighbours(x)
  BY <1>1, <1>5 DEF Neighbours
<1> QED
  BY <1>3, <1>4, <1>6 DEF Wanted

LEMMA CalcFacts ==
  ASSUME NEW x, DOMAIN x = DlgFields, x.dontCalc \in BOOLEAN
  PROVE  LET r == CalcDlg(x)
         IN  /\ Same(r, x, Results)
             /\ x.dontCalc => r = x
             /\ ~x.dontCalc => CalcTrue(r)
<1> DEFINE r == CalcDlg(x)
           failed == [x EXCEPT !.status = "error", !.stale = TRUE]
           none == [x EXCEPT !.stale = TRUE]
           drawn == [x EXCEPT !.shown = Wanted(x), !.status = "ok",
                             !.stale = FALSE]
<1>1. \/ r = x /\ x.dontCalc
      \/ ~x.dontCalc /\ r \in {failed, none, drawn}
  BY DEF CalcDlg, CalcPeaks, CalcDisp
<1>2. /\ Same(failed, x, Results) /\ failed.stale = TRUE
      /\ Same(none, x, Results) /\ none.stale = TRUE
      /\ Same(drawn, x, Results) /\ drawn.stale = FALSE /\ drawn.shown = Wanted(x)
  BY DEF Same, Results, DlgFields
<1>3. Same(x, x, Results)
  BY DEF Same
<1> HIDE DEF r, failed, none, drawn
<1>4. CalcTrue(failed) /\ CalcTrue(none)
  BY <1>2 DEF CalcTrue
<1>5. CalcTrue(drawn)
  <2>1. /\ drawn.kind = x.kind /\ drawn.list = x.list /\ drawn.current = x.current
        /\ drawn.atoms = x.atoms /\ drawn.order = x.order /\ drawn.cell = x.cell
        /\ drawn.lam = x.lam /\ drawn.unique = x.unique
        /\ drawn.centre = x.centre
    BY <1>2 DEF Same, Results, DlgFields
  <2>2. Wanted(drawn) = Wanted(x)
    BY <2>1, SameWanted DEF Group
  <2> QED
    BY <1>2, <2>2 DEF CalcTrue
<1> QED
  BY <1>1, <1>2, <1>3, <1>4, <1>5 DEF r

LEMMA CellFacts ==
  ASSUME NEW sys, NEW cell, CellOK(cell)
  PROVE  /\ CellOK(Restricted(sys, cell))
         /\ sys = NotSet => Restricted(sys, cell) = cell
<1>1. CellOK(Restricted(sys, cell))
  <2> DEFINE new == Restricted(sys, cell)
  <2>1. DOMAIN new = Edits6
    BY DEF Restricted
  <2>2. new = [e \in Edits6 |-> new[e]]
    BY DEF Restricted
  <2> QED
    BY <2>2 DEF CellOK
<1>2. ASSUME sys = NotSet
      PROVE  Restricted(sys, cell) = cell
  <2>1. Free(NotSet) = Edits6
    BY DEF Free, NotSet
  <2>2. ASSUME NEW e \in Edits6
        PROVE  Restricted(sys, cell)[e] = cell[e]
    <3>1. e \in Free(sys)
      BY <1>2, <2>1
    <3> QED
      BY <3>1 DEF Restricted
  <2>3. Restricted(sys, cell) = [e \in Edits6 |-> Restricted(sys, cell)[e]]
    BY <1>1 DEF CellOK
  <2>4. cell = [e \in Edits6 |-> cell[e]]
    BY DEF CellOK
  <2> QED
    BY <2>2, <2>3, <2>4
<1> QED
  BY <1>1, <1>2

\* The type of crystal changes no more than the edits.
LEMMA TypeFacts ==
  ASSUME NEW x, DOMAIN x = DlgFields, CellOK(x.cell)
  PROVE  LET r == CheckCrystalType(x)
         IN  /\ Same(r, x, {"enabled", "cell"}) /\ CellOK(r.cell)
             /\ r.cell = IF x.ignore THEN x.cell
                         ELSE Restricted(x.system, x.cell)
<1> DEFINE r == CheckCrystalType(x)
<1>1. CASE x.ignore
  <2>1. r = [x EXCEPT !.enabled = Edits6]
    BY <1>1 DEF CheckCrystalType
  <2> HIDE DEF r
  <2>2. Same(r, x, {"enabled", "cell"}) /\ r.cell = x.cell
    BY <2>1 DEF Same, DlgFields
  <2> QED
    BY <1>1, <2>2 DEF r
<1>2. CASE ~x.ignore
  <2>1. r = [x EXCEPT !.enabled = Free(x.system),
                      !.cell = Restricted(x.system, x.cell)]
    BY <1>2 DEF CheckCrystalType
  <2> HIDE DEF r
  <2>2. /\ Same(r, x, {"enabled", "cell"})
        /\ r.cell = Restricted(x.system, x.cell)
    BY <2>1 DEF Same, DlgFields
  <2> QED
    BY <1>2, <2>2, CellFacts DEF r
<1> QED
  BY <1>1, <1>2

\* What a group that is selected changes.
Follows == {"system", "enabled", "cell", "shown", "status", "stale"}

LEMMA GroupFacts ==
  ASSUME NEW x, DOMAIN x = DlgFields, CellOK(x.cell), x.dontCalc \in BOOLEAN
  PROVE  LET r == SpaceGroupChanged(x)
             sys == IF Group(x) = NotSet THEN NotSet ELSE SystemOf[Group(x)]
         IN  /\ Same(r, x, Follows) /\ CellOK(r.cell)
             /\ r.cell = IF x.ignore THEN x.cell ELSE Restricted(sys, x.cell)
             /\ ~x.dontCalc => CalcTrue(r)
<1> DEFINE sys == IF Group(x) = NotSet THEN NotSet ELSE SystemOf[Group(x)]
           y == [x EXCEPT !.system = sys]
           z == CheckCrystalType(y)
           r == CalcDlg(z)
<1>1. r = SpaceGroupChanged(x)
  BY DEF SpaceGroupChanged
<1>2. /\ Same(y, x, {"system"}) /\ y.system = sys
      /\ DOMAIN y = DlgFields /\ y.cell = x.cell /\ y.ignore = x.ignore
  BY DEF Same, DlgFields
<1> HIDE DEF y, sys
<1>3. /\ Same(z, y, {"enabled", "cell"}) /\ CellOK(z.cell)
      /\ z.cell = IF x.ignore THEN x.cell ELSE Restricted(sys, x.cell)
  BY <1>2, TypeFacts
<1> HIDE DEF z
<1>4. DOMAIN z = DlgFields /\ z.dontCalc = x.dontCalc
  BY <1>2, <1>3 DEF Same, DlgFields
<1>5. Same(r, z, Results) /\ (~x.dontCalc => CalcTrue(r))
  BY <1>4, CalcFacts
<1> HIDE DEF r
<1>6. r.cell = z.cell
  BY <1>4, <1>5 DEF Same, Results, DlgFields
<1>7. Same(r, x, Follows)
  BY <1>2, <1>3, <1>5 DEF Same, Results, Follows
<1> QED
  BY <1>1, <1>3, <1>5, <1>6, <1>7 DEF sys

-----------------------------------------------------------------------------
(* The list of the groups.                                                 *)

\* The last entry is removed, while the current entry is above it or is it.
LEMMA EntryRemoved ==
  ASSUME NEW x, DOMAIN x = DlgFields, CellOK(x.cell), x.dontCalc \in BOOLEAN,
         NEW n \in Nat, n > 1, NEW S, x.list \in Seq(S), Len(x.list) = n,
         x.current \in 1 .. n
  PROVE  LET r == RemoveLast(x, n)
         IN  /\ Same(r, x, Follows \union {"list", "current"})
             /\ CellOK(r.cell)
             /\ r.list \in Seq(S) /\ Len(r.list) = n - 1
             /\ \A i \in 1 .. n - 1 : r.list[i] = x.list[i]
             /\ r.current \in 1 .. n - 1
             /\ x.current = 1 => r.current = 1 /\ r.cell = x.cell
             /\ ~x.dontCalc /\ CalcTrue(x) => CalcTrue(r)
<1> DEFINE less == [x EXCEPT !.list = Front(x.list)]
           moved == [less EXCEPT !.current = n - 1]
           r == RemoveLast(x, n)
<1>1. /\ Front(x.list) \in Seq(S) /\ Len(Front(x.list)) = n - 1
      /\ \A i \in 1 .. n - 1 : Front(x.list)[i] = x.list[i]
  BY DEF Front
<1>2. /\ Same(less, x, {"list"}) /\ less.list = Front(x.list)
      /\ DOMAIN less = DlgFields
  BY DEF Same, DlgFields
<1> HIDE DEF less
<1>3. CASE x.current = n
  <2>1. r = SpaceGroupChanged(moved)
    BY <1>3 DEF RemoveLast, less
  <2> HIDE DEF r
  <2>2. /\ Same(moved, less, {"current"}) /\ moved.current = n - 1
        /\ DOMAIN moved = DlgFields
    BY <1>2 DEF Same, DlgFields
  <2> HIDE DEF moved
  <2>3. moved.cell = x.cell /\ moved.dontCalc = x.dontCalc
    BY <1>2, <2>2 DEF Same, DlgFields
  <2>4. /\ Same(r, moved, Follows) /\ CellOK(r.cell)
        /\ ~x.dontCalc => CalcTrue(r)
    BY <2>1, <2>2, <2>3, GroupFacts
  <2>5. Same(r, x, Follows \union {"list", "current"})
    BY <1>2, <2>2, <2>4 DEF Same
  <2>6. r.list = Front(x.list) /\ r.current = n - 1
    BY <1>2, <2>2, <2>4 DEF Same, Follows, DlgFields
  <2> QED
    BY <1>1, <1>3, <2>4, <2>5, <2>6 DEF r
<1>4. CASE x.current # n
  <2>1. r = less
    BY <1>4 DEF RemoveLast, less
  <2> HIDE DEF r
  <2>2. /\ r.kind = x.kind /\ r.current = x.current
        /\ r.atoms = x.atoms /\ r.order = x.order /\ r.cell = x.cell
        /\ r.lam = x.lam /\ r.unique = x.unique
        /\ r.centre = x.centre /\ r.stale = x.stale /\ r.shown = x.shown
    BY <1>2, <2>1 DEF Same, DlgFields
  <2>3. Group(r) = Group(x)
    BY <1>1, <1>2, <1>4, <2>1, <2>2 DEF Group
  <2>4. Wanted(r) = Wanted(x)
    BY <2>2, <2>3, SameWanted
  <2>5. CalcTrue(x) => CalcTrue(r)
    BY <2>2, <2>4 DEF CalcTrue
  <2>6. Same(r, x, Follows \union {"list", "current"})
    BY <1>2, <2>1 DEF Same
  <2> QED
    BY <1>1, <1>2, <1>4, <2>1, <2>2, <2>5, <2>6 DEF r
<1> QED
  BY <1>3, <1>4

Entries == {NotSet} \union AllGroups

\* After n removals, from a list of groups g.
Removed(r, x, g, n) ==
  LET m == Len(g) - n
  IN  /\ Same(r, x, Follows \union {"list", "current"})
      /\ CellOK(r.cell)
      /\ r.list \in Seq(Entries) /\ Len(r.list) = m
      /\ \A i \in 1 .. m : r.list[i] = g[i]
      /\ r.current \in 1 .. m
      /\ x.current = 1 => r.current = 1 /\ r.cell = x.cell
      /\ ~x.dontCalc /\ CalcTrue(x) => CalcTrue(r)

LEMMA RemovedOne ==
  ASSUME NEW x, DOMAIN x = DlgFields, x.dontCalc \in BOOLEAN,
         NEW g \in Seq(Entries), NEW n \in Nat, n + 1 < Len(g),
         NEW r, Removed(r, x, g, n)
  PROVE  Removed(RemoveLast(r, Len(g) - n), x, g, n + 1)
<1> DEFINE m == Len(g) - n
           s == RemoveLast(r, m)
<1>1. /\ m \in Nat /\ m > 1 /\ Len(g) - (n + 1) = m - 1
  OBVIOUS
<1>2. /\ Same(r, x, Follows \union {"list", "current"})
      /\ CellOK(r.cell)
      /\ r.list \in Seq(Entries) /\ Len(r.list) = m
      /\ \A i \in 1 .. m : r.list[i] = g[i]
      /\ r.current \in 1 .. m
      /\ x.current = 1 => r.current = 1 /\ r.cell = x.cell
      /\ ~x.dontCalc /\ CalcTrue(x) => CalcTrue(r)
  BY DEF Removed
<1>3. DOMAIN r = DlgFields /\ r.dontCalc = x.dontCalc
  BY <1>2 DEF Same, Follows, DlgFields
<1> HIDE DEF m
<1>4. /\ Same(s, r, Follows \union {"list", "current"})
      /\ CellOK(s.cell)
      /\ s.list \in Seq(Entries) /\ Len(s.list) = m - 1
      /\ \A i \in 1 .. m - 1 : s.list[i] = r.list[i]
      /\ s.current \in 1 .. m - 1
      /\ r.current = 1 => s.current = 1 /\ s.cell = r.cell
      /\ ~r.dontCalc /\ CalcTrue(r) => CalcTrue(s)
  BY <1>1, <1>2, <1>3, EntryRemoved
<1> HIDE DEF s
<1>5. Same(s, x, Follows \union {"list", "current"})
  BY <1>2, <1>4 DEF Same
<1>6. \A i \in 1 .. m - 1 : s.list[i] = g[i]
  BY <1>1, <1>2, <1>4
<1>7. Removed(s, x, g, n + 1)
  BY <1>1, <1>2, <1>3, <1>4, <1>5, <1>6 DEF Removed
<1> QED
  BY <1>7 DEF s, m

\* All but the first entry are removed, one after the other.
LEMMA AllRemoved ==
  ASSUME NEW x, DOMAIN x = DlgFields, CellOK(x.cell), x.dontCalc \in BOOLEAN,
         NEW g \in Seq(Entries), x.list = g, Len(g) > 0,
         x.current \in 1 .. Len(g)
  PROVE  Removed(Removals(x)[Len(g) - 1], x, g, Len(g) - 1)
<1> DEFINE n == Len(g)
           a == Removals(x)
           T == {k \in 0 .. n - 1 : ~Removed(a[k], x, g, k)}
<1>1. n \in Nat /\ n > 0 /\ n - 1 \in 0 .. n - 1
  OBVIOUS
<1>2. a[0] = x /\ \A k \in 1 .. n - 1 : a[k] = RemoveLast(a[k - 1], n + 1 - k)
  BY <1>1, RemovalsFacts
<1>3. Removed(x, x, g, 0)
  BY <1>1 DEF Removed, Same
<1> HIDE DEF a
<1>4. ASSUME T # {} PROVE FALSE
  <2>1. PICK m \in T : \A k \in T : m <= k
    <3>1. T \subseteq Nat
      BY <1>1
    <3> HIDE DEF T
    <3> QED
      BY <1>4, <3>1, LeastNumber
  <2>2. m \in 0 .. n - 1 /\ ~Removed(a[m], x, g, m)
    BY <2>1
  <2>3. m # 0
    BY <1>2, <1>3, <2>2
  <2> DEFINE l == m - 1
  <2>4. l \in Nat /\ l \in 0 .. n - 1 /\ ~(m <= l) /\ l + 1 < n /\ m = l + 1
    BY <1>1, <2>2, <2>3
  <2>5. Removed(a[l], x, g, l)
    BY <2>1, <2>4
  <2>6. a[m] = RemoveLast(a[l], n - l)
    <3>1. m \in 1 .. n - 1 /\ n + 1 - m = n - l
      BY <1>1, <2>2, <2>3
    <3> HIDE DEF n
    <3> QED
      BY <1>2, <3>1
  <2> HIDE DEF l
  <2>7. Removed(RemoveLast(a[l], n - l), x, g, l + 1)
    BY <2>4, <2>5, RemovedOne
  <2> QED
    BY <2>2, <2>4, <2>6, <2>7
<1>5. Removed(a[n - 1], x, g, n - 1)
  BY <1>1, <1>4
<1> QED
  BY <1>5 DEF a

\* The list of a filter is a sequence that begins with no group.
LEMMA ListFacts ==
  ASSUME NEW text \in DOMAIN Matching
  PROVE  LET g == <<NotSet>> \o Matching[text]
         IN  g \in Seq(Entries) /\ Len(g) > 0 /\ g[1] = NotSet
<1>1. <<NotSet>> \in Seq(Entries) /\ AllGroups \subseteq Entries
  BY DEF Entries
<1>2. Matching[text] \in Seq(AllGroups)
  BY CrystalAssumption
<1>3. Matching[text] \in Seq(Entries)
  BY <1>1, <1>2, SeqMonotonic
<1> QED
  BY <1>1, <1>3

\* An entry of the list is no group or one of all.
LEMMA EntryFacts ==
  ASSUME NEW x, ListOK(x)
  PROVE  /\ Group(x) \in Entries
         /\ x.current = 1 => Group(x) = NotSet
         /\ x.list \in Seq(Entries)
<1>1. x.list \in Seq(Entries) /\ x.list[1] = NotSet
  BY ListFacts DEF ListOK
<1>2. x.current \in 1 .. Len(x.list)
  BY DEF ListOK
<1> QED
  BY <1>1, <1>2 DEF Group

\* A filter shows all that it matches, and no group is selected; if none was
\* before, the lattice is as it was.
LEMMA FilterFacts ==
  ASSUME NEW x, DlgOK(x), ListOK(x), NEW text \in DOMAIN Matching
  PROVE  LET r == SetFilter(x, text)
         IN  /\ Same(r, x, Follows \union {"filter", "list", "current"})
             /\ CellOK(r.cell) /\ ListOK(r) /\ r.filter = text
             /\ x.filter = text \/ x.current = 1 => r.cell = x.cell
             /\ ~x.dontCalc /\ CalcTrue(x) => CalcTrue(r)
<1> DEFINE r == SetFilter(x, text)
<1>1. CASE text = x.filter
  BY <1>1 DEF SetFilter, Same, DlgOK
<1>2. CASE text # x.filter
  <2> DEFINE g == x.list
             y == [x EXCEPT !.filter = text]
             z == Removals(y)[Len(g) - 1]
             new == <<NotSet>> \o Matching[text]
  <2>1. g \in Seq(Entries) /\ Len(g) > 0 /\ g[1] = NotSet
    BY ListFacts DEF ListOK
  <2>2. new \in Seq(Entries) /\ Len(new) > 0 /\ new[1] = NotSet
    BY ListFacts
  <2>3. /\ Same(y, x, {"filter"}) /\ DOMAIN y = DlgFields
        /\ y.filter = text /\ y.list = g /\ y.current = x.current
        /\ y.cell = x.cell /\ y.dontCalc = x.dontCalc
    BY DEF Same, DlgOK, DlgFields
  <2>4. y.current \in 1 .. Len(g) /\ CellOK(y.cell) /\ y.dontCalc \in BOOLEAN
    BY <2>3 DEF ListOK, DlgOK
  <2>5. CalcTrue(x) => CalcTrue(y)
    <3>1. /\ y.kind = x.kind /\ y.list = x.list /\ y.current = x.current
          /\ y.atoms = x.atoms /\ y.order = x.order /\ y.cell = x.cell
          /\ y.lam = x.lam /\ y.unique = x.unique
          /\ y.centre = x.centre /\ y.stale = x.stale /\ y.shown = x.shown
      BY <2>3 DEF Same, DlgOK, DlgFields
    <3>2. Wanted(y) = Wanted(x)
      BY <3>1, SameWanted DEF Group
    <3> QED
      BY <3>1, <3>2 DEF CalcTrue
  <2>6. r = [z EXCEPT !.list = new]
    <3>1. r = Repopulate(y)
      BY <1>2 DEF SetFilter
    <3> HIDE DEF y, r
    <3> QED
      BY <2>3, <3>1 DEF Repopulate
  <2> HIDE DEF y, r, new
  <2>7. Removed(z, y, g, Len(g) - 1)
    BY <2>1, <2>3, <2>4, AllRemoved
  <2> HIDE DEF z, g
  <2>8. /\ Same(z, y, Follows \union {"list", "current"}) /\ CellOK(z.cell)
        /\ z.list \in Seq(Entries) /\ Len(z.list) = 1 /\ z.list[1] = NotSet
        /\ z.current = 1
        /\ y.current = 1 => z.cell = y.cell
        /\ ~y.dontCalc /\ CalcTrue(y) => CalcTrue(z)
    BY <2>1, <2>7 DEF Removed
  <2>9. DOMAIN z = DlgFields
    BY <2>3, <2>8 DEF Same
  <2>10. Same(r, z, {"list"}) /\ r.list = new
    BY <2>6, <2>9 DEF Same, DlgFields
  <2>11. /\ r.kind = z.kind /\ r.current = 1
         /\ r.atoms = z.atoms /\ r.order = z.order /\ r.cell = z.cell
         /\ r.lam = z.lam /\ r.unique = z.unique
         /\ r.centre = z.centre /\ r.stale = z.stale /\ r.shown = z.shown
         /\ r.filter = z.filter
    BY <2>8, <2>9, <2>10 DEF Same, DlgFields
  <2>12. CalcTrue(z) => CalcTrue(r)
    <3>1. Group(r) = Group(z)
      BY <2>2, <2>8, <2>10, <2>11 DEF Group
    <3>2. Wanted(r) = Wanted(z)
      BY <2>11, <3>1, SameWanted
    <3> QED
      BY <2>11, <3>2 DEF CalcTrue
  <2>13. z.filter = text
    BY <2>3, <2>8 DEF Same, Follows, DlgFields
  <2>14. ListOK(r)
    BY <2>2, <2>10, <2>11, <2>13 DEF ListOK, new
  <2>15. Same(r, x, Follows \union {"filter", "list", "current"})
    BY <2>3, <2>8, <2>10 DEF Same
  <2>16. x.filter = text \/ x.current = 1 => r.cell = x.cell
    BY <1>2, <2>3, <2>8, <2>11
  <2> QED
    BY <2>3, <2>5, <2>8, <2>11, <2>12, <2>13, <2>14, <2>15, <2>16 DEF r
<1> QED
  BY <1>1, <1>2

-----------------------------------------------------------------------------
(* The widgets.                                                            *)

\* What does not reach the list, the atoms or the centre keeps the dialog's
\* type.
LEMMA Kept ==
  ASSUME NEW x, DlgOK(x), NEW r, CellOK(r.cell),
         Same(r, x, Follows \union {"order", "lam", "unique", "ext", "filter",
                                    "list", "current"})
  PROVE  DlgOK(r) /\ r.dontCalc = x.dontCalc /\ r.kind = x.kind
<1>1. /\ r.kind = x.kind /\ r.dontCalc = x.dontCalc /\ r.lowest = x.lowest
      /\ r.centre = x.centre /\ r.highest = x.highest /\ r.atoms = x.atoms
      /\ r.table = x.table /\ DOMAIN r = DOMAIN x
  BY DEF DlgOK, Same, Follows, DlgFields
<1> QED
  BY <1>1 DEF DlgOK

LEMMA KeptList ==
  ASSUME NEW x, ListOK(x), NEW r, r.filter = x.filter, r.list = x.list,
         r.current = x.current
  PROVE  ListOK(r) /\ Group(r) = Group(x)
  BY DEF ListOK, Group

LEMMA SpinFacts ==
  ASSUME NEW x, DOMAIN x = DlgFields, x.dontCalc \in BOOLEAN,
         NEW f \in {"order", "lam", "unique", "centre"}, NEW v
  PROVE  LET r == SetSpin(x, f, v)
         IN  /\ Same(r, x, Results \union {f}) /\ r[f] = v
             /\ ~x.dontCalc /\ CalcTrue(x) => CalcTrue(r)
<1> DEFINE r == SetSpin(x, f, v)
<1>1. CASE x[f] = v
  BY <1>1 DEF SetSpin, Same
<1>2. CASE x[f] # v
  <2> DEFINE y == [x EXCEPT ![f] = v]
  <2>1. r = CalcDlg(y)
    BY <1>2 DEF SetSpin
  <2>2. f \in DlgFields
    BY DEF DlgFields
  <2>3. /\ Same(y, x, {f}) /\ y[f] = v /\ DOMAIN y = DlgFields
    BY <2>2 DEF Same
  <2>4. y.dontCalc = x.dontCalc
    BY DEF DlgFields
  <2> HIDE DEF y
  <2>5. Same(r, y, Results) /\ (~x.dontCalc => CalcTrue(r))
    BY <2>1, <2>3, <2>4, CalcFacts
  <2> HIDE DEF r
  <2>6. r[f] = v
    BY <2>2, <2>3, <2>5 DEF Same, Results
  <2>7. Same(r, x, Results \union {f})
    BY <2>3, <2>5 DEF Same
  <2> QED
    BY <2>5, <2>6, <2>7 DEF r
<1> QED
  BY <1>1, <1>2

\* The box of the centre stays in its range.
LEMMA ClampedFacts ==
  ASSUME NEW x, DlgOK(x), NEW v \in Int
  PROVE  /\ Clamped(x, v) \in Int
         /\ x.lowest <= Clamped(x, v) /\ Clamped(x, v) <= x.highest
         /\ x.lowest <= v /\ v <= x.highest => Clamped(x, v) = v
         /\ v < x.lowest => Clamped(x, v) = x.lowest
  BY DEF Clamped, DlgOK

LEMMA MaximumFacts ==
  ASSUME NEW x, DlgOK(x), x.kind = "disp", NEW v \in Int, v >= -1
  PROVE  LET r == SetMaximum(x, v)
         IN  /\ Same(r, x, Results \union {"lowest", "highest", "centre"})
             /\ DlgOK(r)
             /\ r.centre = IF x.centre > v THEN v ELSE x.centre
             /\ ~x.dontCalc /\ CalcTrue(x) => CalcTrue(r)
<1> DEFINE low == IF v < x.lowest THEN v ELSE x.lowest
           y == [x EXCEPT !.highest = v, !.lowest = low]
           c == Clamped(y, x.centre)
           r == SetSpin(y, "centre", c)
<1>1. r = SetMaximum(x, v)
  BY DEF SetMaximum, DlgOK, DlgFields
<1>2. /\ x.lowest \in {-1, 0} /\ x.centre \in Int /\ x.lowest <= x.centre
  BY DEF DlgOK
<1>3. /\ low \in {-1, 0} /\ low <= v /\ low <= x.lowest
  BY <1>2
<1>4. /\ Same(y, x, {"lowest", "highest"}) /\ y.highest = v /\ y.lowest = low
      /\ DOMAIN y = DlgFields
  BY DEF Same, DlgOK, DlgFields
<1> HIDE DEF y, low
<1>5. c = IF x.centre > v THEN v ELSE x.centre
  BY <1>2, <1>3, <1>4 DEF Clamped
<1>6. c \in Int /\ low <= c /\ c <= v
  BY <1>2, <1>3, <1>5
<1> HIDE DEF c
<1>7. /\ y.kind = x.kind /\ y.list = x.list /\ y.current = x.current
      /\ y.atoms = x.atoms /\ y.order = x.order /\ y.cell = x.cell
      /\ y.lam = x.lam /\ y.unique = x.unique /\ y.dontCalc = x.dontCalc
      /\ y.centre = x.centre /\ y.stale = x.stale /\ y.shown = x.shown
      /\ y.table = x.table
  BY <1>4 DEF Same, DlgOK, DlgFields
<1>8. CalcTrue(x) => CalcTrue(y)
  <2>1. Wanted(y) = Wanted(x)
    BY <1>7, SameWanted DEF Group
  <2> QED
    BY <1>7, <2>1 DEF CalcTrue
<1>9. y.dontCalc \in BOOLEAN
  BY <1>7 DEF DlgOK
<1>10. /\ Same(r, y, Results \union {"centre"}) /\ r.centre = c
       /\ ~y.dontCalc /\ CalcTrue(y) => CalcTrue(r)
  BY <1>4, <1>9, SpinFacts
<1> HIDE DEF r
<1>11. Same(r, x, Results \union {"lowest", "highest", "centre"})
  BY <1>4, <1>10 DEF Same
<1>12. r.lowest = low /\ r.highest = v
  BY <1>4, <1>10 DEF Same, Results, DlgFields
<1>13. /\ r.kind = x.kind /\ r.cell = x.cell /\ r.dontCalc = x.dontCalc
       /\ r.atoms = x.atoms /\ r.table = x.table /\ DOMAIN r = DlgFields
  BY <1>4, <1>7, <1>10 DEF Same, Results, DlgFields
<1>14. DlgOK(r)
  BY <1>3, <1>6, <1>10, <1>12, <1>13 DEF DlgOK
<1> QED
  BY <1>1, <1>5, <1>7, <1>8, <1>10, <1>11, <1>14

\* The atoms of a table or of a file, without a calculation in between.
LEMMA SetAtomsFacts ==
  ASSUME NEW x, DlgOK(x), NEW atoms \in Seq(AtomNames)
  PROVE  LET y == [x EXCEPT !.atoms = atoms]
         IN  DlgOK(y) /\ Same(y, x, {"atoms"}) /\ y.atoms = atoms
<1> DEFINE y == [x EXCEPT !.atoms = atoms]
<1>1. Same(y, x, {"atoms"}) /\ y.atoms = atoms
  BY DEF Same, DlgOK, DlgFields
<1> HIDE DEF y
<1>2. /\ y.kind = x.kind /\ y.dontCalc = x.dontCalc /\ y.lowest = x.lowest
      /\ y.centre = x.centre /\ y.highest = x.highest /\ y.cell = x.cell
      /\ y.table = x.table /\ DOMAIN y = DOMAIN x
  BY <1>1 DEF Same, DlgOK, DlgFields
<1>3. DlgOK(y)
  BY <1>1, <1>2 DEF DlgOK
<1> QED
  BY <1>1, <1>3 DEF y

-----------------------------------------------------------------------------
(* What the user's events leave.                                           *)

\* The dialog between two events.
AtRest(x) == DlgOK(x) /\ ListOK(x) /\ x.dontCalc = FALSE /\ CalcTrue(x)

\* ... which is the same dialog afterwards.
StaysAtRest(r, x) == AtRest(r) /\ r.kind = x.kind

\* A change of what the list and the centre do not depend on.
LEMMA RestKept ==
  ASSUME NEW x, AtRest(x), NEW r, CellOK(r.cell), CalcTrue(r),
         Same(r, x, Follows \union {"order", "lam", "unique", "ext"})
  PROVE  StaysAtRest(r, x)
<1>1. DlgOK(r) /\ r.dontCalc = FALSE /\ r.kind = x.kind
  <2>1. Same(r, x, Follows \union {"order", "lam", "unique", "ext", "filter",
                                   "list", "current"})
    BY DEF Same
  <2> QED
    BY <2>1, Kept DEF AtRest
<1>2. r.filter = x.filter /\ r.list = x.list /\ r.current = x.current
  BY DEF Same, Follows, AtRest, DlgOK, DlgFields
<1>3. ListOK(r)
  BY <1>2, KeptList DEF AtRest
<1> QED
  BY <1>1, <1>3 DEF AtRest, StaysAtRest

LEMMA SpinRest ==
  ASSUME NEW x, AtRest(x), NEW f \in {"order", "lam", "unique"}, NEW v
  PROVE  StaysAtRest(SetSpin(x, f, v), x)
<1> DEFINE r == SetSpin(x, f, v)
<1>1. DOMAIN x = DlgFields /\ x.dontCalc = FALSE /\ CellOK(x.cell)
  BY DEF AtRest, DlgOK
<1>2. Same(r, x, Results \union {f}) /\ CalcTrue(r)
  BY <1>1, SpinFacts DEF AtRest
<1> HIDE DEF r
<1>3. Same(r, x, Follows \union {"order", "lam", "unique", "ext"})
  BY <1>2 DEF Same, Results, Follows
<1>4. r.cell = x.cell
  BY <1>1, <1>2 DEF Same, Results, DlgFields
<1>5. StaysAtRest(r, x)
  BY <1>1, <1>2, <1>3, <1>4, RestKept
<1> QED
  BY <1>5 DEF r

LEMMA CentreRest ==
  ASSUME NEW x, AtRest(x), x.kind = "disp", NEW v \in Int
  PROVE  StaysAtRest(SetSpin(x, "centre", Clamped(x, v)), x)
<1> DEFINE c == Clamped(x, v)
           r == SetSpin(x, "centre", c)
<1>1. /\ DOMAIN x = DlgFields /\ x.dontCalc = FALSE /\ CalcTrue(x)
      /\ DlgOK(x) /\ ListOK(x)
  BY DEF AtRest, DlgOK
<1>2. c \in Int /\ x.lowest <= c /\ c <= x.highest
  BY <1>1, ClampedFacts
<1> HIDE DEF c
<1>3. Same(r, x, Results \union {"centre"}) /\ r.centre = c /\ CalcTrue(r)
  BY <1>1, SpinFacts
<1> HIDE DEF r
<1>4. /\ r.kind = x.kind /\ r.dontCalc = FALSE /\ r.lowest = x.lowest
      /\ r.highest = x.highest /\ r.atoms = x.atoms /\ r.cell = x.cell
      /\ r.table = x.table /\ DOMAIN r = DlgFields
      /\ r.filter = x.filter /\ r.list = x.list /\ r.current = x.current
  BY <1>1, <1>3 DEF Same, Results, DlgFields
<1>5. DlgOK(r)
  BY <1>1, <1>2, <1>3, <1>4 DEF DlgOK
<1>6. ListOK(r)
  BY <1>1, <1>4, KeptList
<1> QED
  BY <1>3, <1>4, <1>5, <1>6 DEF AtRest, StaysAtRest, r, c

LEMMA LatticeRest ==
  ASSUME NEW x, AtRest(x), NEW e, NEW v
  PROVE  StaysAtRest(CalcDlg(CheckCrystalType([x EXCEPT !.cell[e] = v])), x)
<1> DEFINE y == [x EXCEPT !.cell[e] = v]
           z == CheckCrystalType(y)
           r == CalcDlg(z)
<1>1. DOMAIN x = DlgFields /\ x.dontCalc = FALSE /\ CellOK(x.cell)
  BY DEF AtRest, DlgOK
<1>2. /\ Same(y, x, {"cell"}) /\ DOMAIN y = DlgFields
      /\ y.cell = [x.cell EXCEPT ![e] = v]
  BY <1>1 DEF Same, DlgFields
<1> HIDE DEF y
<1>3. CellOK(y.cell)
  <2>1. x.cell = [k \in Edits6 |-> x.cell[k]]
    BY <1>1 DEF CellOK
  <2>2. y.cell = [k \in Edits6 |-> IF k = e THEN v ELSE x.cell[k]]
    BY <1>2, <2>1
  <2> QED
    BY <2>2 DEF CellOK
<1>4. Same(z, y, {"enabled", "cell"}) /\ CellOK(z.cell)
  BY <1>2, <1>3, TypeFacts
<1> HIDE DEF z
<1>5. DOMAIN z = DlgFields /\ z.dontCalc = FALSE
  BY <1>1, <1>2, <1>4 DEF Same, DlgFields
<1>6. Same(r, z, Results) /\ CalcTrue(r)
  BY <1>5, CalcFacts
<1> HIDE DEF r
<1>7. r.cell = z.cell
  BY <1>5, <1>6 DEF Same, Results, DlgFields
<1>8. Same(r, x, Follows \union {"order", "lam", "unique", "ext"})
  BY <1>2, <1>4, <1>6 DEF Same, Results, Follows
<1>9. StaysAtRest(r, x)
  BY <1>4, <1>6, <1>7, <1>8, RestKept
<1> QED
  BY <1>9 DEF r, z, y

\* An entry of the list is selected.
LEMMA CurrentFacts ==
  ASSUME NEW x, DlgOK(x), ListOK(x), NEW i \in DOMAIN x.list
  PROVE  LET r == SetCurrent(x, i)
             g == x.list[i]
         IN  /\ Same(r, x, Follows \union {"current"}) /\ r.current = i
             /\ DlgOK(r) /\ ListOK(r) /\ Group(r) = g
             /\ r.cell \in {x.cell,
                            Restricted(IF g = NotSet THEN NotSet
                                       ELSE SystemOf[g], x.cell)}
             /\ ~x.dontCalc /\ CalcTrue(x) => CalcTrue(r)
<1> DEFINE r == SetCurrent(x, i)
<1>1. i \in 1 .. Len(x.list) /\ x.list \in Seq(Entries)
  BY EntryFacts
<1>2. CASE i = x.current
  BY <1>2 DEF SetCurrent, Same, Group
<1>3. CASE i # x.current
  <2> DEFINE y == [x EXCEPT !.current = i]
  <2>1. r = SpaceGroupChanged(y)
    BY <1>3 DEF SetCurrent
  <2>2. Same(y, x, {"current"}) /\ y.current = i /\ DOMAIN y = DlgFields
    BY DEF Same, DlgOK, DlgFields
  <2> HIDE DEF y
  <2>3. /\ y.cell = x.cell /\ y.dontCalc = x.dontCalc /\ y.list = x.list
        /\ y.ignore = x.ignore /\ CellOK(y.cell) /\ y.dontCalc \in BOOLEAN
    BY <2>2 DEF Same, DlgOK, DlgFields
  <2>4. Group(y) = x.list[i]
    BY <2>2, <2>3 DEF Group
  <2>5. /\ Same(r, y, Follows) /\ CellOK(r.cell)
        /\ r.cell = IF y.ignore THEN y.cell
                    ELSE Restricted(IF x.list[i] = NotSet THEN NotSet
                                    ELSE SystemOf[x.list[i]], y.cell)
        /\ ~y.dontCalc => CalcTrue(r)
    BY <2>1, <2>2, <2>3, <2>4, GroupFacts
  <2> HIDE DEF r
  <2>6. Same(r, x, Follows \union {"current"})
    BY <2>2, <2>5 DEF Same
  <2>7. r.current = i /\ r.list = x.list /\ r.filter = x.filter
    BY <2>2, <2>5, <2>6 DEF Same, Follows, DlgOK, DlgFields
  <2>8. DlgOK(r)
    <3>1. Same(r, x, Follows \union {"order", "lam", "unique", "ext",
                                     "filter", "list", "current"})
      BY <2>6 DEF Same
    <3> QED
      BY <2>5, <3>1, Kept
  <2>9. ListOK(r) /\ Group(r) = x.list[i]
    BY <1>1, <2>7 DEF ListOK, Group
  <2> QED
    BY <2>3, <2>5, <2>6, <2>7, <2>8, <2>9 DEF r
<1> QED
  BY <1>2, <1>3

LEMMA CurrentRest ==
  ASSUME NEW x, AtRest(x), NEW i \in DOMAIN x.list
  PROVE  StaysAtRest(SetCurrent(x, i), x)
<1> DEFINE r == SetCurrent(x, i)
<1>1. /\ Same(r, x, Follows \union {"current"}) /\ DlgOK(r) /\ ListOK(r)
      /\ CalcTrue(r)
  BY CurrentFacts DEF AtRest
<1> HIDE DEF r
<1>2. r.dontCalc = FALSE /\ r.kind = x.kind
  BY <1>1 DEF Same, Follows, AtRest, DlgOK, DlgFields
<1> QED
  BY <1>1, <1>2 DEF AtRest, StaysAtRest, r

LEMMA FilterRest ==
  ASSUME NEW x, AtRest(x), NEW text \in DOMAIN Matching
  PROVE  StaysAtRest(SetFilter(x, text), x)
<1> DEFINE r == SetFilter(x, text)
<1>1. /\ Same(r, x, Follows \union {"filter", "list", "current"})
      /\ CellOK(r.cell) /\ ListOK(r) /\ CalcTrue(r)
  BY FilterFacts DEF AtRest
<1> HIDE DEF r
<1>2. Same(r, x, Follows \union {"order", "lam", "unique", "ext", "filter",
                                 "list", "current"})
  BY <1>1 DEF Same
<1>3. DlgOK(r) /\ r.dontCalc = FALSE /\ r.kind = x.kind
  BY <1>1, <1>2, Kept DEF AtRest
<1> QED
  BY <1>1, <1>3 DEF AtRest, StaysAtRest, r

LEMMA AtomsRest ==
  ASSUME NEW x, AtRest(x), NEW atoms \in Seq(AtomNames)
  PROVE  StaysAtRest(TakeAtoms(x, atoms), x)
<1> DEFINE y == [x EXCEPT !.atoms = atoms]
           z == IF x.kind = "powder" THEN y ELSE SetMaximum(y, Len(atoms) - 1)
           r == CalcDlg(z)
<1>1. r = TakeAtoms(x, atoms)
  BY DEF TakeAtoms
<1>2. DlgOK(x) /\ ListOK(x) /\ x.dontCalc = FALSE /\ DOMAIN x = DlgFields
  BY DEF AtRest, DlgOK
<1>3. DlgOK(y) /\ Same(y, x, {"atoms"})
  BY <1>2, SetAtomsFacts
<1> HIDE DEF y
<1>4. y.kind = x.kind /\ x.kind \in {"powder", "disp"}
  BY <1>2, <1>3 DEF Same, DlgOK, DlgFields, DlgKinds
<1>5. DlgOK(z) /\ Same(z, y, Results \union {"lowest", "highest", "centre"})
  <2>1. CASE x.kind = "powder"
    BY <1>3, <2>1 DEF Same
  <2>2. CASE x.kind # "powder"
    <3> DEFINE v == Len(atoms) - 1
    <3>1. v \in Int /\ v >= -1 /\ y.kind = "disp"
      BY <1>4, <2>2
    <3> HIDE DEF v
    <3>2. LET w == SetMaximum(y, v)
          IN  DlgOK(w) /\ Same(w, y, Results \union {"lowest", "highest", "centre"})
      BY <1>3, <3>1, MaximumFacts
    <3> QED
      BY <2>2, <3>2 DEF v
  <2> QED
    BY <2>1, <2>2
<1> HIDE DEF z
<1>6. /\ z.dontCalc = FALSE /\ DOMAIN z = DlgFields /\ z.filter = x.filter
      /\ z.list = x.list /\ z.current = x.current /\ z.kind = x.kind
  BY <1>2, <1>3, <1>5 DEF Same, Results, DlgFields
<1>7. Same(r, z, Results) /\ CalcTrue(r)
  BY <1>6, CalcFacts
<1> HIDE DEF r
<1>8. /\ r.dontCalc = FALSE /\ r.cell = z.cell /\ r.filter = x.filter
      /\ r.list = x.list /\ r.current = x.current /\ r.kind = x.kind
  BY <1>6, <1>7 DEF Same, Results, DlgFields
<1>9. DlgOK(r)
  <2>1. Same(r, z, Follows \union {"order", "lam", "unique", "ext", "filter",
                                   "list", "current"})
    BY <1>7 DEF Same, Results, Follows
  <2>2. CellOK(r.cell)
    BY <1>5, <1>8 DEF DlgOK
  <2> QED
    BY <1>5, <2>1, <2>2, Kept
<1>10. ListOK(r)
  BY <1>2, <1>8, KeptList
<1> QED
  BY <1>1, <1>7, <1>8, <1>9, <1>10 DEF AtRest, StaysAtRest

\* A widget that nothing is calculated from.
LEMMA OtherRest ==
  ASSUME NEW x, AtRest(x), NEW r, Same(r, x, {"ext", "status", "table"}),
         \/ r.table = "closed"
         \/ r.table = <<r.table[1]>> /\ r.table[1] \in Seq(AtomNames)
  PROVE  StaysAtRest(r, x)
<1>1. /\ r.kind = x.kind /\ r.list = x.list /\ r.current = x.current
      /\ r.atoms = x.atoms /\ r.order = x.order /\ r.cell = x.cell
      /\ r.lam = x.lam /\ r.unique = x.unique /\ r.dontCalc = x.dontCalc
      /\ r.centre = x.centre /\ r.stale = x.stale /\ r.shown = x.shown
      /\ r.filter = x.filter /\ r.lowest = x.lowest /\ r.highest = x.highest
      /\ DOMAIN r = DOMAIN x
  BY DEF Same, AtRest, DlgOK, DlgFields
<1>2. Wanted(r) = Wanted(x)
  BY <1>1, SameWanted DEF Group
<1>3. CalcTrue(r)
  BY <1>1, <1>2 DEF CalcTrue, AtRest
<1>4. ListOK(r)
  BY <1>1, KeptList DEF AtRest
<1>5. DlgOK(r)
  BY <1>1 DEF DlgOK, AtRest
<1> QED
  BY <1>1, <1>3, <1>4, <1>5 DEF AtRest, StaysAtRest

-----------------------------------------------------------------------------
(* Loading a file.                                                         *)

FileKeys == {"cell", "order", "lam", "centre", "group", "atoms"}

FileFits(f) ==
  /\ DOMAIN f = FileKeys /\ \A cell \in f.cell : CellOK(cell)
  /\ f.centre \subseteq Int /\ f.atoms \subseteq Seq(AtomNames)

LEMMA QueryFacts ==
  ASSUME NEW key, NEW default
  PROVE  /\ Query(key, default) \in key \union {default}
         /\ \A v : key = {v} => Query(key, default) = v
<1>1. ASSUME NEW v, key = {v} PROVE Query(key, default) = v
  <2>1. key # {} /\ (CHOOSE w \in key : TRUE) \in key
    BY <1>1
  <2> QED
    BY <1>1, <2>1 DEF Query
<1>2. CASE key = {}
  BY <1>2 DEF Query
<1>3. CASE key # {}
  <2>1. (CHOOSE w \in key : TRUE) \in key
    BY <1>3
  <2> QED
    BY <1>3, <2>1 DEF Query
<1> QED
  BY <1>1, <1>2, <1>3

LEMMA OneValue ==
  ASSUME NEW v, NEW default
  PROVE  Query({v}, default) = v
  BY QueryFacts

LEMMA DefaultFits == CellOK(DefaultCell)
  BY DEF DefaultCell, CellOK

\* The fields, while nothing is calculated.
LEMMA FieldsFacts ==
  ASSUME NEW x, DlgOK(x), ListOK(x), NEW f, FileFits(f)
  PROVE  LET r == LoadFields(x, f)
         IN  /\ DlgOK(r) /\ ListOK(r) /\ r.dontCalc = TRUE
             /\ r.kind = x.kind /\ r.lowest = x.lowest /\ r.highest = x.highest
             /\ r.filter = x.filter /\ r.current = x.current
             /\ r.cell = Query(f.cell, DefaultCell)
             /\ r.order = Query(f.order, 5) /\ r.lam = Query(f.lam, 5)
             /\ \A v : v = Query(f.centre, 0) /\ x.kind = "disp" =>
                  r.centre = Clamped(x, v)
<1> DEFINE cell == Query(f.cell, DefaultCell)
           order == Query(f.order, 5)
           lam == Query(f.lam, 5)
           y == [x EXCEPT !.dontCalc = TRUE, !.cell = cell]
           y1 == SetSpin(y, "order", order)
           z == SetSpin(y1, "lam", lam)
           c == Clamped(z, Query(f.centre, 0))
           r == LoadFields(x, f)
<1>1. CellOK(cell)
  BY QueryFacts, DefaultFits DEF FileFits
<1>2. Query(f.centre, 0) \in Int
  BY QueryFacts DEF FileFits
<1>3. r = IF x.kind = "powder" THEN z ELSE SetSpin(z, "centre", c)
  BY DEF LoadFields
<1> HIDE DEF r, cell, order, lam
<1>4. /\ Same(y, x, {"dontCalc", "cell"}) /\ y.dontCalc = TRUE
      /\ y.cell = cell /\ DOMAIN y = DlgFields
  BY DEF Same, DlgOK, DlgFields
<1> HIDE DEF y
<1>5. Same(y1, y, Results \union {"order"}) /\ y1.order = order
  BY <1>4, SpinFacts
<1>6. DOMAIN y1 = DlgFields /\ y1.dontCalc = TRUE
  BY <1>4, <1>5 DEF Same, Results, DlgFields
<1> HIDE DEF y1
<1>7. Same(z, y1, Results \union {"lam"}) /\ z.lam = lam
  BY <1>6, SpinFacts
<1> HIDE DEF z
<1>8. /\ DOMAIN z = DlgFields /\ z.dontCalc = TRUE /\ z.cell = cell
      /\ z.order = order
      /\ z.kind = x.kind /\ z.lowest = x.lowest /\ z.highest = x.highest
      /\ z.centre = x.centre /\ z.atoms = x.atoms /\ z.table = x.table
      /\ z.filter = x.filter /\ z.list = x.list /\ z.current = x.current
  BY <1>4, <1>5, <1>6, <1>7 DEF Same, Results, DlgFields
<1>9. DlgOK(z)
  BY <1>1, <1>8 DEF DlgOK
<1>10. ListOK(z)
  BY <1>8, KeptList
<1>11. c = Clamped(x, Query(f.centre, 0))
  BY <1>8 DEF Clamped
<1>12. c \in Int /\ x.lowest <= c /\ c <= x.highest
  BY <1>2, <1>11, ClampedFacts
<1> HIDE DEF c
<1>13. CASE x.kind = "powder"
  BY <1>3, <1>7, <1>8, <1>9, <1>10, <1>13 DEF r, cell, order, lam
<1>14. CASE x.kind # "powder"
  <2>1. r = SetSpin(z, "centre", c)
    BY <1>3, <1>14
  <2>2. Same(r, z, Results \union {"centre"}) /\ r.centre = c
    BY <1>8, <2>1, SpinFacts
  <2>3. /\ DOMAIN r = DlgFields /\ r.dontCalc = TRUE /\ r.cell = cell
        /\ r.order = order /\ r.lam = lam
        /\ r.kind = x.kind /\ r.lowest = x.lowest /\ r.highest = x.highest
        /\ r.atoms = x.atoms /\ r.table = x.table
        /\ r.filter = x.filter /\ r.list = x.list /\ r.current = x.current
    BY <1>7, <1>8, <2>2 DEF Same, Results, DlgFields
  <2>4. DlgOK(r)
    BY <1>1, <1>12, <1>14, <2>2, <2>3 DEF DlgOK
  <2>5. ListOK(r)
    BY <2>3, KeptList
  <2> QED
    BY <1>11, <2>2, <2>3, <2>4, <2>5 DEF r, cell, order, lam
<1> QED
  BY <1>13, <1>14

\* The group: all groups are listed if no filter was set or none was selected.
LEMMA LoadGroupFacts ==
  ASSUME NEW x, DlgOK(x), ListOK(x), x.dontCalc = TRUE, NEW f
  PROVE  LET r == LoadGroup(x, f)
         IN  /\ DlgOK(r) /\ ListOK(r)
             /\ Same(r, x, Follows \union {"filter", "list", "current"})
             /\ \A g \in Entries :
                  f.group = {g} /\ (x.filter = NoFilter \/ x.current = 1) =>
                    /\ Group(r) = g
                    /\ r.cell \in {x.cell,
                                   Restricted(IF g = NotSet THEN NotSet
                                              ELSE SystemOf[g], x.cell)}
<1> DEFINE r == LoadGroup(x, f)
<1>1. CASE f.group = {}
  BY <1>1 DEF LoadGroup, Same
<1>2. CASE f.group # {}
  <2> DEFINE y == SetFilter(x, NoFilter)
             at == {i \in DOMAIN y.list : {y.list[i]} = f.group}
             i0 == CHOOSE i \in at : TRUE
  <2>1. NoFilter \in DOMAIN Matching /\ Matching[NoFilter] = GroupNames
        /\ GroupNames \in Seq(AllGroups)
    BY CrystalAssumption
  <2>2. r = IF at = {} THEN y ELSE SetCurrent(y, i0)
    BY <1>2 DEF LoadGroup
  <2>3. /\ Same(y, x, Follows \union {"filter", "list", "current"})
        /\ CellOK(y.cell) /\ ListOK(y) /\ y.filter = NoFilter
        /\ x.filter = NoFilter \/ x.current = 1 => y.cell = x.cell
    BY <2>1, FilterFacts
  <2> HIDE DEF y, r
  <2>4. DlgOK(y)
    <3>1. Same(y, x, Follows \union {"order", "lam", "unique", "ext",
                                     "filter", "list", "current"})
      BY <2>3 DEF Same
    <3> QED
      BY <2>3, <3>1, Kept
  <2>5. ASSUME NEW g \in Entries, f.group = {g}
        PROVE  at # {}
    <3>1. y.list = <<NotSet>> \o GroupNames
      BY <2>1, <2>3 DEF ListOK
    <3>2. CASE g = NotSet
      <4>1. 1 \in DOMAIN y.list /\ y.list[1] = g
        BY <2>1, <3>1, <3>2
      <4> QED
        BY <2>5, <4>1
    <3>3. CASE g # NotSet
      <4>1. PICK k \in DOMAIN GroupNames : g = GroupNames[k]
        BY <3>3 DEF Entries, AllGroups
      <4>2. k + 1 \in DOMAIN y.list /\ y.list[k + 1] = g
        BY <2>1, <3>1, <4>1
      <4> QED
        BY <2>5, <4>2
    <3> QED
      BY <3>2, <3>3
  <2>6. CASE at = {}
    BY <2>2, <2>3, <2>4, <2>5, <2>6 DEF r
  <2>7. CASE at # {}
    <3>1. i0 \in at
      BY <2>7
    <3>2. i0 \in DOMAIN y.list /\ {y.list[i0]} = f.group
      BY <3>1
    <3>3. r = SetCurrent(y, i0)
      BY <2>2, <2>7
    <3> HIDE DEF i0, at
    <3>4. LET g == y.list[i0]
          IN  /\ Same(r, y, Follows \union {"current"})
              /\ DlgOK(r) /\ ListOK(r) /\ Group(r) = g
              /\ r.cell \in {y.cell,
                             Restricted(IF g = NotSet THEN NotSet
                                        ELSE SystemOf[g], y.cell)}
      BY <2>3, <2>4, <3>2, <3>3, CurrentFacts
    <3>5. Same(r, x, Follows \union {"filter", "list", "current"})
      BY <2>3, <3>4 DEF Same
    <3>6. ASSUME NEW g \in Entries, f.group = {g},
                 x.filter = NoFilter \/ x.current = 1
          PROVE  /\ Group(r) = g
                 /\ r.cell \in {x.cell,
                                Restricted(IF g = NotSet THEN NotSet
                                           ELSE SystemOf[g], x.cell)}
      <4>1. y.list[i0] = g /\ y.cell = x.cell
        BY <2>3, <3>2, <3>6
      <4> QED
        BY <3>4, <4>1
    <3> QED
      BY <3>4, <3>5, <3>6 DEF r
  <2> QED
    BY <2>6, <2>7
<1> QED
  BY <1>1, <1>2

\* The atoms, and with them the range of the centre.
LEMMA LoadAtomsFacts ==
  ASSUME NEW x, DlgOK(x), ListOK(x), NEW f, FileFits(f)
  PROVE  LET r == LoadAtoms(x, f)
             v == Len(Query(f.atoms, <<>>)) - 1
         IN  /\ DlgOK(r) /\ ListOK(r) /\ Group(r) = Group(x)
             /\ Same(r, x, Results \union {"atoms", "lowest", "highest",
                                           "centre"})
             /\ r.atoms = Query(f.atoms, <<>>)
             /\ x.kind = "powder" => r.centre = x.centre
             /\ x.kind = "disp" /\ f.atoms # {} =>
                  r.centre = IF x.centre > v THEN v ELSE x.centre
<1> DEFINE atoms == Query(f.atoms, <<>>)
           y == [x EXCEPT !.atoms = atoms]
           v == Len(atoms) - 1
           r == LoadAtoms(x, f)
<1>1. atoms \in Seq(AtomNames)
  <2>1. <<>> \in Seq(AtomNames)
    OBVIOUS
  <2> QED
    BY <2>1, QueryFacts DEF FileFits
<1>2. r = IF f.atoms # {} /\ x.kind = "disp" THEN SetMaximum(y, v) ELSE y
  <2>1. y.atoms = atoms /\ y.kind = x.kind
    BY DEF DlgOK, DlgFields
  <2> QED
    BY <2>1 DEF LoadAtoms
<1> HIDE DEF atoms
<1>3. DlgOK(y) /\ Same(y, x, {"atoms"}) /\ y.atoms = atoms
  BY <1>1, SetAtomsFacts
<1> HIDE DEF y, r
<1>4. /\ y.kind = x.kind /\ y.centre = x.centre /\ y.filter = x.filter
      /\ y.list = x.list /\ y.current = x.current
  BY <1>3 DEF Same, DlgOK, DlgFields
<1>5. CASE ~(f.atoms # {} /\ x.kind = "disp")
  <2>1. r = y
    BY <1>2, <1>5
  <2>2. ListOK(r) /\ Group(r) = Group(x)
    BY <1>4, <2>1, KeptList
  <2>3. Same(r, x, Results \union {"atoms", "lowest", "highest", "centre"})
    BY <1>3, <2>1 DEF Same
  <2> QED
    BY <1>3, <1>4, <1>5, <2>1, <2>2, <2>3 DEF r, atoms
<1>6. CASE f.atoms # {} /\ x.kind = "disp"
  <2>1. v \in Int /\ v >= -1
    BY <1>1
  <2> HIDE DEF v
  <2>2. r = SetMaximum(y, v)
    BY <1>2, <1>6
  <2>3. /\ Same(r, y, Results \union {"lowest", "highest", "centre"})
        /\ DlgOK(r)
        /\ r.centre = IF y.centre > v THEN v ELSE y.centre
    BY <1>3, <1>4, <1>6, <2>1, <2>2, MaximumFacts
  <2>4. Same(r, x, Results \union {"atoms", "lowest", "highest", "centre"})
    BY <1>3, <2>3 DEF Same
  <2>5. /\ r.atoms = atoms /\ r.filter = x.filter /\ r.list = x.list
        /\ r.current = x.current
    BY <1>3, <1>4, <2>3 DEF Same, Results, DlgOK, DlgFields
  <2>6. ListOK(r) /\ Group(r) = Group(x)
    BY <2>5, KeptList
  <2> QED
    BY <1>4, <1>6, <2>3, <2>4, <2>5, <2>6 DEF r, atoms, v
<1> QED
  BY <1>5, <1>6

\* After the three parts the dialog calculates.
LEMMA LoadRest ==
  ASSUME NEW x, AtRest(x), NEW f, FileFits(f)
  PROVE  LET a == LoadFields(x, f)
             b == LoadGroup(a, f)
             c == LoadAtoms(b, f)
             r == LoadXml(x, f)
         IN  /\ AtRest(r) /\ r.kind = x.kind
             /\ r.cell = b.cell /\ r.order = a.order /\ r.lam = a.lam
             /\ r.atoms = c.atoms /\ r.centre = c.centre /\ Group(r) = Group(b)
             /\ b.centre = a.centre
<1> DEFINE a == LoadFields(x, f)
           b == LoadGroup(a, f)
           c == LoadAtoms(b, f)
           d == [c EXCEPT !.dontCalc = FALSE]
           r == CalcDlg(d)
<1>1. r = LoadXml(x, f)
  BY DEF LoadXml
<1>2. DlgOK(a) /\ ListOK(a) /\ a.dontCalc = TRUE /\ a.kind = x.kind
  BY FieldsFacts DEF AtRest
<1> HIDE DEF a
<1>3. /\ DlgOK(b) /\ ListOK(b)
      /\ Same(b, a, Follows \union {"filter", "list", "current"})
  BY <1>2, LoadGroupFacts
<1> HIDE DEF b
<1>4. b.order = a.order /\ b.lam = a.lam /\ b.centre = a.centre
      /\ b.kind = x.kind
  BY <1>2, <1>3 DEF Same, Follows, DlgOK, DlgFields
<1>5. /\ DlgOK(c) /\ ListOK(c) /\ Group(c) = Group(b)
      /\ Same(c, b, Results \union {"atoms", "lowest", "highest", "centre"})
  BY <1>3, LoadAtomsFacts
<1> HIDE DEF c
<1>6. c.order = b.order /\ c.lam = b.lam /\ c.cell = b.cell
      /\ c.kind = x.kind
  BY <1>3, <1>4, <1>5 DEF Same, Results, DlgOK, DlgFields
<1>7. /\ Same(d, c, {"dontCalc"}) /\ d.dontCalc = FALSE
      /\ DOMAIN d = DlgFields
  BY <1>5 DEF Same, DlgOK, DlgFields
<1> HIDE DEF d
<1>8. Same(r, d, Results) /\ CalcTrue(r)
  BY <1>7, CalcFacts
<1> HIDE DEF r
<1>9. /\ r.kind = c.kind /\ r.cell = c.cell /\ r.order = c.order
      /\ r.lam = c.lam /\ r.atoms = c.atoms /\ r.centre = c.centre
      /\ r.lowest = c.lowest /\ r.highest = c.highest /\ r.table = c.table
      /\ r.filter = c.filter /\ r.list = c.list /\ r.current = c.current
      /\ r.dontCalc = FALSE /\ DOMAIN r = DlgFields
  BY <1>7, <1>8 DEF Same, Results, DlgFields
<1>10. DlgOK(r)
  BY <1>5, <1>9 DEF DlgOK
<1>11. ListOK(r) /\ Group(r) = Group(c)
  BY <1>5, <1>9, KeptList
<1> QED
  BY <1>1, <1>4, <1>5, <1>6, <1>8, <1>9, <1>10, <1>11 DEF AtRest, a, b, c

\* What a dialog has saved it shows again, but for the exceptions.
LEMMA LoadSaved ==
  ASSUME NEW x, AtRest(x), NEW s, SavedOK(x.kind, s), NEW f, f = FileOf(s), FileFits(f),
         x.filter = NoFilter \/ x.current = 1,
         x.kind = "disp" =>
           /\ s.centre <= x.highest /\ s.centre < Len(s.atoms)
           /\ s.centre >= x.lowest \/ s.atoms = <<>>,
         s.group # NotSet => s.cell = Restricted(SystemOf[s.group], s.cell)
  PROVE  SavedOf(LoadXml(x, f)) = s
<1> DEFINE a == LoadFields(x, f)
           b == LoadGroup(a, f)
           c == LoadAtoms(b, f)
           r == LoadXml(x, f)
<1>1. /\ s = [cell |-> s.cell, order |-> s.order, lam |-> s.lam,
              centre |-> s.centre, group |-> s.group, atoms |-> s.atoms]
      /\ CellOK(s.cell) /\ s.group \in Entries
      /\ s.centre \in Int /\ s.centre >= -1 /\ s.atoms \in Seq(AtomNames)
      /\ x.kind = "powder" => s.centre = 0
  BY DEF SavedOK, Entries
<1>2. DOMAIN s = FileKeys
  BY <1>1 DEF FileKeys
<1>3. /\ f.cell = {s.cell} /\ f.order = {s.order} /\ f.lam = {s.lam}
      /\ f.centre = {s.centre} /\ f.group = {s.group} /\ f.atoms = {s.atoms}
  BY <1>2 DEF FileOf, FileKeys
<1>4. FileFits(f)
  OBVIOUS
<1>40. /\ Query(f.cell, DefaultCell) = s.cell /\ Query(f.order, 5) = s.order
       /\ Query(f.lam, 5) = s.lam /\ Query(f.centre, 0) = s.centre
       /\ Query(f.atoms, <<>>) = s.atoms /\ f.atoms # {}
  <2>1. Query(f.cell, DefaultCell) = s.cell
    BY <1>3, OneValue
  <2>2. Query(f.order, 5) = s.order
    BY <1>3, OneValue
  <2>3. Query(f.lam, 5) = s.lam
    BY <1>3, OneValue
  <2>4. Query(f.centre, 0) = s.centre
    BY <1>3, OneValue
  <2>5. Query(f.atoms, <<>>) = s.atoms /\ f.atoms # {}
    BY <1>3, OneValue
  <2> QED
    BY <2>1, <2>2, <2>3, <2>4, <2>5
<1>50. DlgOK(x) /\ ListOK(x)
  BY DEF AtRest
<1>51. /\ DlgOK(a) /\ ListOK(a) /\ a.dontCalc = TRUE /\ a.kind = x.kind
       /\ a.filter = x.filter /\ a.current = x.current
       /\ a.cell = Query(f.cell, DefaultCell)
       /\ a.order = Query(f.order, 5) /\ a.lam = Query(f.lam, 5)
  BY <1>4, <1>50, FieldsFacts
<1>52. \A v : v = Query(f.centre, 0) /\ x.kind = "disp" =>
         a.centre = Clamped(x, v)
  BY <1>4, <1>50, FieldsFacts
<1>5. /\ DlgOK(a) /\ ListOK(a) /\ a.dontCalc = TRUE /\ a.kind = x.kind
      /\ a.filter = x.filter /\ a.current = x.current
      /\ a.cell = s.cell /\ a.order = s.order /\ a.lam = s.lam
      /\ x.kind = "disp" => a.centre = Clamped(x, s.centre)
  BY <1>40, <1>51, <1>52
<1>6. /\ AtRest(r) /\ r.cell = b.cell /\ r.order = a.order /\ r.lam = a.lam
      /\ r.atoms = c.atoms /\ r.centre = c.centre /\ Group(r) = Group(b)
      /\ b.centre = a.centre
  BY <1>4, LoadRest
<1> HIDE DEF a, r
<1>7. /\ DlgOK(b) /\ ListOK(b)
      /\ Same(b, a, Follows \union {"filter", "list", "current"})
      /\ Group(b) = s.group
      /\ b.cell \in {a.cell, Restricted(IF s.group = NotSet THEN NotSet
                                        ELSE SystemOf[s.group], a.cell)}
  <2>1. \A g \in Entries :
          f.group = {g} /\ (a.filter = NoFilter \/ a.current = 1) =>
            /\ Group(b) = g
            /\ b.cell \in {a.cell, Restricted(IF g = NotSet THEN NotSet
                                              ELSE SystemOf[g], a.cell)}
    BY <1>5, LoadGroupFacts
  <2>2. /\ DlgOK(b) /\ ListOK(b)
        /\ Same(b, a, Follows \union {"filter", "list", "current"})
    BY <1>5, LoadGroupFacts
  <2>3. a.filter = NoFilter \/ a.current = 1
    BY <1>5
  <2> QED
    BY <1>1, <1>3, <2>1, <2>2, <2>3
<1>8. b.cell = s.cell
  <2>1. Restricted(NotSet, s.cell) = s.cell
    BY <1>1, CellFacts
  <2>2. CASE s.group = NotSet
    BY <1>5, <1>7, <2>1, <2>2
  <2>3. CASE s.group # NotSet
    BY <1>5, <1>7, <2>3
  <2> QED
    BY <2>2, <2>3
<1> HIDE DEF b
<1>9. b.kind = x.kind
  BY <1>5, <1>7 DEF Same, Follows, DlgOK, DlgFields
<1>10. /\ c.atoms = s.atoms
       /\ x.kind = "powder" => c.centre = b.centre
       /\ x.kind = "disp" =>
            c.centre = IF b.centre > Len(s.atoms) - 1 THEN Len(s.atoms) - 1
                       ELSE b.centre
  BY <1>4, <1>40, <1>7, <1>9, LoadAtomsFacts
<1> HIDE DEF c
<1>11. c.centre = s.centre
  <2>1. CASE x.kind = "powder"
    BY <1>1, <1>5, <1>6, <1>10, <2>1 DEF DlgOK
  <2>2. CASE x.kind = "disp"
    <3>1. /\ x.lowest \in {-1, 0} /\ x.highest \in Int
          /\ s.centre <= x.highest /\ s.centre < Len(s.atoms)
          /\ s.centre >= x.lowest \/ s.atoms = <<>>
      BY <2>2 DEF AtRest, DlgOK
    <3> DEFINE n == Len(s.atoms)
    <3>2. n \in Nat /\ (s.atoms = <<>> => n = 0)
      BY <1>1
    <3> HIDE DEF n
    <3>3. b.centre = Clamped(x, s.centre)
      BY <1>5, <1>6, <2>2
    <3>4. CASE s.centre >= x.lowest
      <4>1. b.centre = s.centre
        BY <1>1, <3>1, <3>3, <3>4, ClampedFacts DEF AtRest
      <4> QED
        BY <1>1, <1>10, <2>2, <3>1, <3>2, <4>1 DEF n
    <3>5. CASE s.centre < x.lowest
      <4>1. b.centre = x.lowest /\ n = 0 /\ s.centre = -1 /\ x.lowest = 0
        BY <1>1, <3>1, <3>2, <3>3, <3>5, ClampedFacts DEF AtRest
      <4> QED
        BY <1>10, <2>2, <4>1 DEF n
    <3> QED
      BY <1>1, <3>1, <3>4, <3>5
  <2> QED
    BY <2>1, <2>2 DEF AtRest, DlgOK, DlgKinds
<1>12. /\ r.cell = s.cell /\ r.order = s.order /\ r.lam = s.lam
       /\ r.centre = s.centre /\ Group(r) = s.group /\ r.atoms = s.atoms
  BY <1>5, <1>6, <1>7, <1>8, <1>10, <1>11
<1>13. SavedOf(r) = s
  BY <1>1, <1>12 DEF SavedOf
<1> QED
  BY <1>13 DEF r

-----------------------------------------------------------------------------
(* The invariant.                                                          *)

\* A new dialog, with all groups and none selected.
LEMMA NewRest ==
  ASSUME NEW kind \in DlgKinds, NEW ignore, NEW throws
  PROVE  AtRest(NewDlg(kind, ignore, throws))
<1> DEFINE order == CHOOSE v \in Orders : TRUE
           lam == CHOOSE v \in Wavelengths : TRUE
           x == [kind |-> kind, ignore |-> ignore, throws |-> throws,
                 dontCalc |-> FALSE,
                 cell |-> DefaultCell, enabled |-> Edits6, system |-> NotSet,
                 filter |-> NoFilter, list |-> <<NotSet>>, current |-> 1,
                 order |-> order, unique |-> FALSE, lam |-> lam,
                 centre |-> 0, lowest |-> 0, highest |-> 99, atoms |-> <<>>,
                 table |-> "closed", ext |-> lam,
                 shown |-> {}, status |-> "none", stale |-> TRUE]
           new == <<NotSet>> \o Matching[NoFilter]
           y == [x EXCEPT !.list = new]
           r == CalcDlg(y)
<1> HIDE DEF order, lam
<1>1. x.list = <<NotSet>> /\ x.filter = NoFilter /\ Len(x.list) = 1
  OBVIOUS
<1>2. /\ DOMAIN y = DlgFields /\ y.kind = kind /\ y.cell = DefaultCell
      /\ y.dontCalc = FALSE /\ y.lowest = 0 /\ y.highest = 99 /\ y.centre = 0
      /\ y.atoms = <<>> /\ y.table = "closed" /\ y.filter = NoFilter
      /\ y.list = new /\ y.current = 1
  BY DEF DlgFields
<1>3. NewDlg(kind, ignore, throws) = CalcDlg(Repopulate(x))
  BY DEF NewDlg, order, lam
<1> HIDE DEF x
<1>4. Repopulate(x) = y
  <2>0. Len(x.list) \in Nat /\ Len(x.list) > 0
    BY <1>1
  <2>1. Removals(x)[0] = x
    BY <2>0, RemovalsFacts
  <2>2. Len(x.list) - 1 = 0
    BY <1>1
  <2>3. Removals(x)[Len(x.list) - 1] = x
    BY <2>1, <2>2
  <2> QED
    BY <1>1, <2>3 DEF Repopulate
<1> HIDE DEF y
<1>5. Same(r, y, Results) /\ CalcTrue(r)
  BY <1>2, CalcFacts
<1> HIDE DEF r, new
<1>6. /\ DOMAIN r = DlgFields /\ r.kind = kind /\ r.cell = DefaultCell
      /\ r.dontCalc = FALSE /\ r.lowest = 0 /\ r.highest = 99 /\ r.centre = 0
      /\ r.atoms = <<>> /\ r.table = "closed" /\ r.filter = NoFilter
      /\ r.list = new /\ r.current = 1
  BY <1>2, <1>5 DEF Same, Results, DlgFields
<1>7. DlgOK(r)
  <2>1. <<>> \in Seq(AtomNames)
    OBVIOUS
  <2>2. /\ r.lowest \in {-1, 0} /\ r.centre \in Int /\ r.highest \in Int
        /\ r.lowest <= r.centre /\ r.centre <= r.highest
    BY <1>6
  <2>3. /\ r.dontCalc \in BOOLEAN /\ CellOK(r.cell)
        /\ r.atoms \in Seq(AtomNames)
    BY <1>6, <2>1, DefaultFits
  <2> QED
    BY <1>6, <2>2, <2>3 DEF DlgOK
<1>8. ListOK(r)
  <2>1. NoFilter \in DOMAIN Matching
    BY CrystalAssumption
  <2>2. new \in Seq(Entries) /\ Len(new) > 0
    BY <2>1, ListFacts DEF new
  <2>3. 1 \in 1 .. Len(new)
    BY <2>2
  <2> QED
    BY <1>6, <2>1, <2>3 DEF ListOK, new
<1>9. AtRest(r)
  BY <1>5, <1>6, <1>7, <1>8 DEF AtRest
<1> QED
  BY <1>3, <1>4, <1>9 DEF r

\* A file of what a dialog has saved has all keys.
LEMMA FileFacts ==
  ASSUME NEW kind, NEW s, SavedOK(kind, s)
  PROVE  FileFits(FileOf(s))
<1> DEFINE f == FileOf(s)
<1>1. /\ s = [cell |-> s.cell, order |-> s.order, lam |-> s.lam,
              centre |-> s.centre, group |-> s.group, atoms |-> s.atoms]
      /\ CellOK(s.cell) /\ s.centre \in Int /\ s.atoms \in Seq(AtomNames)
  BY DEF SavedOK
<1>2. DOMAIN s = FileKeys
  BY <1>1 DEF FileKeys
<1>3. /\ DOMAIN f = FileKeys /\ f.cell = {s.cell} /\ f.centre = {s.centre}
      /\ f.atoms = {s.atoms}
  BY <1>2 DEF FileOf, FileKeys
<1> QED
  BY <1>1, <1>3 DEF FileFits

\* What a dialog saves.
LEMMA SavedFacts ==
  ASSUME NEW x, AtRest(x)
  PROVE  SavedOK(x.kind, SavedOf(x))
<1> DEFINE s == SavedOf(x)
<1>1. s = [cell |-> x.cell, order |-> x.order, lam |-> x.lam,
           centre |-> x.centre, group |-> Group(x), atoms |-> x.atoms]
  BY DEF SavedOf
<1> HIDE DEF s
<1>2. Group(x) \in {NotSet} \union AllGroups
  BY EntryFacts DEF Entries, AtRest
<1>3. /\ CellOK(x.cell) /\ x.centre \in Int /\ x.centre >= -1
      /\ x.atoms \in Seq(AtomNames) /\ (x.kind = "powder" => x.centre = 0)
  BY DEF AtRest, DlgOK
<1>4. SavedOK(x.kind, s)
  BY <1>1, <1>2, <1>3 DEF SavedOK
<1> QED
  BY <1>4 DEF s

\* A file on the disk fits a dialog of the kind that has written it.
Fits(d, kind) ==
  FileFits(d.file) /\ \A s \in d.of : SavedOK(kind, s) /\ d.file = FileOf(s)

LEMMA DiskFacts ==
  ASSUME NEW d
  PROVE  DiskOK(d) <=> Fits(d, xd.kind)
  BY DEF DiskOK, Fits, FileFits, FileKeys

LEMMA XdInvFacts ==
  XdIInv <=> /\ AtRest(xd) /\ BroughtBack
             /\ \A d \in xdisk : Fits(d, xd.kind)
  BY DiskFacts DEF XdIInv, AtRest

LEMMA XdInvNext ==
  ASSUME AtRest(xd'), BroughtBack', \A d \in xdisk' : Fits(d, xd'.kind)
  PROVE  XdIInv'
<1>1. ASSUME NEW d \in xdisk' PROVE DiskOK(d)'
  BY <1>1 DEF DiskOK, Fits, FileFits, FileKeys
<1> QED
  BY <1>1 DEF XdIInv, AtRest

\* All events but the loading and saving of files.
LEMMA DoesKeeps ==
  ASSUME XdIInv, NEW r, StaysAtRest(r, xd), Does(r)
  PROVE  XdIInv'
<1>1. /\ xd' = r /\ xdisk' = xdisk /\ xfile' = {}
      /\ AtRest(xd') /\ xd'.kind = xd.kind
  BY DEF Does, StaysAtRest
<1>2. \A d \in xdisk' : Fits(d, xd'.kind)
  BY <1>1, XdInvFacts
<1>3. BroughtBack'
  BY <1>1 DEF BroughtBack
<1> QED
  BY <1>1, <1>2, <1>3, XdInvNext

LEMMA LatticeKeeps ==
  ASSUME XdIInv, EditLattice
  PROVE  XdIInv'
<1>1. PICK e, v : Does(CalcDlg(CheckCrystalType([xd EXCEPT !.cell[e] = v])))
  BY DEF EditLattice
<1> QED
  BY <1>1, XdInvFacts, LatticeRest, DoesKeeps

LEMMA GroupKeeps ==
  ASSUME XdIInv, SelectGroup
  PROVE  XdIInv'
<1>1. PICK i \in DOMAIN xd.list : Does(SetCurrent(xd, i))
  BY DEF SelectGroup
<1> QED
  BY <1>1, XdInvFacts, CurrentRest, DoesKeeps

LEMMA FilterKeeps ==
  ASSUME XdIInv, TypeFilter
  PROVE  XdIInv'
<1>1. PICK text \in DOMAIN Matching : Does(SetFilter(xd, text))
  BY DEF TypeFilter
<1> QED
  BY <1>1, XdInvFacts, FilterRest, DoesKeeps

LEMMA BoxKeeps ==
  ASSUME XdIInv, ChangeSpin \/ SyncLam
  PROVE  XdIInv'
<1>1. \/ \E f \in {"order", "lam", "unique"} : \E v : Does(SetSpin(xd, f, v))
      \/ xd.kind = "disp" /\ Does(SetSpin(xd, "centre", Clamped(xd, 1)))
  BY DEF ChangeSpin, SyncLam
<1>2. CASE \E f \in {"order", "lam", "unique"} :
             \E v : Does(SetSpin(xd, f, v))
  BY <1>2, XdInvFacts, SpinRest, DoesKeeps
<1>3. CASE xd.kind = "disp" /\ Does(SetSpin(xd, "centre", Clamped(xd, 1)))
  BY <1>3, XdInvFacts, CentreRest, DoesKeeps
<1> QED
  BY <1>1, <1>2, <1>3

LEMMA OtherKeeps ==
  ASSUME XdIInv, ParamsChange \/ CursorMoved
  PROVE  XdIInv'
<1>1. PICK r : /\ Does(r) /\ Same(r, xd, {"ext", "status"})
  <2>1. CASE ParamsChange
    <3>1. PICK v : Does([xd EXCEPT !.ext = v])
      BY <2>1 DEF ParamsChange
    <3>2. Same([xd EXCEPT !.ext = v], xd, {"ext", "status"})
      BY DEF Same
    <3> QED
      BY <3>1, <3>2
  <2>2. CASE CursorMoved
    <3>1. Same([xd EXCEPT !.status = "cursor"], xd, {"ext", "status"})
      BY DEF Same
    <3> QED
      BY <2>2, <3>1 DEF CursorMoved
  <2> QED
    BY <2>1, <2>2
<1>2. AtRest(xd)
  BY XdInvFacts
<1>3. r.table = xd.table
  BY <1>1, <1>2 DEF Same, AtRest, DlgOK, DlgFields
<1>4. Same(r, xd, {"ext", "status", "table"})
  BY <1>1 DEF Same
<1>5. StaysAtRest(r, xd)
  BY <1>2, <1>3, <1>4, OtherRest DEF AtRest, DlgOK
<1> QED
  BY <1>1, <1>5, DoesKeeps

\* The table of atoms, which need not be what the dialog has.
LEMMA TableKeeps ==
  ASSUME XdIInv, ShowAtoms \/ AddAtom \/ RemoveAtom \/ RenameAtom
  PROVE  XdIInv'
<1>1. AtRest(xd)
  BY XdInvFacts
<1>2. xd.atoms \in Seq(AtomNames)
  BY <1>1 DEF AtRest, DlgOK
<1>3. xd.table # "closed" => xd.table[1] \in Seq(AtomNames)
  BY <1>1 DEF AtRest, DlgOK
<1>4. PICK texts \in Seq(AtomNames) : Does([xd EXCEPT !.table = <<texts>>])
  <2>1. CASE ShowAtoms
    BY <1>2, <2>1 DEF ShowAtoms
  <2>2. CASE AddAtom
    BY <1>3, <2>2, CrystalAssumption, AppendProperties DEF AddAtom, EditTable
  <2>3. CASE RemoveAtom
    <3>1. PICK i \in DOMAIN xd.table[1] : EditTable(RemoveAt(xd.table[1], i))
      BY <2>3 DEF RemoveAtom
    <3>2. RemoveAt(xd.table[1], i) \in Seq(AtomNames)
      BY <1>3, <2>3, <3>1, RemoveAtFacts DEF RemoveAtom
    <3> QED
      BY <3>1, <3>2 DEF EditTable
  <2>4. CASE RenameAtom
    <3>1. PICK i \in DOMAIN xd.table[1], name \in AtomNames :
            EditTable([xd.table[1] EXCEPT ![i] = name])
      BY <2>4 DEF RenameAtom
    <3>2. [xd.table[1] EXCEPT ![i] = name] \in Seq(AtomNames)
      BY <1>3, <2>4, <3>1, ExceptSeq DEF RenameAtom
    <3> QED
      BY <3>1, <3>2 DEF EditTable
  <2> QED
    BY <2>1, <2>2, <2>3, <2>4
<1> DEFINE r == [xd EXCEPT !.table = <<texts>>]
<1>5. Same(r, xd, {"ext", "status", "table"}) /\ r.table = <<texts>>
  BY <1>1 DEF Same, AtRest, DlgOK, DlgFields
<1> HIDE DEF r
<1>6. r.table = <<r.table[1]>> /\ r.table[1] \in Seq(AtomNames)
  BY <1>5
<1>7. StaysAtRest(r, xd)
  BY <1>1, <1>5, <1>6, OtherRest
<1>8. Does(r)
  BY <1>4 DEF r
<1> QED
  BY <1>7, <1>8, DoesKeeps

LEMMA ApplyKeeps ==
  ASSUME XdIInv, ApplyTable
  PROVE  XdIInv'
<1>1. AtRest(xd)
  BY XdInvFacts
<1>2. xd.table[1] \in Seq(AtomNames) /\ Does(TakeAtoms(xd, xd.table[1]))
  BY <1>1 DEF ApplyTable, AtRest, DlgOK
<1> QED
  BY <1>1, <1>2, AtomsRest, DoesKeeps

LEMMA SaveKeeps ==
  ASSUME XdIInv, SaveXml
  PROVE  XdIInv'
<1> DEFINE s == SavedOf(xd)
           new == [file |-> FileOf(s), of |-> {s}]
<1>1. /\ xd' = xd /\ xfile' = {} /\ xdisk' = xdisk \union {new}
  BY DEF SaveXml
<1>2. AtRest(xd) /\ \A d \in xdisk : Fits(d, xd.kind)
  BY XdInvFacts
<1>3. SavedOK(xd.kind, s)
  BY <1>2, SavedFacts
<1> HIDE DEF s
<1>4. new.file = FileOf(s) /\ new.of = {s}
  OBVIOUS
<1> HIDE DEF new
<1>5. Fits(new, xd.kind)
  BY <1>3, <1>4, FileFacts DEF Fits
<1>6. \A d \in xdisk' : Fits(d, xd'.kind)
  BY <1>1, <1>2, <1>5
<1>7. BroughtBack' /\ AtRest(xd')
  BY <1>1, <1>2 DEF BroughtBack
<1> QED
  BY <1>6, <1>7, XdInvNext

LEMMA OpenKeeps ==
  ASSUME XdIInv, OpenXml
  PROVE  XdIInv'
<1>1. AtRest(xd) /\ \A d \in xdisk : Fits(d, xd.kind)
  BY XdInvFacts
<1>2. PICK d \in xdisk :
        /\ xd' = LoadXml(xd, d.file)
        /\ xfile' = {[of |-> d.of, lowest |-> xd.lowest,
                      highest |-> xd.highest,
                      hidden |-> xd.filter # NoFilter /\ xd.current > 1]}
        /\ xdisk' = xdisk
  BY DEF OpenXml
<1>20. ASSUME NEW l \in xfile'
       PROVE  /\ l.of = d.of /\ l.lowest = xd.lowest /\ l.highest = xd.highest
              /\ xd.filter # NoFilter /\ xd.current > 1 => l.hidden
  <2> DEFINE h == xd.filter # NoFilter /\ xd.current > 1
  <2>1. l = [of |-> d.of, lowest |-> xd.lowest, highest |-> xd.highest,
             hidden |-> h]
    BY <1>2, <1>20
  <2>2. h => l.hidden
    <3> HIDE DEF h
    <3> QED
      BY <2>1, Zenon
  <2> QED
    BY <2>1, <2>2
<1>3. Fits(d, xd.kind) /\ FileFits(d.file)
  BY <1>1, <1>2 DEF Fits
<1>4. AtRest(xd') /\ xd'.kind = xd.kind
  BY <1>1, <1>2, <1>3, LoadRest
<1>5. \A e \in xdisk' : Fits(e, xd'.kind)
  BY <1>1, <1>2, <1>4
<1>6. BroughtBack'
  <2> SUFFICES ASSUME NEW l \in xfile', NEW s \in l.of,
                      ~l.hidden,
                      ~(xd'.kind = "disp" /\ s.centre > l.highest),
                      ~(/\ xd'.kind = "disp" /\ s.centre < l.lowest
                        /\ s.atoms # <<>>),
                      ~(xd'.kind = "disp" /\ s.centre >= Len(s.atoms)),
                      ~(/\ s.group # NotSet
                        /\ s.cell # Restricted(SystemOf[s.group], s.cell))
               PROVE  SavedOf(xd') = s
    BY DEF BroughtBack
  <2>1. SavedOK(xd.kind, s) /\ d.file = FileOf(s)
    BY <1>3, <1>20 DEF Fits
  <2>2. xd.filter = NoFilter \/ xd.current = 1
    BY <1>1, <1>20, EntryFacts DEF AtRest, ListOK
  <2>3. /\ s.centre \in Int /\ s.atoms \in Seq(AtomNames)
        /\ xd.highest \in Int /\ xd.lowest \in Int
    BY <1>1, <2>1 DEF SavedOK, AtRest, DlgOK
  <2>4. xd.kind = "disp" =>
          /\ s.centre <= xd.highest /\ s.centre < Len(s.atoms)
          /\ s.centre >= xd.lowest \/ s.atoms = <<>>
    BY <1>4, <1>20, <2>3
  <2>5. s.group # NotSet => s.cell = Restricted(SystemOf[s.group], s.cell)
    OBVIOUS
  <2> QED
    BY <1>1, <1>2, <1>3, <2>1, <2>2, <2>4, <2>5, LoadSaved
<1> QED
  BY <1>4, <1>5, <1>6, XdInvNext

LEMMA XdStart ==
  ASSUME XdInit
  PROVE  XdIInv
<1>1. PICK kind \in DlgKinds, ignore \in BOOLEAN, throws \in BOOLEAN :
        xd = NewDlg(kind, ignore, throws)
  BY DEF XdInit, DlgKinds
<1>2. AtRest(xd)
  BY <1>1, NewRest
<1>3. ASSUME NEW d \in xdisk PROVE Fits(d, xd.kind)
  <2>1. CASE \E f \in Stored : d = [file |-> f, of |-> {}]
    BY <2>1, CrystalAssumption DEF Fits, FileFits, FileKeys
  <2>2. CASE \E s \in Before[xd.kind] : d = [file |-> FileOf(s), of |-> {s}]
    <3>1. PICK s \in Before[xd.kind] : d = [file |-> FileOf(s), of |-> {s}]
      BY <2>2
    <3>2. SavedOK(xd.kind, s)
      BY <1>2, CrystalAssumption DEF AtRest, DlgOK
    <3>3. d.file = FileOf(s) /\ d.of = {s}
      BY <3>1
    <3> QED
      BY <3>2, <3>3, FileFacts DEF Fits
  <2> QED
    BY <2>1, <2>2 DEF XdInit
<1>4. BroughtBack
  BY DEF BroughtBack, XdInit
<1> QED
  BY <1>2, <1>3, <1>4, XdInvFacts

LEMMA XdStep ==
  ASSUME XdIInv, [XdNext]_xdvars
  PROVE  XdIInv'
<1>1. CASE XdNext
  BY <1>1, LatticeKeeps, GroupKeeps, FilterKeeps, BoxKeeps, OtherKeeps,
     TableKeeps, ApplyKeeps, SaveKeeps, OpenKeeps DEF XdNext
<1>2. CASE UNCHANGED xdvars
  BY <1>2 DEF xdvars, XdIInv, DlgOK, ListOK, CalcTrue, Wanted, DiskOK,
     BroughtBack
<1> QED
  BY <1>1, <1>2

(***************************************************************************)
(* The inductive invariant of the two dialogs: between two events of the   *)
(* user the list has the groups that the filter leaves, the centre is in   *)
(* the range of its box, the table is of what the widgets show, and every  *)
(* file that the dialog has written is one that it loads.                  *)
(***************************************************************************)
THEOREM XdInvariance == XdSpec => []XdIInv
<1>1. XdInit => XdIInv
  BY XdStart
<1>2. XdIInv /\ [XdNext]_xdvars => XdIInv'
  BY XdStep
<1> QED
  BY <1>1, <1>2, PTL DEF XdSpec

(***************************************************************************)
(* The table and the plot of the powder and the dispersion dialog are of   *)
(* the sample that the widgets show, and a file brings back what was saved *)
(* in it, apart from the exceptions that BroughtBack lists.                *)
(***************************************************************************)
THEOREM OneSampleShown == XdSpec => []OneSample
<1>1. XdIInv => OneSample
  BY DEF XdIInv, OneSample, TableTrue, CalcTrue
<1> QED
  BY <1>1, XdInvariance, PTL

-----------------------------------------------------------------------------
(* Windows of parameters: what the operations leave alone.                 *)

WindowFields == {"win", "f", "plain", "bad", "left", "radio", "out"}

\* The widgets' values, the outputs and what belongs to a calculation change.
LEMMA WindowKept ==
  ASSUME NEW x, WindowOK(x), NEW r,
         Same(r, x, {"f", "plain", "bad", "left", "out"}),
         DOMAIN r.f = DOMAIN x.f, DOMAIN r.out = DOMAIN x.out,
         r.plain \in BOOLEAN
  PROVE  WindowOK(r) /\ r.win = x.win /\ r.radio = x.radio
<1>1. r.win = x.win /\ r.radio = x.radio /\ DOMAIN r = DOMAIN x
  BY DEF WindowOK, Same
<1> QED
  BY <1>1 DEF WindowOK

\* All outputs but some are made of what is shown.
OutputsBut(x, D) ==
  \A o \in DOMAIN x.out \ (x.left \union D) : x.out[o] = <<>> \/ Made(x, o)

LEMMA NothingShown ==
  ASSUME NEW f, NEW of, NEW w \in of
  PROVE  [v \in of |-> f[v]] # <<>>
<1>1. DOMAIN [v \in of |-> f[v]] = of
  OBVIOUS
<1>2. DOMAIN <<>> = {}
  OBVIOUS
<1> QED
  BY <1>1, <1>2

LEMMA ShowFacts ==
  ASSUME NEW x, WindowOK(x), NEW o \in DOMAIN x.out
  PROVE  LET r == Show(x, o, Uses(o))
         IN  /\ Same(r, x, {"out"}) /\ WindowOK(r) /\ DOMAIN r.out = DOMAIN x.out
             /\ Made(r, o)
             /\ \A q \in DOMAIN x.out \ {o} : r.out[q] = x.out[q]
             /\ \A D : OutputsBut(x, D) => OutputsBut(r, D \ {o})
<1> DEFINE v == [w \in Uses(o) |-> x.f[w]]
           r == Show(x, o, Uses(o))
<1>1. r = [x EXCEPT !.out = [x.out EXCEPT ![o] = v]]
  BY DEF Show
<1> HIDE DEF v, r
<1>2. /\ Same(r, x, {"out"}) /\ r.out = [x.out EXCEPT ![o] = v]
  BY <1>1 DEF Same, WindowOK
<1>3. /\ DOMAIN r.out = DOMAIN x.out /\ r.out[o] = v
      /\ \A q \in DOMAIN x.out \ {o} : r.out[q] = x.out[q]
  BY <1>2
<1>4. r.f = x.f /\ r.left = x.left /\ r.plain = x.plain
  BY <1>2 DEF Same, WindowOK
<1>5. WindowOK(r)
  <2>1. Same(r, x, {"f", "plain", "bad", "left", "out"})
    BY <1>2 DEF Same
  <2>2. r.plain \in BOOLEAN
    BY <1>4 DEF WindowOK
  <2> QED
    BY <1>3, <1>4, <2>1, <2>2, WindowKept
<1>6. Made(r, o)
  BY <1>3, <1>4 DEF Made, v
<1>7. ASSUME NEW D, OutputsBut(x, D) PROVE OutputsBut(r, D \ {o})
  <2> SUFFICES ASSUME NEW q \in DOMAIN r.out \ (r.left \union (D \ {o}))
               PROVE  r.out[q] = <<>> \/ Made(r, q)
    BY DEF OutputsBut
  <2>1. CASE q = o
    BY <1>6, <2>1
  <2>2. CASE q # o
    <3>1. x.out[q] = <<>> \/ Made(x, q)
      BY <1>3, <1>4, <1>7, <2>2 DEF OutputsBut
    <3> QED
      BY <1>3, <1>4, <2>2, <3>1 DEF Made
  <2> QED
    BY <2>1, <2>2
<1> QED
  BY <1>2, <1>3, <1>5, <1>6, <1>7 DEF r

\* The outputs of each kind of window.
LEMMA WindowOutputs ==
  /\ Outputs("foc") = {"curv"}
  /\ Outputs("factors") = {"bose", "dw", "lor", "ana"}
  /\ Outputs("spurion") = {"inel", "tail"}
  /\ Outputs("recip") = {"fields", "incoming", "outgoing", "defs"}
  /\ Outputs("real") = {"angles", "metrics", "vecs", "rot", "cell", "atoms"}
  /\ \A win \in Solvers \union {"neutron"} : Outputs(win) = {}
  BY DEF Outputs, Solvers, TofPages

\* What they are made of.
LEMMA WindowUses ==
  /\ Uses("curv") = {"l1", "l2", "tt"}
  /\ Uses("bose") = {"boseT", "EMin", "EMax"}
  /\ Uses("dw") = {"amu", "TD", "T", "QMin", "QMax"}
  /\ Uses("lor") = {"ttMin", "ttMax", "pol"}
  /\ Uses("ana") = {"d", "kfMin", "kfMax"}
  /\ Uses("inel") = {"fixedEi", "E", "order", "filter"}
  /\ Uses("tail") = {"fixedEi", "E", "QMin", "QMax"}
  /\ Uses("defs") = {"origin", "em", "pos"}
  /\ Uses("incoming") = {"ki"} /\ Uses("outgoing") = {"kf"}
  /\ Uses("fields") = {"pos"} /\ Uses("angles") = {"pos"}
  /\ Uses("metrics") = {"metrics"}
  /\ Uses("vecs") = {"vec1", "vec2", "metrics"}
  /\ Uses("rot") = {"coords", "to", "k", "norm", "x", "y", "latt"}
  /\ Uses("cell") = {"latt"} /\ Uses("atoms") = {"latt"}
  BY DEF Uses

\* The widgets of each kind of window.
LEMMA WindowTyped ==
  /\ Typed("bragg") = {"n", "lam", "K", "Q", "d", "T", "TT"}
  /\ Typed("chopper") = {"t", "r", "om", "L"}
  /\ Typed("div") = {"ang", "L", "w"}
  /\ Typed("sel") = {"lam", "om", "L", "th"}
  /\ Typed("neutron") = Waves \union Energies
  /\ Typed("foc") = {"l1", "l2", "tt"}
  /\ Typed("factors") =
       {"boseT", "EMin", "EMax", "amu", "TD", "T", "QMin", "QMax",
        "ttMin", "ttMax", "d", "kfMin", "kfMax"}
  /\ Typed("spurion") = {"E", "order", "QMin", "QMax"}
  /\ Typed("recip") = {"origin"}
  /\ Typed("real") = {"vec1", "vec2", "coords", "to", "k", "norm", "x", "y",
                      "z"}
<1>1. Law("div") = {"ang", "L", "w"} /\ Law("sel") = {"lam", "om", "L", "th"}
  BY DEF Law, Factors, Product
<1> QED
  BY <1>1 DEF Typed

LEMMA WindowChecks ==
  /\ Checks("chopper") = {"rot"} /\ Checks("factors") = {"pol"}
  /\ Checks("spurion") = {"fixedEi", "sync", "filter"}
  /\ Checks("recip") = {"em"}
  /\ \A win \in {"bragg", "div", "sel", "neutron", "foc", "real"} :
       Checks(win) = {}
  BY DEF Checks

LEMMA WindowKnown ==
  /\ Known("recip") = {"pos", "ki", "kf"}
  /\ Known("real") = {"pos", "latt", "metrics"}
  /\ \A win \in Windows \ {"recip", "real"} : Known(win) = {"pos"}
  BY DEF Known

\* An output is made of something, and that is shown in its window.
LEMMA UsesFields ==
  ASSUME NEW win \in Windows, NEW o \in Outputs(win)
  PROVE  Uses(o) # {} /\ Uses(o) \subseteq Fields(win)
<1>1. CASE win = "foc"
  BY <1>1, WindowOutputs, WindowUses, WindowTyped DEF Fields
<1>2. CASE win = "factors"
  BY <1>2, WindowOutputs, WindowUses, WindowTyped, WindowChecks DEF Fields
<1>3. CASE win = "spurion"
  BY <1>3, WindowOutputs, WindowUses, WindowTyped, WindowChecks DEF Fields
<1>4. CASE win = "recip"
  BY <1>4, WindowOutputs, WindowUses, WindowTyped, WindowChecks, WindowKnown
     DEF Fields
<1>5. CASE win = "real"
  BY <1>5, WindowOutputs, WindowUses, WindowTyped, WindowKnown DEF Fields
<1>6. CASE win \in Solvers \union {"neutron"}
  BY <1>6, WindowOutputs
<1> QED
  BY <1>1, <1>2, <1>3, <1>4, <1>5, <1>6 DEF Windows

LEMMA MadeShown ==
  ASSUME NEW x, WindowOK(x), NEW o \in DOMAIN x.out, Made(x, o)
  PROVE  x.out[o] # <<>>
<1>1. PICK w : w \in Uses(o)
  BY UsesFields DEF WindowOK
<1>2. [v \in Uses(o) |-> x.f[v]] # <<>>
  BY <1>1, NothingShown
<1> QED
  BY <1>2 DEF Made

\* What was made stays so if nothing that it is made of changes.
LEMMA MadeKept ==
  ASSUME NEW x, NEW D, OutputsBut(x, D), NEW y, y.out = x.out,
         NEW o \in DOMAIN x.out, o \notin x.left, o \notin D,
         \A w \in Uses(o) : y.f[w] = x.f[w]
  PROVE  y.out[o] = <<>> \/ Made(y, o)
<1>1. x.out[o] = <<>> \/ Made(x, o)
  BY DEF OutputsBut
<1>2. [w \in Uses(o) |-> y.f[w]] = [w \in Uses(o) |-> x.f[w]]
  OBVIOUS
<1> QED
  BY <1>1, <1>2 DEF Made

-----------------------------------------------------------------------------
(* Windows of parameters: the equations.                                   *)

LEMMA LawFacts ==
  /\ Law("bragg") = {"n", "lam", "Q", "TT"}
  /\ Law("chopper") = {"t", "r", "om", "rot", "L"}
  /\ Law("div") = {"ang", "L", "w"} /\ Law("sel") = {"lam", "om", "L", "th"}
  /\ Product("bragg") = "TT" /\ Product("chopper") = "L"
  /\ Product("div") = "w" /\ Product("sel") = "th"
  BY DEF Law, Factors, Product

LEMMA RadioFacts ==
  /\ Radios("bragg") = {"lam", "Q", "TT"}
  /\ Radios("chopper") = {"t", "r", "om", "L"}
  /\ Radios("div") = {"ang", "L", "w"}
  /\ Radios("sel") = {"lam", "om", "L", "th"}
  BY WindowTyped DEF Radios, TofPages

\* The widgets of an equation show numbers.
Numeric(win, f) == \A w \in Typed(win) \union Law(win) : f[w] \in Int

LEMMA SolverFields ==
  ASSUME NEW win \in Solvers
  PROVE  /\ win \in Windows /\ Typed(win) \union Law(win) \subseteq Fields(win)
         /\ Radios(win) \subseteq Law(win)
<1>1. /\ Law(win) \subseteq Typed(win) \union Checks(win)
      /\ Radios(win) \subseteq Law(win)
  BY LawFacts, RadioFacts, WindowTyped, WindowChecks DEF Solvers, TofPages
<1> QED
  BY <1>1 DEF Fields, Windows

\* A window of an equation, apart from its solution.
Solvable(x) ==
  /\ WindowOK(x) /\ x.win \in Solvers /\ x.radio \in Radios(x.win)
  /\ Numeric(x.win, x.f) /\ x.left = {}
  /\ x.win \in TofPages => x.bad = {}

LEMMA SolverWindow ==
  ASSUME NEW x, Solvable(x), Solves(x)
  PROVE  ValidWindow(x)
<1>1. DOMAIN x.out = {}
  BY WindowOutputs DEF Solvable, WindowOK
<1>2. OutputsInv(x)
  BY <1>1 DEF OutputsInv
<1>3. x.win # "neutron" /\ x.win # "spurion" /\ x.win # "recip" /\ x.win # "real"
  BY DEF Solvable, Solvers, TofPages
<1> QED
  BY <1>2, <1>3 DEF ValidWindow, Solvable, SolverInv, Numeric, NeutronInv,
     LeftInv, SpurionInv, RecipInv, RealInv

LEMMA WindowSolver ==
  ASSUME NEW x, ValidWindow(x), x.win \in Solvers
  PROVE  Solvable(x) /\ Solves(x)
<1>1. x.win # "factors" /\ x.win # "real"
  BY DEF Solvers, TofPages
<1> QED
  BY <1>1 DEF ValidWindow, Solvable, SolverInv, Numeric, LeftInv

\* The excess is of the widgets in the equation.
LEMMA ExcessKept ==
  ASSUME NEW win \in Solvers, NEW f, NEW g, \A w \in Law(win) : f[w] = g[w]
  PROVE  Excess(win, f) = Excess(win, g)
  BY LawFacts DEF Excess, Solvers, TofPages

LEMMA ExcessSolved ==
  ASSUME NEW win \in Solvers, NEW f, Numeric(win, f), NEW o \in Law(win),
         NEW g, \A w \in Law(win) \ {o} : g[w] = f[w],
         g[o] = IF o = Product(win) THEN f[o] + Excess(win, f)
                                    ELSE f[o] - Excess(win, f)
  PROVE  g[o] \in Int /\ Excess(win, g) = 0
<1>1. CASE win = "bragg"
  BY <1>1, LawFacts DEF Excess, Numeric
<1>2. CASE win = "chopper"
  BY <1>2, LawFacts DEF Excess, Numeric
<1>3. CASE win = "div"
  BY <1>3, LawFacts DEF Excess, Numeric
<1>4. CASE win = "sel"
  BY <1>4, LawFacts DEF Excess, Numeric
<1> QED
  BY <1>1, <1>2, <1>3, <1>4 DEF Solvers, TofPages

LEMMA SolvedFacts ==
  ASSUME NEW x, Solvable(x), NEW o \in Radios(x.win)
  PROVE  LET r == Solved(x, o)
         IN  /\ Same(r, x, {"f", "bad"}) /\ DOMAIN r.f = DOMAIN x.f
             /\ \A w \in DOMAIN x.f \ {o} : r.f[w] = x.f[w]
             /\ Solvable(r) /\ r.win = x.win /\ r.radio = x.radio
             /\ \/ r.bad = x.bad \union {o}
                \/ r.bad = x.bad \ {o} /\ Excess(r.win, r.f) = 0
<1> DEFINE win == x.win
           v == IF o = Product(win) THEN x.f[o] + Excess(win, x.f)
                                    ELSE x.f[o] - Excess(win, x.f)
           r == Solved(x, o)
<1>1. /\ win \in Solvers /\ Numeric(win, x.f) /\ o \in Law(win)
      /\ DOMAIN x = WindowFields /\ DOMAIN x.f = Fields(win)
      /\ Law(win) \subseteq Fields(win)
  BY SolverFields DEF Solvable, WindowOK, WindowFields
<1>2. \/ r = [x EXCEPT !.bad = x.bad \union {o}]
         /\ ~(win \in TofPages)
      \/ r = [x EXCEPT !.f[o] = v, !.bad = x.bad \ {o}]
  <2>1. o = "TT" => win = "bragg"
    BY RadioFacts DEF Solvable, Solvers, TofPages
  <2>2. win \in TofPages => x.bad = {} /\ win # "bragg"
    BY DEF Solvable, TofPages
  <2> QED
    BY <2>1, <2>2 DEF Solved
<1> HIDE DEF r
<1>3. CASE r = [x EXCEPT !.bad = x.bad \union {o}] /\ ~(win \in TofPages)
  <2>1. /\ Same(r, x, {"bad"}) /\ r.bad = x.bad \union {o}
    BY <1>1, <1>3 DEF Same, WindowFields
  <2>2. r.f = x.f /\ r.win = x.win /\ r.radio = x.radio /\ r.left = x.left
        /\ r.out = x.out /\ r.plain = x.plain
    BY <1>1, <2>1 DEF Same, WindowFields
  <2>3. WindowOK(r)
    <3>1. Same(r, x, {"f", "plain", "bad", "left", "out"})
      BY <2>1 DEF Same
    <3> QED
      BY <2>2, <3>1, WindowKept DEF Solvable, WindowOK
  <2>4. Solvable(r)
    BY <1>3, <2>2, <2>3 DEF Solvable
  <2>5. Same(r, x, {"f", "bad"})
    BY <2>1 DEF Same
  <2> QED
    BY <2>1, <2>2, <2>4, <2>5 DEF r
<1>4. CASE r = [x EXCEPT !.f[o] = v, !.bad = x.bad \ {o}]
  <2> HIDE DEF v
  <2>1. /\ Same(r, x, {"f", "bad"}) /\ r.bad = x.bad \ {o}
        /\ r.f = [x.f EXCEPT ![o] = v]
    BY <1>1, <1>4 DEF Same, WindowFields
  <2>2. /\ r.win = x.win /\ r.radio = x.radio /\ r.left = x.left
        /\ r.out = x.out /\ r.plain = x.plain
    BY <1>1, <2>1 DEF Same, WindowFields
  <2>3. /\ DOMAIN r.f = DOMAIN x.f /\ r.f[o] = v
        /\ \A w \in DOMAIN x.f \ {o} : r.f[w] = x.f[w]
    BY <1>1, <2>1
  <2>4. WindowOK(r)
    <3>1. Same(r, x, {"f", "plain", "bad", "left", "out"})
      BY <2>1 DEF Same
    <3> QED
      BY <2>2, <2>3, <3>1, WindowKept DEF Solvable, WindowOK
  <2>5. r.f[o] \in Int /\ Excess(win, r.f) = 0
    BY <1>1, <2>3, ExcessSolved DEF v
  <2>6. Numeric(win, r.f)
    BY <1>1, <2>3, <2>5, SolverFields DEF Numeric
  <2>7. win \in TofPages => r.bad = {}
    BY <2>1 DEF Solvable
  <2>8. Solvable(r)
    BY <2>2, <2>4, <2>6, <2>7 DEF Solvable
  <2> QED
    BY <2>1, <2>2, <2>3, <2>5, <2>8 DEF r
<1> QED
  BY <1>2, <1>3, <1>4

\* A page of TOFDlg is solved by its calculation.
LEMMA TofCalc ==
  ASSUME NEW x, Solvable(x), x.win \in TofPages
  PROVE  LET r == CalcPage(x)
         IN  /\ Solvable(r) /\ Solves(r) /\ r.win = x.win /\ r.radio = x.radio
             /\ Same(r, x, {"f", "bad"})
             /\ \A w \in DOMAIN x.f \ {x.radio} : r.f[w] = x.f[w]
<1> DEFINE r == Solved(x, x.radio)
<1>1. CalcPage(x) = r
  BY DEF CalcPage, CalcChopper, CalcDiv, CalcSel, TofPages
<1>2. /\ Solvable(r) /\ r.win = x.win /\ r.radio = x.radio
      /\ Same(r, x, {"f", "bad"})
      /\ \A w \in DOMAIN x.f \ {x.radio} : r.f[w] = x.f[w]
      /\ \/ r.bad = x.bad \union {x.radio}
         \/ r.bad = x.bad \ {x.radio} /\ Excess(r.win, r.f) = 0
  BY SolvedFacts DEF Solvable
<1> HIDE DEF r
<1>3. r.bad = {} /\ r.win # "bragg"
  BY <1>2 DEF Solvable, TofPages
<1>4. Solves(r)
  BY <1>2, <1>3 DEF Solves
<1> QED
  BY <1>1, <1>2, <1>4

\* An edit and its partner with the other unit.
Pairs == {"lam", "K", "Q", "d", "TT", "T"}

LEMMA PartnerFacts ==
  /\ Partner["lam"] = "K" /\ Partner["K"] = "lam" /\ Partner["Q"] = "d"
  /\ Partner["d"] = "Q" /\ Partner["TT"] = "T" /\ Partner["T"] = "TT"
  BY DEF Partner

LEMMA SetPartnerFacts ==
  ASSUME NEW x, Solvable(x), x.win = "bragg", NEW w \in Pairs
  PROVE  LET r == SetPartner(x, w)
         IN  /\ Same(r, x, {"f", "bad"}) /\ DOMAIN r.f = DOMAIN x.f
             /\ \A u \in DOMAIN x.f \ {Partner[w]} : r.f[u] = x.f[u]
             /\ r.f[Partner[w]] = InUnit(w, x.f[w])
             /\ Partner[w] \in r.bad <=> w \in x.bad
             /\ \A u : u # Partner[w] => (u \in r.bad <=> u \in x.bad)
             /\ Solvable(r) /\ r.win = x.win /\ r.radio = x.radio
<1> DEFINE P == Partner[w]
           v == InUnit(w, x.f[w])
           bad == IF w \in x.bad THEN x.bad \union {P} ELSE x.bad \ {P}
           r == SetPartner(x, w)
<1>1. P \in Pairs /\ w # "n"
  BY PartnerFacts DEF Pairs
<1> HIDE DEF P
<1>2. /\ DOMAIN x = WindowFields /\ DOMAIN x.f = Fields(x.win)
      /\ Pairs \subseteq Fields(x.win) /\ x.win \in Solvers
  BY WindowTyped DEF Solvable, WindowOK, WindowFields, Fields, Pairs
<1>3. r = [x EXCEPT !.f[P] = v, !.bad = bad]
  BY <1>1, <1>2 DEF SetPartner, P, WindowFields
<1>4. v \in Int
  BY WindowTyped DEF InUnit, Solvable, Numeric, Pairs
<1> HIDE DEF r, v, bad
<1>5. /\ Same(r, x, {"f", "bad"}) /\ r.bad = bad /\ r.f = [x.f EXCEPT ![P] = v]
  BY <1>2, <1>3 DEF Same, WindowFields
<1>6. /\ r.win = x.win /\ r.radio = x.radio /\ r.left = x.left
      /\ r.out = x.out /\ r.plain = x.plain
  BY <1>2, <1>5 DEF Same, WindowFields
<1>7. /\ DOMAIN r.f = DOMAIN x.f /\ r.f[P] = v
      /\ \A u \in DOMAIN x.f \ {P} : r.f[u] = x.f[u]
  BY <1>1, <1>2, <1>5
<1>8. WindowOK(r)
  <2>1. Same(r, x, {"f", "plain", "bad", "left", "out"})
    BY <1>5 DEF Same
  <2> QED
    BY <1>6, <1>7, <2>1, WindowKept DEF Solvable, WindowOK
<1>9. Numeric(x.win, r.f)
  BY <1>2, <1>4, <1>7, SolverFields DEF Numeric, Solvable
<1>10. Solvable(r)
  BY <1>6, <1>8, <1>9 DEF Solvable, TofPages
<1> QED
  BY <1>5, <1>6, <1>7, <1>10 DEF r, P, v, bad

\* What is typed into one of two such edits is in the other, the rest stays.
LEMMA PairedNow ==
  ASSUME NEW x, Solvable(x), x.win = "bragg", NEW w \in Pairs, w \notin x.bad
  PROVE  \A u \in {"lam", "Q", "TT"} :
           u \in {w, Partner[w]} \/ Paired(x, u) => Paired(SetPartner(x, w), u)
<1> DEFINE r == SetPartner(x, w)
<1>1. /\ \A u \in DOMAIN x.f \ {Partner[w]} : r.f[u] = x.f[u]
      /\ r.f[Partner[w]] = InUnit(w, x.f[w])
      /\ Partner[w] \in r.bad <=> w \in x.bad
      /\ \A u : u # Partner[w] => (u \in r.bad <=> u \in x.bad)
  BY SetPartnerFacts
<1> HIDE DEF r
<1>2. Pairs \subseteq DOMAIN x.f /\ \A u \in Pairs : x.f[u] \in Int
  BY WindowTyped DEF Solvable, WindowOK, Fields, Pairs, Numeric
<1>3. \A u \in {"lam", "Q", "TT"} : u \in {w, Partner[w]} => Paired(r, u)
  BY <1>1, <1>2, PartnerFacts DEF Paired, InUnit, Pairs
<1>4. ASSUME NEW u \in {"lam", "Q", "TT"}, u \notin {w, Partner[w]}, Paired(x, u)
      PROVE  Paired(r, u)
  <2>1. /\ u # Partner[w] /\ Partner[u] # Partner[w]
        /\ u \in Pairs /\ Partner[u] \in Pairs
    BY <1>4, PartnerFacts DEF Pairs
  <2>2. r.f[u] = x.f[u] /\ r.f[Partner[u]] = x.f[Partner[u]]
    BY <1>1, <1>2, <2>1
  <2> QED
    BY <1>1, <1>4, <2>1, <2>2 DEF Paired
<1> QED
  BY <1>3, <1>4 DEF r

\* Bragg's equation: its calculation sets the unknown and its partner.
LEMMA BraggCalc ==
  ASSUME NEW x, Solvable(x), x.win = "bragg",
         \A u \in {"lam", "Q", "TT"} \ {x.radio} : Paired(x, u)
  PROVE  LET r == CalcBraggRecip(x)
         IN  /\ Solvable(r) /\ Solves(r) /\ r.win = x.win /\ r.radio = x.radio
             /\ Same(r, x, {"f", "bad"})
<1> DEFINE o == x.radio
           y == Solved(x, o)
           r == SetPartner(y, o)
<1>1. o \in {"lam", "Q", "TT"} /\ o \in Radios(x.win) /\ o \in Pairs
  BY RadioFacts DEF Solvable, Pairs
<1>2. /\ Same(y, x, {"f", "bad"}) /\ DOMAIN y.f = DOMAIN x.f
      /\ \A w \in DOMAIN x.f \ {o} : y.f[w] = x.f[w]
      /\ Solvable(y) /\ y.win = x.win /\ y.radio = x.radio
      /\ \/ y.bad = x.bad \union {o}
         \/ y.bad = x.bad \ {o} /\ Excess(y.win, y.f) = 0
  BY <1>1, SolvedFacts
<1> HIDE DEF y
<1>3. /\ Same(r, y, {"f", "bad"}) /\ DOMAIN r.f = DOMAIN y.f
      /\ \A u \in DOMAIN y.f \ {Partner[o]} : r.f[u] = y.f[u]
      /\ r.f[Partner[o]] = InUnit(o, y.f[o])
      /\ Partner[o] \in r.bad <=> o \in y.bad
      /\ \A u : u # Partner[o] => (u \in r.bad <=> u \in y.bad)
      /\ Solvable(r) /\ r.win = y.win /\ r.radio = y.radio
  BY <1>1, <1>2, SetPartnerFacts
<1> HIDE DEF r
<1>4. Pairs \union Law(x.win) \subseteq DOMAIN x.f
  BY WindowTyped, SolverFields DEF Solvable, WindowOK, Fields, Pairs
<1>5. r.bad = {} => Excess(r.win, r.f) = 0
  <2> SUFFICES ASSUME r.bad = {} PROVE Excess(r.win, r.f) = 0
    OBVIOUS
  <2>1. o \notin y.bad
    BY <1>1, <1>3, PartnerFacts
  <2>2. Excess(y.win, y.f) = 0
    BY <1>2, <2>1
  <2>3. \A w \in Law(y.win) : r.f[w] = y.f[w]
    BY <1>1, <1>2, <1>3, <1>4, PartnerFacts, LawFacts
  <2>4. Excess(y.win, r.f) = Excess(y.win, y.f)
    BY <1>2, <2>3, ExcessKept DEF Solvable
  <2> QED
    BY <1>3, <2>2, <2>4
<1>6. ASSUME NEW u \in {"lam", "Q", "TT"} PROVE Paired(r, u)
  <2>1. CASE u = o
    <3>1. u # Partner[o] /\ r.f[o] = y.f[o]
      BY <1>1, <1>2, <1>3, <1>4, <2>1, PartnerFacts
    <3> QED
      BY <1>3, <2>1, <3>1 DEF Paired
  <2>2. CASE u # o
    <3>1. /\ u # Partner[o] /\ Partner[u] # Partner[o] /\ Partner[u] # o
          /\ u \in Pairs /\ Partner[u] \in Pairs
      BY <1>1, <2>2, PartnerFacts DEF Pairs
    <3>2. r.f[u] = x.f[u] /\ r.f[Partner[u]] = x.f[Partner[u]]
      BY <1>2, <1>3, <1>4, <2>2, <3>1
    <3>3. /\ u \in r.bad <=> u \in x.bad
          /\ Partner[u] \in r.bad <=> Partner[u] \in x.bad
      BY <1>2, <1>3, <2>2, <3>1
    <3>4. Paired(x, u)
      BY <2>2
    <3> QED
      BY <3>2, <3>3, <3>4 DEF Paired
  <2> QED
    BY <2>1, <2>2
<1>7. Solves(r)
  BY <1>5, <1>6 DEF Solves
<1>8. Same(r, x, {"f", "bad"})
  BY <1>2, <1>3 DEF Same
<1>9. CalcBraggRecip(x) = r
  BY DEF CalcBraggRecip, r, y
<1> QED
  BY <1>2, <1>3, <1>7, <1>8, <1>9

\* What an event of the user leaves of a window.
StaysValid(r, x) == ValidWindow(r) /\ r.win = x.win

\* What is typed into an edit, or that a box is checked.
Entry(y, x, w, v) ==
  /\ Same(y, x, {"f", "bad", "plain"}) /\ y.f = [x.f EXCEPT ![w] = v]
  /\ y.plain \in BOOLEAN

LEMMA ValueSet ==
  ASSUME NEW x, WindowOK(x), NEW w \in Fields(x.win), NEW v, NEW y,
         Entry(y, x, w, v)
  PROVE  /\ DOMAIN y.f = DOMAIN x.f /\ y.f[w] = v
         /\ \A u \in DOMAIN x.f \ {w} : y.f[u] = x.f[u]
         /\ WindowOK(y) /\ y.win = x.win /\ y.radio = x.radio
         /\ y.left = x.left /\ y.out = x.out
<1>1. /\ y.left = x.left /\ y.out = x.out
  BY DEF Same, WindowOK, Entry
<1>2. /\ DOMAIN y.f = DOMAIN x.f /\ y.f[w] = v
      /\ \A u \in DOMAIN x.f \ {w} : y.f[u] = x.f[u]
  BY DEF WindowOK, Entry
<1>3. Same(y, x, {"f", "plain", "bad", "left", "out"}) /\ y.plain \in BOOLEAN
  BY DEF Same, Entry
<1> QED
  BY <1>1, <1>2, <1>3, WindowKept

LEMMA SolverSet ==
  ASSUME NEW x, Solvable(x), NEW w \in Fields(x.win), NEW v \in Int, NEW y,
         Entry(y, x, w, v), x.win \in TofPages => y.bad = {}
  PROVE  Solvable(y)
<1>0. WindowOK(x)
  BY DEF Solvable
<1>1. /\ DOMAIN y.f = DOMAIN x.f /\ y.f[w] = v
      /\ \A u \in DOMAIN x.f \ {w} : y.f[u] = x.f[u]
      /\ WindowOK(y) /\ y.win = x.win /\ y.radio = x.radio
      /\ y.left = x.left
  BY <1>0, ValueSet
<1>2. Numeric(x.win, y.f)
  BY <1>1, SolverFields DEF Solvable, WindowOK, Numeric
<1> QED
  BY <1>1, <1>2 DEF Solvable

LEMMA TofTyped ==
  ASSUME NEW x, ValidWindow(x), x.win \in TofPages, NEW y, Solvable(y),
         y.win = x.win, NEW w
  PROVE  StaysValid(Edited(y, w), x)
<1>1. Edited(y, w) = CalcPage(y)
  BY DEF Edited, TofPages
<1> QED
  BY <1>1, TofCalc, SolverWindow DEF StaysValid

LEMMA BraggTyped ==
  ASSUME NEW x, ValidWindow(x), x.win = "bragg",
         NEW w \in Typed("bragg"), NEW v \in Int, NEW plain \in BOOLEAN
  PROVE  StaysValid(Edited([x EXCEPT !.f[w] = v, !.bad = x.bad \ {w},
                                     !.plain = plain], w), x)
<1> DEFINE y == [x EXCEPT !.f[w] = v, !.bad = x.bad \ {w}, !.plain = plain]
           z == SetPartner(y, w)
           r == CalcBraggRecip(z)
<1>1. Solvable(x) /\ Solves(x) /\ WindowOK(x)
  BY WindowSolver DEF Solvers, Solvable
<1>2. Entry(y, x, w, v) /\ y.bad = x.bad \ {w}
  BY <1>1 DEF Same, WindowOK, Entry
<1> HIDE DEF y
<1>3. w \in Fields(x.win) /\ (w = "n" \/ w \in Pairs)
  BY WindowTyped DEF Fields, Pairs
<1>4. /\ y.f[w] = v /\ \A u \in DOMAIN x.f \ {w} : y.f[u] = x.f[u]
      /\ y.win = x.win /\ y.radio = x.radio
  BY <1>1, <1>2, <1>3, ValueSet
<1>5. Solvable(y)
  BY <1>1, <1>2, <1>3, SolverSet DEF TofPages
<1>6. Pairs \subseteq DOMAIN x.f /\ DOMAIN y.f = DOMAIN x.f
  BY <1>1, <1>5, <1>4, WindowTyped DEF Solvable, WindowOK, Fields, Pairs
<1>7. ASSUME NEW u \in {"lam", "Q", "TT"}, w = "n" \/ u \notin {w, Partner[w]}
      PROVE  Paired(y, u)
  <2>1. u # w /\ Partner[u] # w /\ u \in Pairs /\ Partner[u] \in Pairs
    BY <1>3, <1>7, PartnerFacts DEF Pairs
  <2>2. y.f[u] = x.f[u] /\ y.f[Partner[u]] = x.f[Partner[u]]
    BY <1>4, <1>6, <2>1
  <2>3. Paired(x, u)
    BY <1>1 DEF Solves
  <2> QED
    BY <1>2, <2>1, <2>2, <2>3 DEF Paired
<1>8. /\ Solvable(z) /\ z.win = "bragg"
      /\ \A u \in {"lam", "Q", "TT"} : Paired(z, u)
  <2>1. CASE w = "n"
    BY <1>4, <1>5, <1>7, <2>1 DEF SetPartner
  <2>2. CASE w # "n"
    <3>1. w \in Pairs /\ w \notin y.bad /\ y.win = "bragg"
      BY <1>2, <1>3, <1>4, <2>2
    <3>2. Solvable(z) /\ z.win = "bragg"
      BY <1>5, <3>1, SetPartnerFacts
    <3>3. \A u \in {"lam", "Q", "TT"} :
            u \in {w, Partner[w]} \/ Paired(y, u) => Paired(z, u)
      BY <1>5, <3>1, PairedNow
    <3> QED
      BY <1>7, <3>2, <3>3
  <2> QED
    BY <2>1, <2>2
<1> HIDE DEF z
<1>9. Solvable(r) /\ Solves(r) /\ r.win = "bragg"
  BY <1>8, BraggCalc
<1>10. Edited(y, w) = r
  BY <1>4 DEF Edited, BraggEdited, TofPages, z
<1>11. StaysValid(r, x)
  BY <1>9, SolverWindow DEF StaysValid
<1> QED
  BY <1>10, <1>11 DEF y

\* Another unknown: the page is calculated twice.
LEMMA RadioKeeps ==
  ASSUME NEW x, ValidWindow(x), NEW o \in Radios(x.win)
  PROVE  StaysValid(CalcPage(CalcPage([x EXCEPT !.radio = o])), x)
<1> DEFINE y == [x EXCEPT !.radio = o]
<1>0. WindowOK(x) /\ x.win \in Solvers
  BY DEF ValidWindow, WindowOK, Radios, Windows, Solvers, TofPages
<1>1. Solvable(x) /\ Solves(x)
  BY <1>0, WindowSolver
<1>2. /\ DOMAIN y = DOMAIN x /\ y.radio = o /\ y.win = x.win /\ y.f = x.f
      /\ y.bad = x.bad /\ y.left = x.left /\ y.out = x.out
      /\ y.plain = x.plain
  BY <1>0 DEF WindowOK
<1> HIDE DEF y
<1>3. WindowOK(y)
  BY <1>0, <1>2 DEF WindowOK
<1>4. Solvable(y)
  BY <1>1, <1>2, <1>3 DEF Solvable
<1>5. CASE x.win \in TofPages
  BY <1>2, <1>4, <1>5, TofCalc, SolverWindow DEF StaysValid, y
<1>6. CASE x.win = "bragg"
  <2>1. \A u \in {"lam", "Q", "TT"} : Paired(y, u)
    BY <1>1, <1>2, <1>6 DEF Solves, Paired
  <2> DEFINE z == CalcBraggRecip(y)
             r == CalcBraggRecip(z)
  <2>2. Solvable(z) /\ Solves(z) /\ z.win = "bragg"
    BY <1>2, <1>4, <1>6, <2>1, BraggCalc
  <2> HIDE DEF z
  <2>3. \A u \in {"lam", "Q", "TT"} : Paired(z, u)
    BY <2>2 DEF Solves
  <2>4. Solvable(r) /\ Solves(r) /\ r.win = "bragg"
    BY <2>2, <2>3, BraggCalc
  <2>5. CalcPage(CalcPage(y)) = r
    BY <1>2, <1>6, <2>2 DEF CalcPage, z
  <2> HIDE DEF r
  <2> QED
    BY <1>6, <2>4, <2>5, SolverWindow DEF StaysValid, y
<1> QED
  BY <1>0, <1>5, <1>6 DEF Solvers

-----------------------------------------------------------------------------
(* Windows of parameters: the neutron.                                     *)

NeutronOK(x) ==
  /\ WindowOK(x) /\ x.win = "neutron" /\ x.left = {}
  /\ x.f["pos"].ki \in Int /\ x.f["pos"].kf \in Int

LEMMA NeutronFields == Fields("neutron") = Waves \union Energies \union {"pos"}
  BY WindowTyped, WindowChecks, WindowKnown DEF Fields, Windows, Solvers

LEMMA NeutronWindow ==
  ASSUME NEW x, NeutronOK(x), \A w \in Waves \union Energies : x.f[w] \in Int,
         SameNeutron(x.f)
  PROVE  ValidWindow(x)
<1>1. DOMAIN x.out = {}
  BY WindowOutputs DEF NeutronOK, WindowOK
<1>2. OutputsInv(x)
  BY <1>1 DEF OutputsInv
<1>3. x.win = "neutron" /\ x.win \notin Solvers
  BY DEF NeutronOK, Solvers, TofPages
<1> QED
  BY <1>2, <1>3 DEF ValidWindow, NeutronOK, SolverInv, NeutronInv, LeftInv,
     SpurionInv, RecipInv, RealInv

LEMMA WindowNeutron ==
  ASSUME NEW x, ValidWindow(x), x.win = "neutron"
  PROVE  /\ NeutronOK(x) /\ SameNeutron(x.f)
         /\ \A w \in Waves \union Energies : x.f[w] \in Int
  BY DEF ValidWindow, NeutronOK, NeutronInv, LeftInv

LEMMA WaveFacts ==
  ASSUME NEW x, NeutronOK(x), NEW w \in Waves, x.f[w] \in Int
  PROVE  LET r == FromWave(x, w)
         IN  /\ ValidWindow(r) /\ r.win = "neutron" /\ r.f["lam"] = x.f[w]
             /\ r.plain = (x.plain \/ w # "lam") /\ r.radio = x.radio
<1> DEFINE f == [e \in DOMAIN x.f |->
                   IF e \in Waves THEN x.f[w]
                   ELSE IF e \in Energies THEN Size(x.f[w]) ELSE x.f[e]]
           plain == x.plain \/ w # "lam"
           r == FromWave(x, w)
<1>1. /\ DOMAIN x = WindowFields /\ x.plain \in BOOLEAN
      /\ DOMAIN x.f = Waves \union Energies \union {"pos"}
  BY NeutronFields DEF NeutronOK, WindowOK, WindowFields
<1>2. r = [x EXCEPT !.f = f, !.plain = plain]
  BY <1>1 DEF FromWave, WindowFields
<1>3. plain \in BOOLEAN
  OBVIOUS
<1>4. /\ \A e \in Waves : f[e] = x.f[w]
      /\ \A e \in Energies : f[e] = Size(x.f[w])
      /\ f["pos"] = x.f["pos"] /\ DOMAIN f = DOMAIN x.f
  BY <1>1 DEF Waves, Energies
<1>5. Size(x.f[w]) \in Int /\ Size(Size(x.f[w])) = Size(x.f[w])
  BY DEF Size
<1> HIDE DEF f, plain, r
<1>6. Same(r, x, {"f", "plain"}) /\ r.f = f /\ r.plain = plain
  BY <1>1, <1>2 DEF Same, WindowFields
<1>7. /\ r.win = x.win /\ r.radio = x.radio /\ r.left = x.left /\ r.out = x.out
  BY <1>1, <1>6 DEF Same, WindowFields
<1>8. NeutronOK(r)
  <2>1. Same(r, x, {"f", "plain", "bad", "left", "out"})
    BY <1>6 DEF Same
  <2>2. WindowOK(r)
    BY <1>3, <1>4, <1>6, <1>7, <2>1, WindowKept DEF NeutronOK
  <2> QED
    BY <1>4, <1>6, <1>7, <2>2 DEF NeutronOK
<1>9. \A e \in Waves \union Energies : r.f[e] \in Int
  BY <1>4, <1>5, <1>6
<1>10. SameNeutron(r.f)
  <2>1. "k" \in Waves /\ "E" \in Energies
    BY DEF Waves, Energies
  <2> QED
    BY <1>4, <1>5, <1>6, <2>1 DEF SameNeutron
<1>11. r.f["lam"] = x.f[w]
  BY <1>4, <1>6 DEF Waves
<1>12. ValidWindow(r) /\ r.win = "neutron"
  BY <1>7, <1>8, <1>9, <1>10, NeutronWindow DEF NeutronOK
<1> QED
  BY <1>6, <1>7, <1>11, <1>12 DEF r, plain

LEMMA EnergyFacts ==
  ASSUME NEW x, NeutronOK(x), NEW w \in Energies, x.f[w] \in Int
  PROVE  LET r == FromEnergy(x, w)
         IN  ValidWindow(r) /\ r.win = "neutron"
<1> DEFINE f == [e \in DOMAIN x.f |->
                   IF e \in Energies THEN x.f[w]
                   ELSE IF e \in Waves THEN Size(x.f[w]) ELSE x.f[e]]
           r == FromEnergy(x, w)
<1>1. /\ DOMAIN x = WindowFields /\ x.plain \in BOOLEAN
      /\ DOMAIN x.f = Waves \union Energies \union {"pos"}
  BY NeutronFields DEF NeutronOK, WindowOK, WindowFields
<1>2. r = [x EXCEPT !.f = f, !.plain = TRUE]
  BY <1>1 DEF FromEnergy, WindowFields
<1>4. /\ \A e \in Energies : f[e] = x.f[w]
      /\ \A e \in Waves : f[e] = Size(x.f[w])
      /\ f["pos"] = x.f["pos"] /\ DOMAIN f = DOMAIN x.f
  BY <1>1 DEF Waves, Energies
<1>5. Size(x.f[w]) \in Int /\ Size(Size(x.f[w])) = Size(x.f[w])
  BY DEF Size
<1> HIDE DEF f, r
<1>6. Same(r, x, {"f", "plain"}) /\ r.f = f /\ r.plain = TRUE
  BY <1>1, <1>2 DEF Same, WindowFields
<1>7. /\ r.win = x.win /\ r.radio = x.radio /\ r.left = x.left /\ r.out = x.out
  BY <1>1, <1>6 DEF Same, WindowFields
<1>8. NeutronOK(r)
  <2>1. Same(r, x, {"f", "plain", "bad", "left", "out"})
    BY <1>6 DEF Same
  <2>2. WindowOK(r)
    BY <1>4, <1>6, <1>7, <2>1, WindowKept DEF NeutronOK
  <2> QED
    BY <1>4, <1>6, <1>7, <2>2 DEF NeutronOK
<1>9. \A e \in Waves \union Energies : r.f[e] \in Int
  BY <1>4, <1>5, <1>6
<1>10. SameNeutron(r.f)
  <2>1. "k" \in Waves /\ "E" \in Energies
    BY DEF Waves, Energies
  <2> QED
    BY <1>4, <1>5, <1>6, <2>1 DEF SameNeutron
<1> QED
  BY <1>7, <1>8, <1>9, <1>10, NeutronWindow DEF NeutronOK, r

LEMMA NeutronTyped ==
  ASSUME NEW x, ValidWindow(x), x.win = "neutron", NEW w \in Typed("neutron"),
         NEW v \in Int, NEW plain \in BOOLEAN
  PROVE  StaysValid(Edited([x EXCEPT !.f[w] = v, !.bad = x.bad \ {w},
                                     !.plain = plain], w), x)
<1> DEFINE y == [x EXCEPT !.f[w] = v, !.bad = x.bad \ {w}, !.plain = plain]
<1>1. NeutronOK(x) /\ WindowOK(x)
  BY WindowNeutron DEF NeutronOK
<1>2. Entry(y, x, w, v) /\ y.bad = x.bad \ {w}
  BY <1>1 DEF Same, WindowOK, Entry
<1> HIDE DEF y
<1>3. w \in Waves \union Energies /\ w \in Fields(x.win) /\ w # "pos"
  BY WindowTyped DEF Fields, Waves, Energies
<1>4. /\ y.f[w] = v /\ \A u \in DOMAIN x.f \ {w} : y.f[u] = x.f[u]
      /\ WindowOK(y) /\ y.win = x.win /\ y.left = x.left
  BY <1>1, <1>2, <1>3, ValueSet
<1>5. NeutronOK(y)
  BY <1>1, <1>3, <1>4, NeutronFields DEF NeutronOK, WindowOK
<1>6. Edited(y, w) = NeutronEdited(y, w)
  BY <1>4 DEF Edited, TofPages
<1>7. ValidWindow(NeutronEdited(y, w)) /\ NeutronEdited(y, w).win = "neutron"
  <2>1. y.f[w] \in Int
    BY <1>4
  <2>2. CASE w \in Waves
    <3>1. ValidWindow(FromWave(y, w)) /\ FromWave(y, w).win = "neutron"
      BY <1>5, <2>1, <2>2, WaveFacts
    <3> QED
      BY <2>2, <3>1 DEF NeutronEdited
  <2>3. CASE w \notin Waves
    <3>1. w \in Energies
      BY <1>3, <2>3
    <3>2. ValidWindow(FromEnergy(y, w)) /\ FromEnergy(y, w).win = "neutron"
      BY <1>5, <2>1, <3>1, EnergyFacts
    <3> QED
      BY <2>3, <3>2 DEF NeutronEdited
  <2> QED
    BY <2>2, <2>3
<1> QED
  BY <1>6, <1>7 DEF StaysValid, y

LEMMA NeutronMoved ==
  ASSUME NEW x, ValidWindow(x), x.win = "neutron", NEW p \in Positions
  PROVE  StaysValid([x EXCEPT !.f["pos"] = p], x)
<1> DEFINE r == [x EXCEPT !.f["pos"] = p]
           w == "pos"
<1>1. /\ NeutronOK(x) /\ SameNeutron(x.f) /\ WindowOK(x)
      /\ \A u \in Waves \union Energies : x.f[u] \in Int
  BY WindowNeutron DEF NeutronOK
<1>2. Entry(r, x, w, p)
  BY <1>1 DEF Same, WindowOK, Entry
<1> HIDE DEF r
<1>3. w \in Fields(x.win) /\ w \notin Waves \union Energies
  BY NeutronFields DEF Waves, Energies
<1> HIDE DEF w
<1>4. /\ r.f[w] = p /\ \A u \in DOMAIN x.f \ {w} : r.f[u] = x.f[u]
      /\ WindowOK(r) /\ r.win = x.win /\ r.left = x.left
  BY <1>1, <1>2, <1>3, ValueSet
<1>5. NeutronOK(r)
  <2>1. p.ki \in Int /\ p.kf \in Int
    BY ParamAssumption
  <2> QED
    BY <1>1, <1>4, <2>1 DEF NeutronOK, w
<1>6. \A u \in Waves \union Energies : r.f[u] = x.f[u]
  BY <1>1, <1>3, <1>4, NeutronFields DEF WindowOK
<1>7. SameNeutron(r.f)
  BY <1>1, <1>6 DEF SameNeutron, Waves, Energies
<1> QED
  BY <1>1, <1>4, <1>5, <1>6, <1>7, NeutronWindow DEF StaysValid, r

LEMMA NeutronSynced ==
  ASSUME NEW x, ValidWindow(x), x.win = "neutron", NEW k \in {"ki", "kf"}
  PROVE  StaysValid(SetExtK(x, k), x)
<1> DEFINE v == x.f["pos"][k]
           y == [x EXCEPT !.f["k"] = v]
           w == "k"
<1>1. NeutronOK(x) /\ WindowOK(x)
  BY WindowNeutron DEF NeutronOK
<1>2. v \in Int
  BY <1>1 DEF NeutronOK
<1> HIDE DEF v
<1>3. Entry(y, x, w, v)
  BY <1>1 DEF Same, WindowOK, Entry
<1> HIDE DEF y
<1>4. w \in Waves /\ w # "pos"
  BY DEF Waves
<1>9. w \in Fields(x.win)
  BY NeutronFields DEF Waves
<1> HIDE DEF w
<1>5. /\ y.f[w] = v /\ \A u \in DOMAIN x.f \ {w} : y.f[u] = x.f[u]
      /\ WindowOK(y) /\ y.win = x.win /\ y.left = x.left
  BY <1>1, <1>3, <1>9, ValueSet
<1>6. NeutronOK(y)
  <2>1. y.f["pos"] = x.f["pos"]
    BY <1>1, <1>4, <1>5, NeutronFields DEF NeutronOK, WindowOK
  <2> QED
    BY <1>1, <1>5, <2>1 DEF NeutronOK
<1>7. ValidWindow(FromWave(y, w)) /\ FromWave(y, w).win = "neutron"
  <2>1. y.f[w] \in Int
    BY <1>2, <1>5
  <2> QED
    BY <1>4, <1>6, <2>1, WaveFacts
<1>8. SetExtK(x, k) = FromWave(y, w)
  BY DEF SetExtK, y, v, w
<1> QED
  BY <1>7, <1>8 DEF StaysValid

-----------------------------------------------------------------------------
(* Windows of parameters: those with plots and texts.                      *)

Followers == {"foc", "factors", "spurion", "recip", "real"}

LEMMA FollowerWindow ==
  ASSUME NEW x, WindowOK(x), x.win \in Followers, OutputsBut(x, {}),
         LeftInv(x), SpurionInv(x), RecipInv(x), RealInv(x)
  PROVE  ValidWindow(x)
<1>1. x.win \notin Solvers /\ x.win # "neutron"
  BY DEF Followers, Solvers, TofPages
<1>2. OutputsInv(x)
  BY DEF OutputsBut, OutputsInv
<1> QED
  BY <1>1, <1>2 DEF ValidWindow, SolverInv, NeutronInv

LEMMA WindowFollower ==
  ASSUME NEW x, ValidWindow(x)
  PROVE  /\ WindowOK(x) /\ OutputsBut(x, {}) /\ LeftInv(x)
         /\ SpurionInv(x) /\ RecipInv(x) /\ RealInv(x)
  BY DEF ValidWindow, OutputsInv, OutputsBut

\* A text or a plot is made.
LEMMA ShowStep ==
  ASSUME NEW x, WindowOK(x), NEW o \in DOMAIN x.out, NEW D, OutputsBut(x, D)
  PROVE  LET r == Show(x, o, Uses(o))
         IN  /\ WindowOK(r) /\ r.win = x.win /\ r.f = x.f /\ r.left = x.left
             /\ r.radio = x.radio /\ r.plain = x.plain /\ r.out[o] # <<>>
             /\ \A q \in DOMAIN x.out \ {o} : r.out[q] = x.out[q]
             /\ DOMAIN r.out = DOMAIN x.out /\ OutputsBut(r, D \ {o})
<1> DEFINE r == Show(x, o, Uses(o))
<1>1. /\ Same(r, x, {"out"}) /\ WindowOK(r) /\ DOMAIN r.out = DOMAIN x.out
      /\ Made(r, o)
      /\ \A q \in DOMAIN x.out \ {o} : r.out[q] = x.out[q]
      /\ OutputsBut(r, D \ {o})
  BY ShowFacts
<1> HIDE DEF r
<1>2. /\ r.win = x.win /\ r.f = x.f /\ r.left = x.left /\ r.radio = x.radio
      /\ r.plain = x.plain
  BY <1>1 DEF Same, WindowOK
<1>3. r.out[o] # <<>>
  BY <1>1, MadeShown
<1> QED
  BY <1>1, <1>2, <1>3 DEF r

\* What has failed becomes other.
LEMMA LeftChanged ==
  ASSUME NEW x, WindowOK(x), NEW D, OutputsBut(x, D), NEW L, NEW E,
         \A o \in DOMAIN x.out : o \in x.left \union D => o \in L \union E
  PROVE  LET r == [x EXCEPT !.left = L]
         IN  /\ WindowOK(r) /\ r.win = x.win /\ r.f = x.f /\ r.left = L
             /\ r.out = x.out /\ r.radio = x.radio /\ OutputsBut(r, E)
<1> DEFINE r == [x EXCEPT !.left = L]
<1>1. /\ DOMAIN r = DOMAIN x /\ r.win = x.win /\ r.f = x.f /\ r.left = L
      /\ r.out = x.out /\ r.radio = x.radio /\ r.plain = x.plain
  BY DEF WindowOK
<1> HIDE DEF r
<1>2. WindowOK(r)
  BY <1>1 DEF WindowOK
<1>3. OutputsBut(r, E)
  BY <1>1 DEF OutputsBut, Made
<1> QED
  BY <1>1, <1>2, <1>3 DEF r

\* One widget has another value: what is made of it has to be made again.
Users(win, w) == {o \in Outputs(win) : w \in Uses(o)}

LEMMA ValueTyped ==
  ASSUME NEW x, WindowOK(x), OutputsBut(x, {}),
         NEW w \in Fields(x.win), NEW v, NEW y, Entry(y, x, w, v)
  PROVE  /\ WindowOK(y) /\ y.win = x.win /\ y.out = x.out /\ y.left = x.left
         /\ y.f[w] = v /\ \A u \in DOMAIN x.f \ {w} : y.f[u] = x.f[u]
         /\ OutputsBut(y, Users(x.win, w))
<1>1. /\ DOMAIN y.f = DOMAIN x.f /\ y.f[w] = v
      /\ \A u \in DOMAIN x.f \ {w} : y.f[u] = x.f[u]
      /\ WindowOK(y) /\ y.win = x.win /\ y.left = x.left /\ y.out = x.out
  BY ValueSet
<1>2. ASSUME NEW o \in DOMAIN y.out \ (y.left \union Users(x.win, w))
      PROVE  y.out[o] = <<>> \/ Made(y, o)
  <2>1. /\ o \in DOMAIN x.out /\ o \notin x.left
        /\ w \notin Uses(o) /\ Uses(o) \subseteq DOMAIN x.f
    BY <1>1, <1>2, UsesFields DEF WindowOK, Users
  <2>2. \A u \in Uses(o) : y.f[u] = x.f[u]
    BY <1>1, <2>1
  <2> QED
    BY <1>1, <2>1, <2>2, MadeKept
<1>4. OutputsBut(y, Users(x.win, w))
  BY <1>2 DEF OutputsBut
<1> QED
  BY <1>1, <1>4

\* Focusing.
LEMMA FocShown ==
  ASSUME NEW x, WindowOK(x), x.win = "foc", x.left = {}
  PROVE  /\ ValidWindow(CalcFoc(x)) /\ CalcFoc(x).win = "foc"
         /\ CalcFoc(x).f = x.f /\ CalcFoc(x).radio = x.radio
         /\ CalcFoc(x).plain = x.plain
<1> DEFINE r == CalcFoc(x)
<1>1. DOMAIN x.out = {"curv"}
  BY WindowOutputs DEF WindowOK
<1>2. OutputsBut(x, {"curv"})
  BY <1>1 DEF OutputsBut
<1>3. r = Show(x, "curv", Uses("curv"))
  BY WindowUses DEF CalcFoc
<1> HIDE DEF r
<1>4. /\ WindowOK(r) /\ r.win = "foc" /\ r.left = {} /\ r.f = x.f
      /\ r.radio = x.radio /\ r.plain = x.plain
      /\ OutputsBut(r, {"curv"} \ {"curv"})
  BY <1>1, <1>2, <1>3, ShowStep
<1>5. OutputsBut(r, {})
  BY <1>4 DEF OutputsBut
<1>6. LeftInv(r) /\ SpurionInv(r) /\ RecipInv(r) /\ RealInv(r)
  BY <1>4 DEF LeftInv, SpurionInv, RecipInv, RealInv
<1>7. ValidWindow(r)
  BY <1>4, <1>5, <1>6, FollowerWindow DEF Followers
<1> QED
  BY <1>4, <1>7 DEF r

LEMMA FocTyped ==
  ASSUME NEW x, ValidWindow(x), x.win = "foc", NEW w \in Fields("foc"),
         NEW v, NEW y, Entry(y, x, w, v)
  PROVE  StaysValid(Edited(y, w), x)
<1>1. WindowOK(x) /\ x.left = {}
  BY DEF ValidWindow, LeftInv
<1>2. WindowOK(y) /\ y.win = "foc" /\ y.left = {}
  BY <1>1, ValueSet
<1>3. Edited(y, w) = CalcFoc(y)
  BY <1>2 DEF Edited, TofPages
<1> QED
  BY <1>2, <1>3, FocShown DEF StaysValid

\* Factors of the intensity.
FactorsOK(x, D) ==
  WindowOK(x) /\ x.win = "factors" /\ LeftInv(x) /\ OutputsBut(x, D)

LEMMA FactorsWindow ==
  ASSUME NEW x, FactorsOK(x, {})
  PROVE  ValidWindow(x) /\ x.win = "factors"
<1>1. SpurionInv(x) /\ RecipInv(x) /\ RealInv(x)
  BY DEF FactorsOK, SpurionInv, RecipInv, RealInv
<1> QED
  BY <1>1, FollowerWindow DEF FactorsOK, Followers

LEMMA FactorsShown ==
  ASSUME NEW x, NEW D, FactorsOK(x, D), NEW o \in {"bose", "dw", "lor"}
  PROVE  FactorsOK(Show(x, o, Uses(o)), D \ {o})
<1>1. WindowOK(x) /\ OutputsBut(x, D)
  BY DEF FactorsOK
<1>2. o \in DOMAIN x.out
  BY WindowOutputs DEF FactorsOK, WindowOK
<1> DEFINE r == Show(x, o, Uses(o))
<1>3. WindowOK(r) /\ r.win = x.win /\ r.left = x.left /\ OutputsBut(r, D \ {o})
  BY <1>1, <1>2, ShowStep
<1> HIDE DEF r
<1>4. LeftInv(r)
  BY <1>3 DEF FactorsOK, LeftInv
<1>5. FactorsOK(r, D \ {o})
  BY <1>3, <1>4 DEF FactorsOK
<1> QED
  BY <1>5 DEF r

LEMMA FactorsCalc ==
  ASSUME NEW x, NEW D, FactorsOK(x, D)
  PROVE  /\ FactorsOK(CalcBose(x), D \ {"bose"})
         /\ FactorsOK(CalcDW(x), D \ {"dw"})
         /\ FactorsOK(CalcLorentz(x), D \ {"lor"})
<1>1. /\ CalcBose(x) = Show(x, "bose", Uses("bose"))
      /\ CalcDW(x) = Show(x, "dw", Uses("dw"))
      /\ CalcLorentz(x) = Show(x, "lor", Uses("lor"))
  BY WindowUses DEF CalcBose, CalcDW, CalcLorentz
<1> QED
  BY <1>1, FactorsShown

LEMMA AnaCalc ==
  ASSUME NEW x, NEW D, FactorsOK(x, D)
  PROVE  FactorsOK(CalcAna(x), D \ {"ana"})
<1> DEFINE y == [x EXCEPT !.left = {"ana"}]
           z == [x EXCEPT !.left = {}]
           r == Show(z, "ana", Uses("ana"))
           F == D \ {"ana"}
<1>1. /\ WindowOK(x) /\ OutputsBut(x, D) /\ x.win = "factors"
      /\ x.left \subseteq {"ana"}
  BY DEF FactorsOK, LeftInv
<1>2. CalcAna(x) \in {y, r}
  BY WindowUses DEF CalcAna
<1>3. FactorsOK(y, F)
  <2>1. \A o \in DOMAIN x.out : o \in x.left \union D => o \in {"ana"} \union F
    BY <1>1
  <2> HIDE DEF F
  <2>2. WindowOK(y) /\ y.win = x.win /\ y.left = {"ana"} /\ OutputsBut(y, F)
    BY <1>1, <2>1, LeftChanged
  <2> HIDE DEF y
  <2> QED
    BY <1>1, <2>2 DEF FactorsOK, LeftInv
<1>4. FactorsOK(r, F)
  <2> DEFINE G == D \union {"ana"}
  <2>1. \A o \in DOMAIN x.out : o \in x.left \union D => o \in {} \union G
    BY <1>1
  <2>2. G \ {"ana"} = F
    OBVIOUS
  <2> HIDE DEF F, G
  <2>3. WindowOK(z) /\ z.win = x.win /\ z.left = {} /\ OutputsBut(z, G)
    BY <1>1, <2>1, LeftChanged
  <2> HIDE DEF z
  <2> DEFINE o == "ana"
  <2>4. o \in DOMAIN z.out /\ r = Show(z, o, Uses(o)) /\ G \ {o} = F
    BY <1>1, <2>2, <2>3, WindowOutputs DEF WindowOK
  <2> HIDE DEF r, o
  <2>5. WindowOK(r) /\ r.win = z.win /\ r.left = z.left /\ OutputsBut(r, F)
    <3>1. WindowOK(z) /\ OutputsBut(z, G)
      BY <2>3
    <3> QED
      BY <2>4, <3>1, ShowStep
  <2> QED
    BY <1>1, <2>3, <2>5 DEF FactorsOK, LeftInv
<1> QED
  BY <1>2, <1>3, <1>4

LEMMA FactorsTyped ==
  ASSUME NEW x, ValidWindow(x), x.win = "factors",
         NEW w \in Typed("factors") \union Checks("factors"),
         NEW v, NEW y, Entry(y, x, w, v)
  PROVE  StaysValid(Edited(y, w), x)
<1> DEFINE E == Users(x.win, w)
<1>1. WindowOK(x) /\ OutputsBut(x, {}) /\ LeftInv(x)
  BY WindowFollower
<1>2. w \in Fields(x.win)
  BY DEF Fields
<1>4. WindowOK(y) /\ y.win = x.win /\ y.left = x.left /\ OutputsBut(y, E)
  BY <1>1, <1>2, ValueTyped
<1> HIDE DEF E
<1>5. FactorsOK(y, E)
  BY <1>1, <1>4 DEF FactorsOK, LeftInv
<1>6. Edited(y, w) = FactorsEdited(y, w)
  BY <1>4 DEF Edited, TofPages
<1>7. FactorsOK(FactorsEdited(y, w), {})
  <2>1. CASE w \in {"boseT", "EMin", "EMax"}
    <3>1. E \ {"bose"} = {}
      BY <2>1, WindowOutputs, WindowUses DEF E, Users
    <3>2. FactorsEdited(y, w) = CalcBose(y)
      BY <2>1 DEF FactorsEdited
    <3>3. FactorsOK(CalcBose(y), E \ {"bose"})
      BY <1>5, FactorsCalc
    <3> QED
      BY <3>1, <3>2, <3>3
  <2>2. CASE w \in {"amu", "TD", "T", "QMin", "QMax"}
    <3>1. E \ {"dw"} = {}
      BY <2>2, WindowOutputs, WindowUses DEF E, Users
    <3>2. FactorsEdited(y, w) = CalcDW(y)
      BY <2>2 DEF FactorsEdited
    <3>3. FactorsOK(CalcDW(y), E \ {"dw"})
      BY <1>5, FactorsCalc
    <3> QED
      BY <3>1, <3>2, <3>3
  <2>3. CASE w \in {"d", "kfMin", "kfMax"}
    <3>1. E \ {"ana"} = {}
      BY <2>3, WindowOutputs, WindowUses DEF E, Users
    <3>2. FactorsEdited(y, w) = CalcAna(y)
      BY <2>3 DEF FactorsEdited
    <3>3. FactorsOK(CalcAna(y), E \ {"ana"})
      BY <1>5, AnaCalc
    <3> QED
      BY <3>1, <3>2, <3>3
  <2>4. CASE w \in {"ttMin", "ttMax", "pol"}
    <3>1. E \ {"lor"} = {}
      BY <2>4, WindowOutputs, WindowUses DEF E, Users
    <3>2. FactorsEdited(y, w) = CalcLorentz(y)
      BY <2>4 DEF FactorsEdited
    <3>3. FactorsOK(CalcLorentz(y), E \ {"lor"})
      BY <1>5, FactorsCalc
    <3> QED
      BY <3>1, <3>2, <3>3
  <2> QED
    BY <2>1, <2>2, <2>3, <2>4, WindowTyped, WindowChecks
<1> QED
  BY <1>6, <1>7, FactorsWindow DEF StaysValid

\* Spurions.
SpurionOK(x, D) ==
  /\ WindowOK(x) /\ x.win = "spurion" /\ x.left = {} /\ SpurionInv(x)
  /\ OutputsBut(x, D)

LEMMA SpurionWindow ==
  ASSUME NEW x, SpurionOK(x, {})
  PROVE  ValidWindow(x) /\ x.win = "spurion"
<1>1. LeftInv(x) /\ RecipInv(x) /\ RealInv(x)
  BY DEF SpurionOK, LeftInv, RecipInv, RealInv
<1> QED
  BY <1>1, FollowerWindow DEF SpurionOK, Followers

LEMMA SpurionShown ==
  ASSUME NEW x, NEW D, SpurionOK(x, D), NEW o \in {"inel", "tail"}
  PROVE  SpurionOK(Show(x, o, Uses(o)), D \ {o})
<1>1. WindowOK(x) /\ OutputsBut(x, D)
  BY DEF SpurionOK
<1>2. o \in DOMAIN x.out
  BY WindowOutputs DEF SpurionOK, WindowOK
<1> DEFINE r == Show(x, o, Uses(o))
<1>3. /\ WindowOK(r) /\ r.win = x.win /\ r.left = x.left /\ r.f = x.f
      /\ OutputsBut(r, D \ {o})
  BY <1>1, <1>2, ShowStep
<1> HIDE DEF r
<1>4. SpurionInv(r)
  BY <1>3 DEF SpurionOK, SpurionInv, SyncedE
<1>5. SpurionOK(r, D \ {o})
  BY <1>3, <1>4 DEF SpurionOK
<1> QED
  BY <1>5 DEF r

LEMMA SpurionPlots ==
  ASSUME NEW x, NEW D, SpurionOK(x, D)
  PROVE  /\ SpurionOK(CalcInel(x), D \ {"inel"})
         /\ SpurionOK(CalcBragg(x), D \ {"tail"})
<1>1. /\ CalcInel(x) = Show(x, "inel", Uses("inel"))
      /\ CalcBragg(x) = Show(x, "tail", Uses("tail"))
  BY WindowUses DEF CalcInel, CalcBragg
<1> QED
  BY <1>1, SpurionShown

LEMMA SpurionCalc ==
  ASSUME NEW x, WindowOK(x), x.win = "spurion", x.left = {}
  PROVE  SpurionOK(CalcSpurions(x), {})
<1> DEFINE s == [x EXCEPT !.f["E"] = SyncedE(x)]
           y == IF x.f["sync"] THEN s ELSE x
           D == {"inel", "tail"}
<1>1. /\ WindowOK(s) /\ s.win = x.win /\ s.left = x.left
      /\ s.f["E"] = SyncedE(x) /\ s.f["fixedEi"] = x.f["fixedEi"]
      /\ s.f["pos"] = x.f["pos"]
  <2> DEFINE e == "E"
  <2>1. Entry(s, x, e, SyncedE(x))
    BY DEF Same, WindowOK, Entry
  <2>2. e \in Fields(x.win) /\ {"fixedEi", "pos"} \subseteq Fields(x.win) \ {e}
    BY WindowTyped, WindowChecks, WindowKnown DEF Fields, Windows, Solvers
  <2> HIDE DEF s, e
  <2>3. /\ s.f[e] = SyncedE(x) /\ \A u \in DOMAIN x.f \ {e} : s.f[u] = x.f[u]
        /\ WindowOK(s) /\ s.win = x.win /\ s.left = x.left
    BY <2>1, <2>2, ValueSet
  <2>4. DOMAIN x.f = Fields(x.win)
    BY DEF WindowOK
  <2> QED
    BY <2>2, <2>3, <2>4 DEF e
<1> HIDE DEF s
<1>2. SyncedE(s) = SyncedE(x)
  BY <1>1 DEF SyncedE
<1>3. WindowOK(y) /\ y.win = "spurion" /\ y.left = {}
  BY <1>1
<1>4. SpurionInv(y)
  BY <1>1, <1>2 DEF SpurionInv
<1> HIDE DEF y
<1>5. OutputsBut(y, D)
  <2>1. DOMAIN y.out = D
    BY <1>3, WindowOutputs DEF WindowOK
  <2> QED
    BY <2>1 DEF OutputsBut
<1>6. SpurionOK(y, D)
  BY <1>3, <1>4, <1>5 DEF SpurionOK
<1>7. SpurionOK(CalcInel(y), D \ {"inel"})
  BY <1>6, SpurionPlots
<1>8. SpurionOK(CalcBragg(CalcInel(y)), (D \ {"inel"}) \ {"tail"})
  BY <1>7, SpurionPlots
<1>9. (D \ {"inel"}) \ {"tail"} = {}
  OBVIOUS
<1>10. CalcSpurions(x) = CalcBragg(CalcInel(y))
  BY DEF CalcSpurions, y, s
<1> QED
  BY <1>8, <1>9, <1>10

LEMMA SpurionTyped ==
  ASSUME NEW x, ValidWindow(x), x.win = "spurion",
         NEW w \in Typed("spurion") \union Checks("spurion"),
         NEW v, NEW y, Entry(y, x, w, v)
  PROVE  StaysValid(Edited(y, w), x)
<1> DEFINE E == Users(x.win, w)
<1>1. WindowOK(x) /\ OutputsBut(x, {}) /\ x.left = {} /\ SpurionInv(x)
  BY WindowFollower DEF LeftInv
<1>2. w \in Fields(x.win)
  BY DEF Fields
<1>4. /\ WindowOK(y) /\ y.win = x.win /\ y.left = x.left /\ OutputsBut(y, E)
      /\ \A u \in DOMAIN x.f \ {w} : y.f[u] = x.f[u]
  BY <1>1, <1>2, ValueTyped
<1> HIDE DEF E
<1>5. ASSUME w \notin {"fixedEi", "sync", "E"} PROVE SpurionOK(y, E)
  <2>1. {"fixedEi", "sync", "E", "pos"} \subseteq DOMAIN x.f
    BY <1>1, WindowTyped, WindowChecks, WindowKnown
    DEF WindowOK, Fields, Windows, Solvers
  <2>2. w # "pos"
    BY WindowTyped, WindowChecks
  <2>3. \A u \in {"fixedEi", "sync", "E", "pos"} : y.f[u] = x.f[u]
    BY <1>4, <1>5, <2>1, <2>2
  <2>4. SyncedE(y) = SyncedE(x)
    BY <2>3 DEF SyncedE
  <2>5. SpurionInv(y)
    BY <1>1, <1>4, <2>3, <2>4 DEF SpurionInv
  <2> QED
    BY <1>1, <1>4, <2>5 DEF SpurionOK
<1>6. Edited(y, w) = SpurionEdited(y, w)
  BY <1>4 DEF Edited, TofPages
<1>7. SpurionOK(SpurionEdited(y, w), {})
  <2>1. CASE w \in {"fixedEi", "sync", "E"}
    <3>1. SpurionEdited(y, w) = CalcSpurions(y)
      BY <2>1 DEF SpurionEdited
    <3> QED
      BY <1>1, <1>4, <3>1, SpurionCalc
  <2>2. CASE w \in {"filter", "order"}
    <3>1. E \ {"inel"} = {}
      BY <2>2, WindowOutputs, WindowUses DEF E, Users
    <3>2. SpurionEdited(y, w) = CalcInel(y)
      BY <2>2 DEF SpurionEdited
    <3>3. SpurionOK(CalcInel(y), E \ {"inel"})
      BY <1>5, <2>2, SpurionPlots
    <3> QED
      BY <3>1, <3>2, <3>3
  <2>3. CASE w \in {"QMin", "QMax"}
    <3>1. E \ {"tail"} = {}
      BY <2>3, WindowOutputs, WindowUses DEF E, Users
    <3>2. SpurionEdited(y, w) = CalcBragg(y)
      BY <2>3 DEF SpurionEdited
    <3>3. SpurionOK(CalcBragg(y), E \ {"tail"})
      BY <1>5, <2>3, SpurionPlots
    <3> QED
      BY <3>1, <3>2, <3>3
  <2> QED
    BY <2>1, <2>2, <2>3, WindowTyped, WindowChecks
<1> QED
  BY <1>6, <1>7, SpurionWindow DEF StaysValid

LEMMA SpurionMoved ==
  ASSUME NEW x, ValidWindow(x), x.win = "spurion", NEW p
  PROVE  StaysValid(CalcSpurions([x EXCEPT !.f["pos"] = p]), x)
<1> DEFINE y == [x EXCEPT !.f["pos"] = p]
           w == "pos"
<1>1. WindowOK(x) /\ x.left = {}
  BY DEF ValidWindow, LeftInv
<1>2. Entry(y, x, w, p)
  BY <1>1 DEF Same, WindowOK, Entry
<1>3. w \in Fields(x.win)
  BY WindowKnown DEF Fields, Windows, Solvers
<1> HIDE DEF y, w
<1>4. WindowOK(y) /\ y.win = x.win /\ y.left = x.left
  BY <1>1, <1>2, <1>3, ValueSet
<1>5. SpurionOK(CalcSpurions(y), {})
  BY <1>1, <1>4, SpurionCalc
<1> QED
  BY <1>5, SpurionWindow DEF StaysValid, y

\* Parameters in reciprocal space.
RecipOK(x, D) ==
  WindowOK(x) /\ x.win = "recip" /\ x.left = {} /\ OutputsBut(x, D)

RecipOutputs == {"fields", "incoming", "outgoing", "defs"}

\* Texts that are still empty.
Blank(x) == {o \in DOMAIN x.out : x.out[o] = <<>>}

LEMMA RecipWindow ==
  ASSUME NEW x, RecipOK(x, {}), RecipInv(x)
  PROVE  ValidWindow(x) /\ x.win = "recip"
<1>1. LeftInv(x) /\ SpurionInv(x) /\ RealInv(x)
  BY DEF RecipOK, LeftInv, SpurionInv, RealInv
<1> QED
  BY <1>1, FollowerWindow DEF RecipOK, Followers

LEMMA BlankShown ==
  ASSUME NEW x, NEW r, NEW o \in DOMAIN x.out, DOMAIN r.out = DOMAIN x.out,
         r.out[o] # <<>>, \A q \in DOMAIN x.out \ {o} : r.out[q] = x.out[q]
  PROVE  Blank(r) = Blank(x) \ {o}
  BY DEF Blank

LEMMA RecipShown ==
  ASSUME NEW x, NEW D, RecipOK(x, D), NEW o \in RecipOutputs
  PROVE  LET r == Show(x, o, Uses(o))
         IN  /\ RecipOK(r, D \ {o}) /\ r.f = x.f /\ Blank(r) = Blank(x) \ {o}
             /\ \A q \in DOMAIN x.out \ {o} : r.out[q] = x.out[q]
<1>1. WindowOK(x) /\ OutputsBut(x, D)
  BY DEF RecipOK
<1>2. o \in DOMAIN x.out
  BY WindowOutputs DEF RecipOK, WindowOK, RecipOutputs
<1> DEFINE r == Show(x, o, Uses(o))
<1>3. /\ WindowOK(r) /\ r.win = x.win /\ r.left = x.left /\ r.f = x.f
      /\ OutputsBut(r, D \ {o}) /\ r.out[o] # <<>>
      /\ DOMAIN r.out = DOMAIN x.out
      /\ \A q \in DOMAIN x.out \ {o} : r.out[q] = x.out[q]
  BY <1>1, <1>2, ShowStep
<1> HIDE DEF r
<1>4. RecipOK(r, D \ {o})
  BY <1>3 DEF RecipOK
<1>5. Blank(r) = Blank(x) \ {o}
  BY <1>2, <1>3, BlankShown
<1> QED
  BY <1>3, <1>4, <1>5 DEF r

LEMMA RecipTexts ==
  /\ \A x : OriginChanged(x) = Show(x, "defs", Uses("defs"))
  /\ \A x : KiChanged(x) = Show(x, "incoming", Uses("incoming"))
  /\ \A x : KfChanged(x) = Show(x, "outgoing", Uses("outgoing"))
  /\ \A x : Show(x, "fields", {"pos"}) = Show(x, "fields", Uses("fields"))
  BY WindowUses DEF OriginChanged, KiChanged, KfChanged

\* The origin or the direction of the axes changes.
LEMMA RecipEntered ==
  ASSUME NEW x, ValidWindow(x), x.win = "recip",
         NEW w \in {"origin", "em"}, NEW v, NEW y, Entry(y, x, w, v)
  PROVE  StaysValid(OriginChanged(y), x)
<1> DEFINE E == Users(x.win, w)
           o == "defs"
           r == Show(y, o, Uses(o))
<1>1. /\ WindowOK(x) /\ OutputsBut(x, {}) /\ x.left = {} /\ RecipInv(x)
      /\ DOMAIN x.out = RecipOutputs
  BY WindowFollower, WindowOutputs DEF LeftInv, WindowOK, RecipOutputs
<1>2. w \in Fields(x.win) /\ {"pos", "ki", "kf"} \subseteq Fields(x.win) \ {w}
  BY WindowTyped, WindowChecks, WindowKnown DEF Fields
<1>3. /\ WindowOK(y) /\ y.win = x.win /\ y.left = x.left /\ OutputsBut(y, E)
      /\ y.out = x.out /\ \A u \in DOMAIN x.f \ {w} : y.f[u] = x.f[u]
  BY <1>1, <1>2, ValueTyped
<1>4. E \ {o} = {}
  BY WindowOutputs, WindowUses DEF E, Users
<1>5. o \in RecipOutputs
  BY DEF RecipOutputs
<1> HIDE DEF E, o
<1>6. RecipOK(y, E)
  BY <1>1, <1>3 DEF RecipOK
<1>7. RecipOK(r, E \ {o}) /\ r.f = y.f /\ Blank(r) = Blank(y) \ {o}
  BY <1>5, <1>6, RecipShown
<1> HIDE DEF r
<1>8. /\ r.f["pos"] = x.f["pos"] /\ r.f["ki"] = x.f["ki"]
      /\ r.f["kf"] = x.f["kf"]
  BY <1>1, <1>2, <1>3, <1>7 DEF WindowOK
<1>9. Blank(x) = {} => \A q \in DOMAIN r.out : r.out[q] # <<>>
  BY <1>3, <1>7 DEF Blank
<1>10. RecipInv(r)
  BY <1>1, <1>8, <1>9 DEF RecipInv, Blank
<1>11. OriginChanged(y) = r
  BY RecipTexts DEF r, o
<1> QED
  BY <1>4, <1>7, <1>10, <1>11, RecipWindow DEF StaysValid

\* A text of one edit is made again if the edit changes.
Following(z, x, o, k) ==
  /\ Uses(o) = {k} /\ z.out[o] = x.out[o]
  /\ x.out[o] # <<>> \/ z.f[k] # x.f[k]

Followed(z, x, o, k) == IF z.f[k] # x.f[k] THEN Show(z, o, Uses(o)) ELSE z

Renewed(r, z, o, D) ==
  /\ RecipOK(r, D \ {o}) /\ r.f = z.f /\ Blank(r) = Blank(z) \ {o}
  /\ \A q \in DOMAIN z.out \ {o} : r.out[q] = z.out[q]

LEMMA WaveFollows ==
  ASSUME NEW x, RecipOK(x, {}), NEW z, NEW D, RecipOK(z, D), NEW k,
         NEW o \in RecipOutputs, Following(z, x, o, k)
  PROVE  Renewed(Followed(z, x, o, k), z, o, D)
<1>1. CASE z.f[k] # x.f[k]
  BY <1>1, RecipShown DEF Followed, Renewed
<1>2. CASE z.f[k] = x.f[k]
  <2>1. o \in DOMAIN x.out /\ DOMAIN z.out = DOMAIN x.out
    BY WindowOutputs DEF WindowOK, RecipOutputs, RecipOK
  <2>2. Made(z, o)
    <3>1. Made(x, o)
      BY <1>2, <2>1 DEF OutputsBut, RecipOK, Following
    <3>2. [w \in Uses(o) |-> z.f[w]] = [w \in Uses(o) |-> x.f[w]]
      BY <1>2 DEF Following
    <3> QED
      BY <3>1, <3>2 DEF Made, Following
  <2>3. OutputsBut(z, D \ {o})
    BY <2>2 DEF OutputsBut, RecipOK
  <2>4. Blank(z) = Blank(z) \ {o}
    BY <1>2 DEF Blank, Following
  <2> QED
    BY <1>2, <2>3, <2>4 DEF RecipOK, Followed, Renewed
<1> QED
  BY <1>1, <1>2

LEMMA RecipMoved ==
  ASSUME NEW x, ValidWindow(x), x.win = "recip", NEW p \in Positions
  PROVE  StaysValid(RecipChanged(x, p), x)
<1> DEFINE y == [x EXCEPT !.f["pos"] = p, !.f["ki"] = p.ki, !.f["kf"] = p.kf]
           i == IF y.f["ki"] # x.f["ki"]
                  THEN Show(y, "incoming", Uses("incoming")) ELSE y
           o == IF i.f["kf"] # x.f["kf"]
                  THEN Show(i, "outgoing", Uses("outgoing")) ELSE i
           s == Show(o, "fields", Uses("fields"))
           r == Show(s, "defs", Uses("defs"))
           D1 == RecipOutputs
           D2 == D1 \ {"incoming"}
           D3 == D2 \ {"outgoing"}
           D4 == D3 \ {"fields"}
           D5 == D4 \ {"defs"}
<1>1. /\ WindowOK(x) /\ OutputsBut(x, {}) /\ x.left = {} /\ RecipInv(x)
      /\ DOMAIN x.out = RecipOutputs
  BY WindowFollower, WindowOutputs DEF LeftInv, WindowOK, RecipOutputs
<1>2. {"pos", "ki", "kf"} \subseteq DOMAIN x.f
  BY <1>1, WindowKnown DEF WindowOK, Fields
<1>3. /\ DOMAIN y = DOMAIN x /\ y.win = x.win /\ y.left = x.left
      /\ y.out = x.out /\ y.plain = x.plain /\ y.radio = x.radio
      /\ DOMAIN y.f = DOMAIN x.f
      /\ y.f["pos"] = p /\ y.f["ki"] = p.ki /\ y.f["kf"] = p.kf
  BY <1>1, <1>2 DEF WindowOK
<1>4. RecipChanged(x, p) = r
  <2>1. y.f["ki"] = p.ki
    BY <1>3
  <2>2. i.f["kf"] = p.kf
    BY <1>3 DEF Show
  <2> HIDE DEF y
  <2> QED
    BY <2>1, <2>2, RecipTexts DEF RecipChanged, y
<1> HIDE DEF y
<1>5. RecipOK(y, D1)
  <2>1. WindowOK(y)
    BY <1>1, <1>3 DEF WindowOK
  <2>2. OutputsBut(y, D1)
    BY <1>1, <1>3 DEF OutputsBut
  <2> QED
    BY <1>1, <1>3, <2>1, <2>2 DEF RecipOK
<1>15. RecipOK(x, {})
  BY <1>1 DEF RecipOK
<1>6. p.ki \in Int \ {0} /\ p.kf \in Int \ {0}
  BY ParamAssumption
<1>7. /\ x.out["incoming"] # <<>> \/ y.f["ki"] # x.f["ki"]
      /\ x.out["outgoing"] # <<>> \/ y.f["kf"] # x.f["kf"]
  <2>1. CASE x.f["pos"] = NoPosition
    BY <1>1, <1>3, <1>6, <2>1 DEF RecipInv, NoPosition
  <2>2. CASE \A q \in DOMAIN x.out : x.out[q] # <<>>
    BY <1>1, <2>2 DEF RecipOutputs
  <2> QED
    BY <1>1, <2>1, <2>2 DEF RecipInv
<1> HIDE DEF D1, i
<1>8. /\ RecipOK(i, D2) /\ i.f = y.f /\ Blank(i) = Blank(y) \ {"incoming"}
      /\ \A q \in DOMAIN y.out \ {"incoming"} : i.out[q] = y.out[q]
  <2> DEFINE a == "incoming"
             k == "ki"
             j == Followed(y, x, a, k)
  <2>1. a \in RecipOutputs /\ Following(y, x, a, k)
    BY <1>3, <1>7, WindowUses DEF RecipOutputs, Following
  <2>2. i = j /\ D2 = D1 \ {a}
    BY DEF i, Followed
  <2> HIDE DEF a, k, D2
  <2>3. Renewed(j, y, a, D1)
    BY <1>5, <1>15, <2>1, WaveFollows
  <2> HIDE DEF j
  <2> QED
    BY <2>2, <2>3 DEF a, Renewed
<1> HIDE DEF D2, o
<1>9. /\ RecipOK(o, D3) /\ o.f = i.f /\ Blank(o) = Blank(i) \ {"outgoing"}
  <2> DEFINE a == "outgoing"
             k == "kf"
             j == Followed(i, x, a, k)
  <2>1. a \in RecipOutputs /\ Following(i, x, a, k)
    BY <1>1, <1>3, <1>7, <1>8, WindowUses DEF RecipOutputs, Following
  <2>2. o = j /\ D3 = D2 \ {a}
    BY DEF o, Followed
  <2> HIDE DEF a, k, D3
  <2>3. Renewed(j, i, a, D2)
    BY <1>8, <1>15, <2>1, WaveFollows
  <2> HIDE DEF j
  <2> QED
    BY <2>2, <2>3 DEF a, Renewed
<1> HIDE DEF D3, s
<1>10. RecipOK(s, D4) /\ s.f = o.f /\ Blank(s) = Blank(o) \ {"fields"}
  BY <1>9, RecipShown DEF s, RecipOutputs
<1> HIDE DEF D4, r
<1>11. RecipOK(r, D5) /\ r.f = s.f /\ Blank(r) = Blank(s) \ {"defs"}
  BY <1>10, RecipShown DEF r, RecipOutputs
<1>12. D5 = {}
  BY DEF D1, D2, D3, D4, RecipOutputs
<1>13. Blank(r) = {}
  <2>1. Blank(y) \subseteq RecipOutputs
    BY <1>1, <1>3 DEF Blank
  <2> QED
    BY <1>8, <1>9, <1>10, <1>11, <2>1 DEF RecipOutputs
<1>14. RecipInv(r)
  BY <1>3, <1>8, <1>9, <1>10, <1>11, <1>13 DEF RecipInv, Blank
<1> HIDE DEF D5
<1> QED
  BY <1>1, <1>4, <1>11, <1>12, <1>14, RecipWindow DEF StaysValid

LEMMA RecipSetG ==
  ASSUME NEW x, ValidWindow(x), x.win = "recip"
  PROVE  StaysValid(SetGOrigin(x), x)
<1> DEFINE v == x.f["pos"].other
           w == "origin"
           y == [x EXCEPT !.f["origin"] = v]
<1>1. WindowOK(x)
  BY DEF ValidWindow
<1> HIDE DEF v
<1>2. Entry(y, x, w, v)
  BY <1>1 DEF Same, WindowOK, Entry
<1>3. w \in {"origin", "em"}
  OBVIOUS
<1> HIDE DEF y, w
<1>4. StaysValid(OriginChanged(y), x)
  BY <1>2, <1>3, RecipEntered
<1> QED
  BY <1>4 DEF SetGOrigin, y, v

LEMMA RecipTyped ==
  ASSUME NEW x, ValidWindow(x), x.win = "recip",
         NEW w \in Typed("recip") \union Checks("recip"),
         NEW v, NEW y, Entry(y, x, w, v)
  PROVE  StaysValid(Edited(y, w), x)
<1>1. w \in {"origin", "em"}
  BY WindowTyped, WindowChecks
<1>2. y.win = "recip"
  BY DEF ValidWindow, WindowOK, Entry, Same
<1>3. Edited(y, w) = OriginChanged(y)
  BY <1>2 DEF Edited, TofPages
<1> QED
  BY <1>1, <1>3, RecipEntered

\* Parameters in real space.
RealOutputs == {"angles", "metrics", "vecs", "rot", "cell", "atoms"}

RealOK(x, D) ==
  WindowOK(x) /\ x.win = "real" /\ LeftInv(x) /\ OutputsBut(x, D)

LEMMA RealFacts ==
  ASSUME NEW x, NEW D, RealOK(x, D)
  PROVE  /\ WindowOK(x) /\ x.win = "real" /\ OutputsBut(x, D)
         /\ x.left \in {{}, Untold} /\ DOMAIN x.out = RealOutputs
         /\ DOMAIN x.f = {"vec1", "vec2", "coords", "to", "k", "norm", "x", "y",
                          "z", "pos", "latt", "metrics"}
<1>1. Fields("real") = {"vec1", "vec2", "coords", "to", "k", "norm", "x", "y",
                        "z", "pos", "latt", "metrics"}
  BY WindowTyped, WindowChecks, WindowKnown DEF Fields
<1> QED
  BY <1>1, WindowOutputs DEF RealOK, WindowOK, LeftInv, RealOutputs

LEMMA RealWindow ==
  ASSUME NEW x, RealOK(x, {}), RealInv(x)
  PROVE  ValidWindow(x) /\ x.win = "real"
<1>1. SpurionInv(x) /\ RecipInv(x)
  BY DEF RealOK, SpurionInv, RecipInv
<1> QED
  BY <1>1, FollowerWindow DEF RealOK, Followers

\* One text is made again.
OthersKept(r, x, o) == \A q \in RealOutputs \ {o} : r.out[q] = x.out[q]

RealRenewed(r, x, o, D) ==
  /\ RealOK(r, D \ {o}) /\ r.f = x.f /\ r.left = x.left /\ OthersKept(r, x, o)
  /\ r.out[o] # <<>>

LEMMA RealShown ==
  ASSUME NEW x, NEW D, RealOK(x, D), NEW o \in RealOutputs
  PROVE  RealRenewed(Show(x, o, Uses(o)), x, o, D)
<1> DEFINE r == Show(x, o, Uses(o))
<1>1. /\ WindowOK(x) /\ x.win = "real" /\ OutputsBut(x, D)
      /\ DOMAIN x.out = RealOutputs
  BY RealFacts
<1>2. /\ WindowOK(r) /\ r.win = x.win /\ r.left = x.left /\ r.f = x.f
      /\ OutputsBut(r, D \ {o}) /\ r.out[o] # <<>>
      /\ \A q \in DOMAIN x.out \ {o} : r.out[q] = x.out[q]
  BY <1>1, ShowStep
<1> HIDE DEF r
<1>3. LeftInv(r)
  BY <1>1, <1>2 DEF RealOK, LeftInv
<1>4. RealOK(r, D \ {o})
  BY <1>1, <1>2, <1>3 DEF RealOK
<1>5. RealRenewed(r, x, o, D)
  BY <1>1, <1>2, <1>4 DEF RealRenewed, OthersKept
<1> QED
  BY <1>5 DEF r

\* The vectors and the rotation are calculated if there is a crystal, and there
\* are none before.
VecsDone(r, x, D) ==
  /\ RealOK(r, D \ {"vecs"}) /\ r.f = x.f /\ r.left = x.left
  /\ OthersKept(r, x, "vecs")
  /\ r.out["vecs"] = <<>> <=> x.f["metrics"] = NoCrystal

LEMMA VecsCalc ==
  ASSUME NEW x, NEW D, RealOK(x, D),
         x.f["metrics"] = NoCrystal => x.out["vecs"] = <<>>
  PROVE  VecsDone(CalcVecs(x), x, D)
<1>1. CASE x.f["metrics"] = NoCrystal
  <2>1. OutputsBut(x, D \ {"vecs"})
    BY <1>1 DEF OutputsBut, RealOK
  <2>2. RealOK(x, D \ {"vecs"})
    BY <2>1 DEF RealOK
  <2> QED
    BY <1>1, <2>2 DEF CalcVecs, VecsDone, OthersKept
<1>2. CASE x.f["metrics"] # NoCrystal
  <2> DEFINE o == "vecs"
  <2>1. CalcVecs(x) = Show(x, o, Uses(o)) /\ o \in RealOutputs
    BY <1>2, WindowUses DEF CalcVecs, RealOutputs
  <2> HIDE DEF o
  <2>2. RealRenewed(CalcVecs(x), x, o, D)
    BY <2>1, RealShown
  <2> QED
    BY <1>2, <2>2 DEF RealRenewed, VecsDone, o
<1> QED
  BY <1>1, <1>2

RotDone(r, x, D) ==
  /\ RealOK(r, D \ {"rot"}) /\ r.left = x.left /\ OthersKept(r, x, "rot")
  /\ \A w \in DOMAIN x.f \ {"z"} : r.f[w] = x.f[w]
  /\ r.out["rot"] = <<>> <=> x.f["latt"] = NoCrystal
  /\ x.f["latt"] # NoCrystal => r.f["z"] = <<x.f["x"], x.f["y"]>>

LEMMA RotCalc ==
  ASSUME NEW x, NEW D, RealOK(x, D),
         x.f["latt"] = NoCrystal => x.out["rot"] = <<>>
  PROVE  RotDone(CalcCrystalRot(x), x, D)
<1>1. CASE x.f["latt"] = NoCrystal
  <2>1. OutputsBut(x, D \ {"rot"})
    BY <1>1 DEF OutputsBut, RealOK
  <2>2. RealOK(x, D \ {"rot"})
    BY <2>1 DEF RealOK
  <2> QED
    BY <1>1, <2>2 DEF CalcCrystalRot, RotDone, OthersKept
<1>2. CASE x.f["latt"] # NoCrystal
  <2> DEFINE v == <<x.f["x"], x.f["y"]>>
             y == [x EXCEPT !.f["z"] = v]
             w == "z"
             o == "rot"
  <2>0. /\ WindowOK(x) /\ x.win = "real" /\ OutputsBut(x, D)
        /\ DOMAIN x.out = RealOutputs /\ w \in Fields(x.win)
    BY RealFacts DEF WindowOK
  <2>1. CalcCrystalRot(x) = Show(y, o, Uses(o)) /\ o \in RealOutputs
    BY <1>2, WindowUses DEF CalcCrystalRot, RealOutputs
  <2> HIDE DEF v
  <2>2. Entry(y, x, w, v)
    BY <2>0 DEF Entry, Same, WindowOK
  <2>3. \A q \in RealOutputs : w \notin Uses(q)
    BY WindowUses DEF RealOutputs
  <2> HIDE DEF y, w, o
  <2>4. /\ y.f[w] = v /\ \A u \in DOMAIN x.f \ {w} : y.f[u] = x.f[u]
        /\ WindowOK(y) /\ y.win = x.win /\ y.left = x.left /\ y.out = x.out
    <3>1. WindowOK(x) /\ w \in Fields(x.win)
      BY <2>0
    <3> QED
      BY <2>2, <3>1, ValueSet
  <2>5. ASSUME NEW q \in DOMAIN y.out \ (y.left \union D)
        PROVE  y.out[q] = <<>> \/ Made(y, q)
    <3>1. /\ q \in DOMAIN x.out /\ q \notin x.left /\ q \notin D
          /\ w \notin Uses(q) /\ Uses(q) \subseteq DOMAIN x.f
      BY <2>0, <2>3, <2>4, <2>5, UsesFields DEF WindowOK
    <3>2. \A u \in Uses(q) : y.f[u] = x.f[u]
      BY <2>4, <3>1
    <3> QED
      BY <2>0, <2>4, <3>1, <3>2, MadeKept
  <2>6. RealOK(y, D)
    <3>1. OutputsBut(y, D)
      BY <2>5 DEF OutputsBut
    <3> QED
      BY <2>0, <2>4, <3>1 DEF RealOK, LeftInv
  <2>7. RealRenewed(CalcCrystalRot(x), y, o, D)
    BY <2>1, <2>6, RealShown
  <2> DEFINE r == CalcCrystalRot(x)
  <2> HIDE DEF r
  <2>8. /\ RealOK(r, D \ {o}) /\ r.left = x.left /\ OthersKept(r, x, o)
        /\ \A u \in DOMAIN x.f \ {w} : r.f[u] = x.f[u]
        /\ r.out[o] # <<>> /\ r.f[w] = v
    <3>1. RealRenewed(r, y, o, D)
      BY <2>7 DEF r
    <3>2. RealOK(r, D \ {o}) /\ r.left = x.left
      BY <2>4, <3>1 DEF RealRenewed
    <3>3. OthersKept(r, x, o)
      BY <2>4, <3>1 DEF RealRenewed, OthersKept
    <3>4. r.f = y.f /\ r.out[o] # <<>>
      BY <3>1 DEF RealRenewed
    <3> QED
      BY <2>4, <3>2, <3>3, <3>4
  <2>9. \A u \in DOMAIN x.f \ {"z"} : r.f[u] = x.f[u]
    BY <2>8 DEF w
  <2>10. RealOK(r, D \ {"rot"}) /\ OthersKept(r, x, "rot") /\ r.out["rot"] # <<>>
    BY <2>8 DEF o
  <2>11. r.f["z"] = <<x.f["x"], x.f["y"]>>
    BY <2>8 DEF w, v
  <2>12. RotDone(r, x, D)
    BY <1>2, <2>8, <2>9, <2>10, <2>11 DEF RotDone
  <2> QED
    BY <2>12 DEF r
<1> QED
  BY <1>1, <1>2

\* What the dialog knows of crystals, and which texts it has, stays as it was.
LEMMA RealKept ==
  ASSUME NEW x, RealInv(x), x.win = "real", NEW r, r.left = x.left,
         \A w \in {"latt", "metrics", "x", "y", "z"} : r.f[w] = x.f[w],
         OthersKept(r, x, "angles")
  PROVE  RealInv(r)
<1>1. \A q \in {"metrics", "vecs", "rot", "cell", "atoms"} :
        r.out[q] = x.out[q]
  BY DEF OthersKept, RealOutputs
<1> QED
  BY <1>1 DEF RealInv

LEMMA RealMoved ==
  ASSUME NEW x, ValidWindow(x), x.win = "real", NEW p
  PROVE  StaysValid(RealChanged(x, p), x)
<1> DEFINE y == [x EXCEPT !.f["pos"] = p]
           w == "pos"
           o == "angles"
           E == Users(x.win, w)
           r == Show(y, o, Uses(o))
<1>0. RealChanged(x, p) = r
  BY WindowUses DEF RealChanged
<1>1. WindowOK(x) /\ OutputsBut(x, {}) /\ LeftInv(x) /\ RealInv(x)
  BY WindowFollower
<1>2. Entry(y, x, w, p)
  BY <1>1 DEF Same, WindowOK, Entry
<1>3. w \in Fields(x.win)
  BY WindowKnown DEF Fields
<1>4. o \in RealOutputs /\ E \ {o} = {}
  BY WindowOutputs, WindowUses DEF RealOutputs, E, Users
<1>5. \A u \in {"latt", "metrics", "x", "y", "z"} : u # w /\ u \in DOMAIN x.f
  BY <1>1, RealFacts DEF RealOK
<1> HIDE DEF y, w, o, E
<1>6. /\ WindowOK(y) /\ y.win = x.win /\ y.out = x.out /\ y.left = x.left
      /\ \A u \in DOMAIN x.f \ {w} : y.f[u] = x.f[u]
      /\ OutputsBut(y, E)
  <2>1. OutputsBut(y, Users(x.win, w))
    BY <1>1, <1>2, <1>3, ValueTyped
  <2> QED
    BY <1>1, <1>2, <1>3, <2>1, ValueSet DEF E
<1>7. RealOK(y, E)
  BY <1>1, <1>6 DEF RealOK, LeftInv
<1>8. RealRenewed(r, y, o, E)
  BY <1>4, <1>7, RealShown
<1> HIDE DEF r
<1>9. RealOK(r, {})
  BY <1>4, <1>8 DEF RealRenewed
<1>10. RealInv(r)
  <2>1. /\ r.left = x.left
        /\ \A u \in {"latt", "metrics", "x", "y", "z"} : r.f[u] = x.f[u]
    BY <1>5, <1>6, <1>8 DEF RealRenewed
  <2>2. OthersKept(r, x, o)
    BY <1>6, <1>8 DEF RealRenewed, OthersKept
  <2> QED
    BY <1>1, <1>4, <2>1, <2>2, RealKept DEF o
<1> QED
  BY <1>0, <1>9, <1>10, RealWindow DEF StaysValid, r

LEMMA RealTyped ==
  ASSUME NEW x, ValidWindow(x), x.win = "real", NEW w \in Typed("real"),
         NEW v, NEW y, Entry(y, x, w, v)
  PROVE  StaysValid(Edited(y, w), x)
<1> DEFINE E == Users(x.win, w)
<1>1. WindowOK(x) /\ OutputsBut(x, {}) /\ LeftInv(x) /\ RealInv(x)
  BY WindowFollower
<1>2. w \in Fields(x.win) /\ w \notin {"latt", "metrics"}
  BY WindowTyped DEF Fields
<1>3. {"latt", "metrics", "x", "y", "z"} \subseteq DOMAIN x.f
  BY <1>1, RealFacts DEF RealOK
<1> HIDE DEF E
<1>4. /\ WindowOK(y) /\ y.win = x.win /\ y.out = x.out /\ y.left = x.left
      /\ \A u \in DOMAIN x.f \ {w} : y.f[u] = x.f[u]
      /\ OutputsBut(y, E)
  <2>1. WindowOK(x)
    BY <1>1
  <2>2. OutputsBut(y, Users(x.win, w))
    BY <1>1, <1>2, ValueTyped
  <2>3. /\ WindowOK(y) /\ y.win = x.win /\ y.out = x.out /\ y.left = x.left
        /\ \A u \in DOMAIN x.f \ {w} : y.f[u] = x.f[u]
    BY <1>2, <2>1, ValueSet
  <2> QED
    BY <2>2, <2>3 DEF E
<1>5. RealOK(y, E)
  BY <1>1, <1>4 DEF RealOK, LeftInv
<1>6. y.f["latt"] = x.f["latt"] /\ y.f["metrics"] = x.f["metrics"]
  BY <1>2, <1>3, <1>4
<1>7. Edited(y, w) = RealEdited(y, w)
  BY <1>4 DEF Edited, TofPages
<1>8. CASE w \in {"vec1", "vec2"}
  <2> DEFINE r == CalcVecs(y)
  <2>1. y.f["metrics"] = NoCrystal => y.out["vecs"] = <<>>
    BY <1>1, <1>4, <1>6 DEF RealInv
  <2>2. VecsDone(r, y, E)
    BY <1>5, <2>1, VecsCalc
  <2> HIDE DEF r
  <2>3. E \ {"vecs"} = {}
    BY <1>8, WindowOutputs, WindowUses DEF E, Users
  <2>4. \A u \in {"latt", "metrics", "x", "y", "z"} : r.f[u] = x.f[u]
    BY <1>3, <1>4, <1>8, <2>2 DEF VecsDone
  <2>5. \A q \in {"metrics", "rot", "cell", "atoms"} : r.out[q] = x.out[q]
    BY <1>4, <2>2 DEF VecsDone, OthersKept, RealOutputs
  <2>6. /\ r.left = x.left
        /\ r.out["vecs"] = <<>> <=> r.f["metrics"] = NoCrystal
    BY <1>4, <1>6, <2>2, <2>4 DEF VecsDone
  <2>7. RealInv(r)
    BY <1>1, <2>4, <2>5, <2>6 DEF RealInv
  <2>8. RealOK(r, {})
    BY <2>2, <2>3 DEF VecsDone
  <2>9. RealEdited(y, w) = r
    BY <1>8 DEF RealEdited, r
  <2> QED
    BY <1>7, <2>7, <2>8, <2>9, RealWindow DEF StaysValid
<1>9. CASE w \notin {"vec1", "vec2"}
  <2> DEFINE r == CalcCrystalRot(y)
  <2>1. y.f["latt"] = NoCrystal => y.out["rot"] = <<>>
    BY <1>1, <1>4, <1>6 DEF RealInv
  <2>2. RotDone(r, y, E)
    BY <1>5, <2>1, RotCalc
  <2> HIDE DEF r
  <2>3. E \ {"rot"} = {}
    BY <1>2, <1>9, WindowOutputs, WindowUses, WindowTyped DEF E, Users
  <2>0. DOMAIN y.f = DOMAIN x.f
    BY <1>1, <1>4 DEF WindowOK
  <2>4. /\ r.f["latt"] = x.f["latt"] /\ r.f["metrics"] = x.f["metrics"]
        /\ r.f["x"] = y.f["x"] /\ r.f["y"] = y.f["y"]
    BY <1>3, <1>6, <2>0, <2>2 DEF RotDone
  <2>5. \A q \in {"metrics", "vecs", "cell", "atoms"} : r.out[q] = x.out[q]
    BY <1>4, <2>2 DEF RotDone, OthersKept, RealOutputs
  <2>6. /\ r.left = x.left
        /\ r.out["rot"] = <<>> <=> r.f["latt"] = NoCrystal
        /\ r.f["latt"] # NoCrystal => r.f["z"] = <<r.f["x"], r.f["y"]>>
    BY <1>4, <1>6, <2>2, <2>4 DEF RotDone
  <2>7. RealInv(r)
    BY <1>1, <2>4, <2>5, <2>6 DEF RealInv
  <2>8. RealOK(r, {})
    BY <2>2, <2>3 DEF RotDone
  <2>9. RealEdited(y, w) = r
    BY <1>9 DEF RealEdited, r
  <2> QED
    BY <1>7, <2>7, <2>8, <2>9, RealWindow DEF StaysValid
<1> QED
  BY <1>8, <1>9

\* Another crystal.
AtomsDone(r, x, c) ==
  /\ r.f = x.f /\ r.left = x.left /\ OthersKept(r, x, "atoms")
  /\ r.out["atoms"] # <<>> <=> c.grouped

LEMMA AtomsShown ==
  ASSUME NEW x, NEW D, RealOK(x, D), NEW c \in Crystals, x.f["latt"] = c
  PROVE  LET r == ShowAtomLists(x, c)
         IN  RealOK(r, D \ {"atoms"}) /\ AtomsDone(r, x, c)
<1> DEFINE made == [latt |-> c]
           v == IF c.grouped THEN made ELSE <<>>
           r == ShowAtomLists(x, c)
<1>1. made # <<>> /\ made = [w \in Uses("atoms") |-> x.f[w]]
  <2>1. made = [w \in {"latt"} |-> x.f[w]]
    OBVIOUS
  <2>2. [w \in {"latt"} |-> x.f[w]] # <<>>
    BY NothingShown
  <2> QED
    BY <2>1, <2>2, WindowUses
<1>2. c.grouped \in BOOLEAN
  BY ParamAssumption
<1> HIDE DEF made
<1>3. v # <<>> <=> c.grouped
  BY <1>1, <1>2
<1>4. v = <<>> \/ v = [w \in Uses("atoms") |-> x.f[w]]
  BY <1>1
<1>5. /\ WindowOK(x) /\ x.win = "real" /\ OutputsBut(x, D)
      /\ DOMAIN x.out = RealOutputs
  BY RealFacts
<1>6. r = [x EXCEPT !.out = [x.out EXCEPT !["atoms"] = v]]
  BY DEF ShowAtomLists, made
<1> HIDE DEF v, r
<1>7. /\ Same(r, x, {"out"}) /\ r.out = [x.out EXCEPT !["atoms"] = v]
  BY <1>5, <1>6 DEF Same, WindowOK
<1>8. /\ DOMAIN r.out = DOMAIN x.out /\ r.out["atoms"] = v
      /\ OthersKept(r, x, "atoms")
  BY <1>5, <1>7 DEF OthersKept, RealOutputs
<1>9. /\ r.f = x.f /\ r.left = x.left /\ r.plain = x.plain /\ r.win = x.win
  BY <1>5, <1>7 DEF Same, WindowOK
<1>10. WindowOK(r)
  <2>1. Same(r, x, {"f", "plain", "bad", "left", "out"})
    BY <1>7 DEF Same
  <2>2. r.plain \in BOOLEAN /\ DOMAIN r.f = DOMAIN x.f
    BY <1>5, <1>9 DEF WindowOK
  <2> QED
    BY <1>5, <1>8, <2>1, <2>2, WindowKept
<1>11. OutputsBut(r, D \ {"atoms"})
  <2> SUFFICES ASSUME NEW q \in DOMAIN r.out \ (r.left \union (D \ {"atoms"}))
               PROVE  r.out[q] = <<>> \/ Made(r, q)
    BY DEF OutputsBut
  <2>1. CASE q = "atoms"
    BY <1>4, <1>8, <1>9, <2>1 DEF Made
  <2>2. CASE q # "atoms"
    <3>1. r.out[q] = x.out[q] /\ q \in DOMAIN x.out /\ q \notin x.left
          /\ q \notin D
      BY <1>5, <1>8, <1>9, <2>2 DEF OthersKept
    <3>2. x.out[q] = <<>> \/ Made(x, q)
      BY <1>5, <3>1 DEF OutputsBut
    <3> QED
      BY <1>9, <3>1, <3>2 DEF Made
  <2> QED
    BY <2>1, <2>2
<1>12. RealOK(r, D \ {"atoms"})
  BY <1>5, <1>9, <1>10, <1>11 DEF RealOK, LeftInv
<1>13. AtomsDone(r, x, c)
  BY <1>3, <1>8, <1>9 DEF AtomsDone
<1> QED
  BY <1>12, <1>13 DEF r

LEMMA CrystalShown ==
  ASSUME NEW x, ValidWindow(x), x.win = "real", NEW c \in Crystals
  PROVE  StaysValid(CrystalChanged(x, c), x)
<1> DEFINE y == [x EXCEPT !.f["latt"] = c, !.f["metrics"] = c, !.left = {}]
           v == CalcVecs(y)
           z == CalcCrystalRot(v)
           m == Show(z, "metrics", Uses("metrics"))
           l == Show(m, "cell", Uses("cell"))
           r == ShowAtomLists(l, c)
           D1 == RealOutputs \ {"angles"}
           D2 == D1 \ {"vecs"}
           D3 == D2 \ {"rot"}
           D4 == D3 \ {"metrics"}
           D5 == D4 \ {"cell"}
           D6 == D5 \ {"atoms"}
<1>0. CrystalChanged(x, c) = r
  BY WindowUses DEF CrystalChanged, ShowCell
<1>1. WindowOK(x) /\ OutputsBut(x, {}) /\ LeftInv(x) /\ RealInv(x)
  BY WindowFollower
<1>2. /\ DOMAIN x.out = RealOutputs /\ x.left \in {{}, Untold}
      /\ {"latt", "metrics", "pos"} \subseteq DOMAIN x.f
  BY <1>1, RealFacts DEF RealOK
<1>3. c # NoCrystal
  BY ParamAssumption
<1>4. /\ DOMAIN y = DOMAIN x /\ y.win = x.win /\ y.left = {}
      /\ y.out = x.out /\ y.plain = x.plain /\ y.radio = x.radio
      /\ DOMAIN y.f = DOMAIN x.f
      /\ y.f["pos"] = x.f["pos"] /\ y.f["latt"] = c /\ y.f["metrics"] = c
  BY <1>1, <1>2 DEF WindowOK
<1> HIDE DEF y
<1>5. RealOK(y, D1)
  <2>1. WindowOK(y)
    BY <1>1, <1>4 DEF WindowOK
  <2>2. ASSUME NEW q \in DOMAIN y.out \ (y.left \union D1)
        PROVE  y.out[q] = <<>> \/ Made(y, q)
    <3>1. q = "angles" /\ q \in DOMAIN x.out /\ q \notin x.left
      BY <1>2, <1>4, <2>2 DEF Untold
    <3>2. Uses(q) = {"pos"}
      BY <3>1, WindowUses
    <3>3. \A w \in Uses(q) : y.f[w] = x.f[w]
      BY <1>4, <3>2
    <3> QED
      BY <1>1, <1>4, <3>1, <3>3, MadeKept
  <2>3. OutputsBut(y, D1)
    BY <2>2 DEF OutputsBut
  <2> QED
    BY <1>4, <2>1, <2>3 DEF RealOK, LeftInv
<1> HIDE DEF D1, v
<1>6. VecsDone(v, y, D1)
  BY <1>3, <1>4, <1>5, VecsCalc DEF v
<1> HIDE DEF D2, z
<1>7. RealOK(v, D2) /\ v.f = y.f
  BY <1>6 DEF VecsDone, D2
<1>8. RotDone(z, v, D2)
  <2>1. v.f["latt"] # NoCrystal
    BY <1>3, <1>4, <1>7
  <2> QED
    BY <1>7, <2>1, RotCalc DEF z
<1> HIDE DEF D3, m
<1>9. RealOK(z, D3)
  BY <1>8 DEF RotDone, D3
<1>10. RealRenewed(m, z, "metrics", D3)
  BY <1>9, RealShown DEF m, RealOutputs
<1> HIDE DEF D4, l
<1>11. RealOK(m, D4)
  BY <1>10 DEF RealRenewed, D4
<1>12. RealRenewed(l, m, "cell", D4)
  BY <1>11, RealShown DEF l, RealOutputs
<1> HIDE DEF D5, r
<1>13. RealOK(l, D5)
  BY <1>12 DEF RealRenewed, D5
<1>14. DOMAIN v.f = DOMAIN x.f
  BY <1>4, <1>7
<1>15. /\ l.f["latt"] = c /\ l.f["metrics"] = c
       /\ l.f["z"] = <<l.f["x"], l.f["y"]>>
  <2>1. v.f["latt"] = c /\ v.f["metrics"] = c
    BY <1>4, <1>7
  <2>2. {"latt", "metrics", "x", "y"} \subseteq DOMAIN v.f
    BY <1>7, RealFacts
  <2>3. \A w \in {"latt", "metrics", "x", "y"} : z.f[w] = v.f[w]
    BY <1>8, <2>2 DEF RotDone
  <2>4. z.f["z"] = <<v.f["x"], v.f["y"]>>
    BY <1>3, <1>8, <2>1 DEF RotDone
  <2>5. l.f = z.f
    BY <1>10, <1>12 DEF RealRenewed
  <2> QED
    BY <2>1, <2>3, <2>4, <2>5
<1>16. RealOK(r, D6) /\ AtomsDone(r, l, c)
  BY <1>13, <1>15, AtomsShown DEF r
<1>17. RealOK(r, {})
  <2>1. D6 = {}
    BY DEF D1, D2, D3, D4, D5, RealOutputs
  <2> QED
    BY <1>16, <2>1
<1>18. RealInv(r)
  <2>1. v.out["vecs"] # <<>>
    BY <1>3, <1>4, <1>6 DEF VecsDone
  <2>2. z.out["vecs"] # <<>> /\ z.out["rot"] # <<>>
    BY <1>3, <1>4, <1>7, <1>8, <2>1 DEF RotDone, OthersKept, RealOutputs
  <2>3. m.out["vecs"] # <<>> /\ m.out["rot"] # <<>> /\ m.out["metrics"] # <<>>
    BY <1>10, <2>2 DEF RealRenewed, OthersKept, RealOutputs
  <2>4. /\ l.out["vecs"] # <<>> /\ l.out["rot"] # <<>>
        /\ l.out["metrics"] # <<>> /\ l.out["cell"] # <<>>
    BY <1>12, <2>3 DEF RealRenewed, OthersKept, RealOutputs
  <2>5. \A q \in {"metrics", "vecs", "rot", "cell"} : r.out[q] # <<>>
    BY <1>16, <2>4 DEF AtomsDone, OthersKept, RealOutputs
  <2>6. r.out["atoms"] # <<>> <=> c.grouped
    BY <1>16 DEF AtomsDone
  <2>7. r.f = l.f
    BY <1>16 DEF AtomsDone
  <2> QED
    BY <1>3, <1>15, <2>5, <2>6, <2>7 DEF RealInv
<1> HIDE DEF D6
<1> QED
  BY <1>0, <1>17, <1>18, RealWindow DEF StaysValid

LEMMA CrystalUntold ==
  ASSUME NEW x, ValidWindow(x), x.win = "real", NEW c \in Crystals
  PROVE  StaysValid(CrystalFails(x, c), x)
<1> DEFINE y == [x EXCEPT !.f["latt"] = c, !.left = Untold]
<1>0. CrystalFails(x, c) = y
  BY DEF CrystalFails, Untold
<1>1. WindowOK(x) /\ OutputsBut(x, {}) /\ LeftInv(x) /\ RealInv(x)
  BY WindowFollower
<1>2. /\ DOMAIN x.out = RealOutputs /\ x.left \in {{}, Untold}
      /\ {"latt", "metrics", "pos", "vec1", "vec2"} \subseteq DOMAIN x.f
  BY <1>1, RealFacts DEF RealOK
<1>3. c # NoCrystal
  BY ParamAssumption
<1>4. /\ DOMAIN y = DOMAIN x /\ y.win = x.win /\ y.left = Untold
      /\ y.out = x.out /\ y.plain = x.plain /\ y.radio = x.radio
      /\ DOMAIN y.f = DOMAIN x.f /\ y.f["latt"] = c
      /\ \A w \in DOMAIN x.f \ {"latt"} : y.f[w] = x.f[w]
  BY <1>1, <1>2 DEF WindowOK
<1> HIDE DEF y
<1>5. RealOK(y, {})
  <2>1. WindowOK(y)
    BY <1>1, <1>4 DEF WindowOK
  <2>2. ASSUME NEW q \in DOMAIN y.out \ (y.left \union {})
        PROVE  y.out[q] = <<>> \/ Made(y, q)
    <3>1. /\ q \in {"angles", "metrics", "vecs"} /\ q \in DOMAIN x.out
          /\ q \notin x.left
      BY <1>2, <1>4, <2>2 DEF Untold, RealOutputs
    <3>2. Uses(q) \subseteq {"pos", "metrics", "vec1", "vec2"}
      BY <3>1, WindowUses
    <3>3. \A w \in Uses(q) : y.f[w] = x.f[w]
      BY <1>2, <1>4, <3>2
    <3> QED
      BY <1>1, <1>4, <3>1, <3>3, MadeKept
  <2>3. OutputsBut(y, {})
    BY <2>2 DEF OutputsBut
  <2> QED
    BY <1>4, <2>1, <2>3 DEF RealOK, LeftInv
<1>6. RealInv(y)
  <2>1. y.left # {}
    BY <1>4 DEF Untold
  <2>2. y.f["metrics"] = x.f["metrics"]
    BY <1>2, <1>4
  <2> QED
    BY <1>1, <1>3, <1>4, <2>1, <2>2 DEF RealInv
<1> QED
  BY <1>0, <1>5, <1>6, RealWindow DEF StaysValid

-----------------------------------------------------------------------------
(* Windows of parameters: events.                                          *)

LEMMA TypedKeeps ==
  ASSUME NEW x, ValidWindow(x), NEW w \in Typed(x.win), NEW v \in Numbers,
         NEW plain \in BOOLEAN
  PROVE  StaysValid(Edited([x EXCEPT !.f[w] = Entered(w, v),
                                     !.bad = x.bad \ {w}, !.plain = plain], w),
                    x)
<1> DEFINE e == Entered(w, v)
           y == [x EXCEPT !.f[w] = e, !.bad = x.bad \ {w}, !.plain = plain]
<1>1. WindowOK(x) /\ x.win \in Windows
  BY DEF ValidWindow, WindowOK
<1>2. v \in Int
  BY ParamAssumption
<1>3. x.win # "real" => e = v
  <2>1. x.win # "real" => w # "z"
    BY <1>1, WindowTyped DEF Windows, Solvers, TofPages, Waves, Energies
  <2> QED
    BY <2>1 DEF Entered
<1>0. [x EXCEPT !.f[w] = Entered(w, v), !.bad = x.bad \ {w}, !.plain = plain]
        = y
  OBVIOUS
<1> HIDE DEF e
<1>4. Entry(y, x, w, e) /\ y.bad = x.bad \ {w}
  BY <1>1 DEF Entry, Same, WindowOK
<1>5. w \in Fields(x.win)
  BY DEF Fields
<1> HIDE DEF y
<1>6. CASE x.win \in TofPages
  <2>1. Solvable(x)
    BY <1>6, WindowSolver DEF Solvers
  <2>2. e \in Int /\ y.bad = {}
    BY <1>2, <1>3, <1>4, <1>6, <2>1 DEF TofPages, Solvable
  <2>3. Solvable(y)
    BY <1>4, <1>5, <2>1, <2>2, SolverSet
  <2>4. y.win = x.win
    BY <1>1, <1>4 DEF Entry, Same, WindowOK
  <2>5. StaysValid(Edited(y, w), x)
    BY <1>6, <2>3, <2>4, TofTyped
  <2> QED
    BY <1>0, <2>5
<1>7. CASE x.win = "bragg"
  <2>1. StaysValid(Edited([x EXCEPT !.f[w] = v, !.bad = x.bad \ {w},
                                    !.plain = plain], w), x)
    BY <1>2, <1>7, BraggTyped
  <2> QED
    BY <1>3, <1>7, <2>1 DEF e
<1>8. CASE x.win = "neutron"
  <2>1. StaysValid(Edited([x EXCEPT !.f[w] = v, !.bad = x.bad \ {w},
                                    !.plain = plain], w), x)
    BY <1>2, <1>8, NeutronTyped
  <2> QED
    BY <1>3, <1>8, <2>1 DEF e
<1>9. CASE x.win = "foc"
  BY <1>0, <1>4, <1>5, <1>9, FocTyped
<1>10. CASE x.win = "factors"
  BY <1>0, <1>4, <1>10, FactorsTyped
<1>11. CASE x.win = "spurion"
  BY <1>0, <1>4, <1>11, SpurionTyped
<1>12. CASE x.win = "recip"
  BY <1>0, <1>4, <1>12, RecipTyped
<1>13. CASE x.win = "real"
  BY <1>0, <1>4, <1>13, RealTyped
<1> QED
  BY <1>1, <1>6, <1>7, <1>8, <1>9, <1>10, <1>11, <1>12, <1>13
  DEF Windows, Solvers

LEMMA CheckedKeeps ==
  ASSUME NEW x, ValidWindow(x), NEW w \in Checks(x.win)
  PROVE  StaysValid(Edited([x EXCEPT !.f[w] = IF w = "rot" THEN 1 - @ ELSE ~@],
                           w), x)
<1> DEFINE e == IF w = "rot" THEN 1 - x.f[w] ELSE ~x.f[w]
           y == [x EXCEPT !.f[w] = e]
<1>1. WindowOK(x)
  BY DEF ValidWindow
<1>2. Edited([x EXCEPT !.f[w] = IF w = "rot" THEN 1 - @ ELSE ~@], w)
        = Edited(y, w)
  OBVIOUS
<1>3. x.win = "chopper" => w = "rot" /\ e = 1 - x.f["rot"]
  BY WindowChecks
<1> HIDE DEF e
<1>4. Entry(y, x, w, e) /\ y.bad = x.bad /\ y.win = x.win
  BY <1>1 DEF Entry, Same, WindowOK
<1>5. w \in Fields(x.win)
  BY DEF Fields
<1>6. x.win \in {"chopper", "factors", "spurion", "recip"}
  BY <1>1, WindowChecks DEF WindowOK, Windows, Solvers, TofPages
<1> HIDE DEF y
<1>7. CASE x.win = "chopper"
  <2>1. Solvable(x) /\ x.win \in TofPages
    BY <1>7, WindowSolver DEF Solvers, TofPages
  <2>2. x.f["rot"] \in Int
    BY <1>7, <2>1, LawFacts DEF Solvable, Numeric
  <2>3. e \in Int /\ y.bad = {}
    BY <1>3, <1>4, <1>7, <2>1, <2>2 DEF Solvable
  <2>4. Solvable(y)
    BY <1>4, <1>5, <2>1, <2>3, SolverSet
  <2>5. StaysValid(Edited(y, w), x)
    BY <1>4, <2>1, <2>4, TofTyped
  <2> QED
    BY <1>2, <2>5
<1>8. CASE x.win = "factors"
  BY <1>2, <1>4, <1>8, FactorsTyped
<1>9. CASE x.win = "spurion"
  BY <1>2, <1>4, <1>9, SpurionTyped
<1>10. CASE x.win = "recip"
  BY <1>2, <1>4, <1>10, RecipTyped
<1> QED
  BY <1>6, <1>7, <1>8, <1>9, <1>10

\* All events of the user and the main window.
Events ==
  \/ TypeNumber \/ ToggleCheck \/ SelectRadio \/ MoveInstrument \/ SyncK
  \/ UseG \/ ChangeCrystal

LEMMA EventKeeps ==
  ASSUME ValidWindow(pw), Events
  PROVE  StaysValid(pw', pw) /\ pback' = FALSE /\ psett' = psett
<1>1. pback' = FALSE /\ psett' = psett
  BY DEF Events, TypeNumber, ToggleCheck, SelectRadio, MoveInstrument, SyncK,
     UseG, ChangeCrystal, Turn
<1>2. CASE TypeNumber
  <2>1. PICK w \in Typed(pw.win) \ ReadOnly(pw), v \in Numbers :
          \E plain \in IF w = "lam" THEN BOOLEAN ELSE {TRUE} :
            Turn(Edited([pw EXCEPT !.f[w] = Entered(w, v), !.bad = @ \ {w},
                                   !.plain = plain], w))
    BY <1>2 DEF TypeNumber
  <2>2. PICK plain \in BOOLEAN :
          pw' = Edited([pw EXCEPT !.f[w] = Entered(w, v),
                                  !.bad = pw.bad \ {w}, !.plain = plain], w)
    BY <2>1 DEF Turn
  <2> QED
    BY <1>1, <2>2, TypedKeeps
<1>3. CASE ToggleCheck
  BY <1>1, <1>3, CheckedKeeps DEF ToggleCheck, Turn
<1>4. CASE SelectRadio
  BY <1>1, <1>4, RadioKeeps DEF SelectRadio, Turn
<1>5. CASE MoveInstrument
  <2>1. PICK p \in Positions : pw' = InstrumentMoved(pw, p)
    BY <1>5 DEF MoveInstrument, Turn
  <2>2. CASE pw.win = "neutron"
    BY <1>1, <2>1, <2>2, NeutronMoved DEF InstrumentMoved
  <2>3. CASE pw.win = "spurion"
    BY <1>1, <2>1, <2>3, SpurionMoved DEF InstrumentMoved
  <2>4. CASE pw.win = "recip"
    BY <1>1, <2>1, <2>4, RecipMoved DEF InstrumentMoved
  <2>5. CASE pw.win = "real"
    BY <1>1, <2>1, <2>5, RealMoved DEF InstrumentMoved
  <2> QED
    BY <1>5, <2>2, <2>3, <2>4, <2>5 DEF MoveInstrument
<1>6. CASE SyncK
  BY <1>1, <1>6, NeutronSynced DEF SyncK, Turn
<1>7. CASE UseG
  BY <1>1, <1>7, RecipSetG DEF UseG, Turn
<1>8. CASE ChangeCrystal
  BY <1>1, <1>8, CrystalShown, CrystalUntold DEF ChangeCrystal, Turn
<1> QED
  BY <1>2, <1>3, <1>4, <1>5, <1>6, <1>7, <1>8 DEF Events

-----------------------------------------------------------------------------
(* Windows of parameters: opening and closing.                             *)

\* A window before it reads what is stored.
Fresh(win) ==
  [win |-> win, f |-> [w \in Fields(win) |-> Shown(w)],
   plain |-> TRUE, bad |-> {}, left |-> {}, radio |-> FirstRadio(win),
   out |-> [o \in Outputs(win) |-> <<>>]]

LEMMA FreshFacts ==
  ASSUME NEW win \in Windows
  PROVE  /\ WindowOK(Fresh(win)) /\ Fresh(win).win = win
         /\ Fresh(win).left = {} /\ Fresh(win).bad = {} /\ Fresh(win).plain = TRUE
         /\ Fresh(win).radio = FirstRadio(win)
         /\ DOMAIN Fresh(win).f = Fields(win)
         /\ \A w \in Fields(win) : Fresh(win).f[w] = Shown(w)
         /\ \A o \in DOMAIN Fresh(win).out : Fresh(win).out[o] = <<>>
         /\ OutputsBut(Fresh(win), {})
<1>1. win \notin Solvers => FirstRadio(win) = "none"
  BY DEF FirstRadio, Solvers, TofPages
<1> QED
  BY <1>1 DEF Fresh, WindowOK, OutputsBut

\* What the edits show first.
Special == {"z", "fixedEi", "sync", "pol", "filter", "em", "pos", "latt",
            "metrics"}

LEMMA ShownFacts ==
  /\ \A w : w \notin Special => Shown(w) = 0
  /\ Shown("pos") = NoPosition /\ Shown("latt") = NoCrystal
  /\ Shown("metrics") = NoCrystal /\ NoPosition.ki = 0 /\ NoPosition.kf = 0
  BY DEF Shown, Special, NoPosition

LEMMA ZeroNegated ==
  ASSUME NEW u, NEW v, u = 0, v = 0
  PROVE  u = -v
<1>1. v \in Int /\ v <= 0 /\ v >= 0
  OBVIOUS
<1>2. \A n \in Int : n <= 0 /\ n >= 0 => -n = n
  OBVIOUS
<1>3. -v = v
  BY ONLY <1>1, <1>2
<1> QED
  BY ONLY <1>3, u = 0, v = 0

LEMMA FreshSolver ==
  ASSUME NEW win \in Solvers
  PROVE  /\ Solvable(Fresh(win)) /\ \A w \in Law(win) : Fresh(win).f[w] = 0
         /\ win = "bragg" => \A w \in {"lam", "Q", "TT"} : Paired(Fresh(win), w)
<1> DEFINE x == Fresh(win)
<1>1. /\ WindowOK(x) /\ x.win = win /\ x.left = {} /\ x.bad = {}
      /\ x.radio = FirstRadio(win)
      /\ \A w \in Fields(win) : x.f[w] = Shown(w)
  BY FreshFacts, SolverFields
<1>2. /\ Typed(win) \union Law(win) \subseteq Fields(win)
      /\ (Typed(win) \union Law(win)) \cap Special = {}
      /\ FirstRadio(win) \in Radios(win)
  BY SolverFields, WindowTyped, LawFacts, RadioFacts
  DEF Solvers, TofPages, Special, FirstRadio
<1> HIDE DEF x
<1>3. \A w \in Typed(win) \union Law(win) : x.f[w] = 0
  BY <1>1, <1>2, ShownFacts
<1>4. Numeric(win, x.f)
  BY <1>3 DEF Numeric
<1>5. Solvable(x)
  BY <1>1, <1>2, <1>4 DEF Solvable
<1>6. ASSUME win = "bragg", NEW w \in {"lam", "Q", "TT"} PROVE Paired(x, w)
  <2>1. w \in Typed(win) /\ Partner[w] \in Typed(win)
    BY <1>6, WindowTyped, PartnerFacts
  <2>2. x.f[w] = 0 /\ x.f[Partner[w]] = 0
    BY <1>3, <2>1
  <2>3. x.f[Partner[w]] = InUnit(w, x.f[w])
    <3>1. x.f[Partner[w]] = -x.f[w]
      BY ONLY <2>2, ZeroNegated
    <3>2. x.f[Partner[w]] = x.f[w]
      BY <2>2
    <3> QED
      BY <3>1, <3>2 DEF InUnit
  <2> QED
    BY <1>1, <2>3 DEF Paired
<1> QED
  BY <1>3, <1>5, <1>6 DEF x

LEMMA FreshNeutron ==
  LET x == Fresh("neutron")
  IN  /\ NeutronOK(x) /\ SameNeutron(x.f)
      /\ \A w \in Waves \union Energies : x.f[w] \in Int
      /\ x.radio = "none" /\ x.plain = TRUE
<1> DEFINE x == Fresh("neutron")
<1>1. "neutron" \in Windows
  BY DEF Windows
<1>2. /\ WindowOK(x) /\ x.win = "neutron" /\ x.left = {} /\ x.plain = TRUE
      /\ x.radio = FirstRadio("neutron")
      /\ \A w \in Fields("neutron") : x.f[w] = Shown(w)
  BY <1>1, FreshFacts
<1> HIDE DEF x
<1>3. (Waves \union Energies) \cap Special = {}
  BY DEF Waves, Energies, Special
<1>4. \A w \in Waves \union Energies : x.f[w] = 0
  BY <1>2, <1>3, ShownFacts, NeutronFields
<1>5. x.f["pos"] = NoPosition
  BY <1>2, ShownFacts, NeutronFields
<1>6. NeutronOK(x)
  BY <1>2, <1>5, ShownFacts DEF NeutronOK
<1>7. SameNeutron(x.f)
  BY <1>4 DEF SameNeutron, Waves, Energies
<1>8. x.radio = "none"
  BY <1>2 DEF FirstRadio, TofPages
<1> QED
  BY <1>2, <1>4, <1>6, <1>7, <1>8 DEF x

LEMMA FreshRecip ==
  ValidWindow(Fresh("recip")) /\ Fresh("recip").win = "recip"
<1> DEFINE x == Fresh("recip")
<1>1. "recip" \in Windows
  BY DEF Windows
<1>2. /\ WindowOK(x) /\ x.win = "recip" /\ x.left = {} /\ OutputsBut(x, {})
      /\ \A w \in Fields("recip") : x.f[w] = Shown(w)
  BY <1>1, FreshFacts
<1> HIDE DEF x
<1>3. {"pos", "ki", "kf"} \subseteq Fields("recip")
  BY WindowKnown DEF Fields
<1>4. x.f["pos"] = NoPosition /\ x.f["ki"] = 0 /\ x.f["kf"] = 0
  BY <1>2, <1>3, ShownFacts DEF Special
<1>5. RecipInv(x)
  BY <1>4, ShownFacts DEF RecipInv
<1>6. RecipOK(x, {})
  BY <1>2 DEF RecipOK
<1> QED
  BY <1>5, <1>6, RecipWindow DEF x

LEMMA FreshReal ==
  ValidWindow(Fresh("real")) /\ Fresh("real").win = "real"
<1> DEFINE x == Fresh("real")
<1>1. "real" \in Windows
  BY DEF Windows
<1>2. /\ WindowOK(x) /\ x.win = "real" /\ x.left = {} /\ OutputsBut(x, {})
      /\ \A w \in Fields("real") : x.f[w] = Shown(w)
      /\ \A o \in DOMAIN x.out : x.out[o] = <<>>
  BY <1>1, FreshFacts
<1> HIDE DEF x
<1>3. {"latt", "metrics"} \subseteq Fields("real")
  BY WindowKnown DEF Fields
<1>4. x.f["latt"] = NoCrystal /\ x.f["metrics"] = NoCrystal
  BY <1>2, <1>3, ShownFacts
<1>5. RealOK(x, {})
  BY <1>2 DEF RealOK, LeftInv
<1>6. x.out["vecs"] = <<>> /\ x.out["rot"] = <<>>
  BY <1>2, <1>5, RealFacts DEF RealOutputs
<1>7. RealInv(x)
  BY <1>4, <1>6 DEF RealInv
<1> QED
  BY <1>5, <1>7, RealWindow DEF x

\* The constructor's calculations.
LEMMA FactorsFirst ==
  ASSUME NEW x, WindowOK(x), x.win = "factors", x.left = {},
         OutputsBut(x, {})
  PROVE  ValidWindow(FirstCalc(x)) /\ FirstCalc(x).win = "factors"
<1> DEFINE a == CalcBose(x)
           b == CalcDW(a)
           c == CalcLorentz(b)
           r == CalcAna(c)
<1>1. FactorsOK(x, {})
  BY DEF FactorsOK, LeftInv
<1>2. \A q : {} \ {q} = {}
  OBVIOUS
<1> HIDE DEF a, b, c, r
<1>3. FactorsOK(a, {})
  BY <1>1, <1>2, FactorsCalc DEF a
<1>4. FactorsOK(b, {})
  BY <1>2, <1>3, FactorsCalc DEF b
<1>5. FactorsOK(c, {})
  BY <1>2, <1>4, FactorsCalc DEF c
<1>6. FactorsOK(r, {})
  BY <1>2, <1>5, AnaCalc DEF r
<1>7. FirstCalc(x) = r
  BY DEF FirstCalc, Solvers, TofPages, a, b, c, r
<1> QED
  BY <1>6, <1>7, FactorsWindow

LEMMA NewFresh ==
  ASSUME NEW win \in Windows
  PROVE  ValidWindow(FirstCalc(Fresh(win))) /\ FirstCalc(Fresh(win)).win = win
<1> DEFINE x == Fresh(win)
<1>1. WindowOK(x) /\ x.win = win /\ x.left = {} /\ OutputsBut(x, {})
  BY FreshFacts
<1>2. CASE win \in TofPages
  <2>1. Solvable(x)
    BY <1>2, FreshSolver DEF Solvers
  <2>2. FirstCalc(x) = CalcPage(x)
    BY <1>1, <1>2 DEF FirstCalc, Solvers, TofPages
  <2> HIDE DEF x
  <2>3. Solvable(CalcPage(x)) /\ Solves(CalcPage(x)) /\ CalcPage(x).win = win
    BY <1>1, <1>2, <2>1, TofCalc
  <2> QED
    BY <2>2, <2>3, SolverWindow DEF x
<1>3. CASE win = "bragg"
  <2>1. Solvable(x) /\ \A w \in {"lam", "Q", "TT"} : Paired(x, w)
    BY <1>3, FreshSolver DEF Solvers
  <2>2. FirstCalc(x) = CalcBraggRecip(x)
    BY <1>1, <1>3 DEF FirstCalc, Solvers, CalcPage
  <2> HIDE DEF x
  <2>3. /\ Solvable(CalcBraggRecip(x)) /\ Solves(CalcBraggRecip(x))
        /\ CalcBraggRecip(x).win = "bragg"
    BY <1>1, <1>3, <2>1, BraggCalc
  <2> QED
    BY <1>3, <2>2, <2>3, SolverWindow DEF x
<1>4. CASE win = "foc"
  <2>1. FirstCalc(x) = CalcFoc(x)
    BY <1>1, <1>4 DEF FirstCalc, Solvers, TofPages
  <2> HIDE DEF x
  <2>2. ValidWindow(CalcFoc(x)) /\ CalcFoc(x).win = "foc"
    BY <1>1, <1>4, FocShown
  <2> QED
    BY <1>4, <2>1, <2>2 DEF x
<1>5. CASE win = "factors"
  <2> HIDE DEF x
  <2>1. ValidWindow(FirstCalc(x)) /\ FirstCalc(x).win = "factors"
    BY <1>1, <1>5, FactorsFirst
  <2> QED
    BY <1>5, <2>1 DEF x
<1>6. CASE win = "spurion"
  <2>1. FirstCalc(x) = CalcSpurions(x)
    BY <1>1, <1>6 DEF FirstCalc, Solvers, TofPages
  <2> HIDE DEF x
  <2>2. SpurionOK(CalcSpurions(x), {})
    BY <1>1, <1>6, SpurionCalc
  <2> QED
    BY <1>6, <2>1, <2>2, SpurionWindow DEF x
<1>7. CASE win \in {"neutron", "recip", "real"}
  <2>1. FirstCalc(x) = x
    BY <1>1, <1>7 DEF FirstCalc, Solvers, TofPages
  <2>2. ValidWindow(x)
    BY <1>7, FreshNeutron, FreshRecip, FreshReal, NeutronWindow
  <2> QED
    BY <1>1, <2>1, <2>2
<1> QED
  BY <1>2, <1>3, <1>4, <1>5, <1>6, <1>7 DEF Windows, Solvers

\* What is stored is what the window shows.
Shows(r, win, s) ==
  /\ r.win = win /\ r.radio = s.radio /\ r.plain = s.plain
  /\ \A w \in KeptWidgets(win) : r.f[w] = s.values[w]

LEMMA KeptEqual ==
  ASSUME NEW win, NEW s, StoredInv(win, s), NEW r, Shows(r, win, s)
  PROVE  KeptOf(r) = s
<1>1. [w \in KeptWidgets(r.win) |-> r.f[w]] = s.values
  <2>1. s.values = [w \in KeptWidgets(win) |-> s.values[w]]
    BY DEF StoredInv
  <2>2. [w \in KeptWidgets(win) |-> r.f[w]]
          = [w \in KeptWidgets(win) |-> s.values[w]]
    BY DEF Shows
  <2> QED
    BY <2>1, <2>2 DEF Shows
<1>2. s = [values |-> s.values, radio |-> s.radio, plain |-> s.plain]
  BY DEF StoredInv
<1> QED
  BY <1>1, <1>2 DEF KeptOf, Shows

LEMMA KeptFacts ==
  /\ \A win \in TofPages \union {"foc"} :
       KeptWidgets(win) = Typed(win) \union Checks(win)
  /\ \A win \in TofPages : Law(win) = Typed(win) \union Checks(win)
  /\ KeptWidgets("neutron") = {"lam"} /\ KeptWidgets("recip") = {"em"}
  /\ \A win \in {"bragg", "factors", "spurion", "real"} : KeptWidgets(win) = {}
  BY WindowTyped, WindowChecks, LawFacts
  DEF KeptWidgets, TofPages

\* A window that reads what is stored.
ReadBack(r, win, s) ==
  /\ WindowOK(r) /\ r.win = win /\ r.left = {} /\ r.bad = {}
  /\ r.plain = TRUE /\ r.radio = s.radio
  /\ \A w \in KeptWidgets(win) : r.f[w] = s.values[w]

LEMMA ReadFacts ==
  ASSUME NEW win \in TofPages \union {"foc"}, NEW s, StoredInv(win, s)
  PROVE  ReadBack(ReadLastConfig(Fresh(win), s), win, s)
<1> DEFINE x == Fresh(win)
           f == [w \in DOMAIN x.f |-> IF w \in DOMAIN s.values
                                        THEN s.values[w] ELSE x.f[w]]
           r == ReadLastConfig(x, s)
<1>0. win \in Windows
  BY DEF Windows, Solvers
<1>1. /\ WindowOK(x) /\ x.win = win /\ x.left = {} /\ x.bad = {}
      /\ x.plain = TRUE /\ DOMAIN x.f = Fields(win)
  BY <1>0, FreshFacts
<1>2. r = [x EXCEPT !.f = f, !.radio = s.radio]
  BY DEF ReadLastConfig
<1> HIDE DEF x
<1>3. KeptWidgets(win) \subseteq Fields(win)
  BY KeptFacts DEF Fields
<1>4. DOMAIN s.values = KeptWidgets(win)
  BY DEF StoredInv
<1>5. /\ \A w \in KeptWidgets(win) : f[w] = s.values[w]
      /\ DOMAIN f = Fields(win)
  BY <1>1, <1>3, <1>4
<1> HIDE DEF f, r
<1>6. /\ DOMAIN r = DOMAIN x /\ r.win = win /\ r.left = {} /\ r.bad = {}
      /\ r.plain = TRUE /\ r.out = x.out /\ r.f = f /\ r.radio = s.radio
  BY <1>1, <1>2 DEF WindowOK
<1>7. win \notin Solvers => s.radio = "none"
  BY DEF StoredInv
<1>8. WindowOK(r)
  BY <1>0, <1>1, <1>5, <1>6, <1>7 DEF WindowOK
<1> QED
  BY <1>5, <1>6, <1>8 DEF r, x, ReadBack

\* What solves the equation stays as it is.
LEMMA SolvedAlready ==
  ASSUME NEW x, Solvable(x), x.win \in TofPages, Excess(x.win, x.f) = 0
  PROVE  \A w \in Law(x.win) : CalcPage(x).f[w] = x.f[w]
<1> DEFINE o == x.radio
           win == x.win
           r == CalcPage(x)
<1>1. /\ \A w \in DOMAIN x.f \ {o} : r.f[w] = x.f[w]
      /\ Law(win) \subseteq DOMAIN x.f /\ o \in Law(win)
  BY TofCalc, SolverFields DEF Solvable, WindowOK
<1>2. CalcPage(x) = Solved(x, o)
  BY DEF CalcPage, CalcChopper, CalcDiv, CalcSel, TofPages
<1>3. x.bad = {} /\ o # "TT"
  BY RadioFacts DEF Solvable, TofPages
<1>4. x.f[o] \in Int
  BY <1>1 DEF Solvable, Numeric
<1>5. r.f[o] = x.f[o]
  <2> DEFINE v == IF o = Product(win) THEN x.f[o] + Excess(win, x.f)
                                      ELSE x.f[o] - Excess(win, x.f)
  <2>1. v = x.f[o]
    BY <1>4
  <2>2. Solved(x, o) = [x EXCEPT !.f[o] = v, !.bad = x.bad \ {o}]
    BY <1>3 DEF Solved
  <2> HIDE DEF v
  <2>3. Solved(x, o).f[o] = v
    BY <1>1, <2>2 DEF Solvable, WindowOK
  <2> QED
    BY <1>2, <2>1, <2>3
<1> QED
  BY <1>1, <1>5

\* A window that is opened again.
Again(r, win, s) ==
  ValidWindow(r) /\ r.win = win /\ (s.plain => KeptOf(r) = s)

LEMMA TofAgain ==
  ASSUME NEW win \in TofPages, NEW s, StoredInv(win, s)
  PROVE  Again(FirstCalc(Restore(Fresh(win), s)), win, s)
<1> DEFINE x == ReadLastConfig(Fresh(win), s)
           r == CalcPage(x)
<1>0. win \in Solvers /\ win \in Windows
  BY DEF Solvers, Windows
<1>1. /\ WindowOK(x) /\ x.win = win /\ x.left = {} /\ x.bad = {}
      /\ x.plain = TRUE /\ x.radio = s.radio
      /\ \A w \in Law(win) : x.f[w] = s.values[w]
  <2>1. ReadBack(x, win, s)
    BY ReadFacts
  <2> HIDE DEF x
  <2> QED
    BY <2>1, KeptFacts DEF ReadBack
<1>2. FirstCalc(Restore(Fresh(win), s)) = r
  <2>1. Fresh(win).win = win
    BY <1>0, FreshFacts
  <2>2. Restore(Fresh(win), s) = x
    BY <2>1 DEF Restore, TofPages
  <2> HIDE DEF x
  <2>3. FirstCalc(x) = r
    BY <1>1 DEF FirstCalc, Solvers, TofPages
  <2> QED
    BY <2>2, <2>3
<1> HIDE DEF x
<1>3. Solvable(x)
  <2>1. Numeric(win, x.f)
    BY <1>1, KeptFacts DEF Numeric, StoredInv
  <2> QED
    BY <1>0, <1>1, <2>1 DEF Solvable, StoredInv
<1>4. Excess(win, x.f) = 0
  <2>1. Excess(win, x.f) = Excess(win, s.values)
    BY <1>0, <1>1, ExcessKept
  <2> QED
    BY <2>1 DEF StoredInv
<1>5. /\ Solvable(r) /\ Solves(r) /\ r.win = win /\ r.radio = s.radio
      /\ Same(r, x, {"f", "bad"})
  BY <1>1, <1>3, TofCalc
<1>6. \A w \in Law(win) : r.f[w] = s.values[w]
  BY <1>1, <1>3, <1>4, SolvedAlready
<1> HIDE DEF r
<1>7. r.plain = TRUE
  BY <1>1, <1>5 DEF Same, WindowOK
<1>8. s.plain => KeptOf(r) = s
  <2>1. s.plain \in BOOLEAN
    BY DEF StoredInv
  <2> SUFFICES ASSUME s.plain PROVE KeptOf(r) = s
    OBVIOUS
  <2>2. r.plain = s.plain
    BY <1>7, <2>1
  <2>3. \A w \in KeptWidgets(win) : r.f[w] = s.values[w]
    BY <1>6, KeptFacts
  <2>4. Shows(r, win, s)
    BY <1>5, <2>2, <2>3 DEF Shows
  <2> QED
    BY <2>4, KeptEqual
<1>9. ValidWindow(r)
  BY <1>5, SolverWindow
<1> QED
  BY <1>2, <1>5, <1>8, <1>9 DEF Again

LEMMA FocAgain ==
  ASSUME NEW s, StoredInv("foc", s)
  PROVE  Again(FirstCalc(Restore(Fresh("foc"), s)), "foc", s)
<1> DEFINE x == ReadLastConfig(Fresh("foc"), s)
           r == CalcFoc(x)
<1>1. ReadBack(x, "foc", s)
  BY ReadFacts
<1>2. FirstCalc(Restore(Fresh("foc"), s)) = r
  <2>1. Fresh("foc").win = "foc"
    BY FreshFacts DEF Windows
  <2>2. Restore(Fresh("foc"), s) = x
    BY <2>1 DEF Restore, TofPages
  <2> HIDE DEF x
  <2>3. FirstCalc(x) = r
    BY <1>1 DEF FirstCalc, Solvers, TofPages, ReadBack
  <2> QED
    BY <2>2, <2>3
<1> HIDE DEF x
<1>3. /\ WindowOK(x) /\ x.win = "foc" /\ x.left = {} /\ x.plain = TRUE
      /\ x.radio = s.radio
      /\ \A w \in KeptWidgets("foc") : x.f[w] = s.values[w]
  BY <1>1 DEF ReadBack
<1>4. /\ ValidWindow(r) /\ r.win = "foc" /\ r.f = x.f /\ r.radio = x.radio
      /\ r.plain = x.plain
  BY <1>3, FocShown
<1> HIDE DEF r
<1>5. s.plain => KeptOf(r) = s
  <2> SUFFICES ASSUME s.plain PROVE KeptOf(r) = s
    OBVIOUS
  <2>1. s.plain = TRUE
    BY DEF StoredInv
  <2>2. Shows(r, "foc", s)
    BY <1>3, <1>4, <2>1 DEF Shows
  <2> QED
    BY <2>2, KeptEqual
<1> QED
  BY <1>2, <1>4, <1>5 DEF Again

LEMMA NeutronAgain ==
  ASSUME NEW s, StoredInv("neutron", s)
  PROVE  Again(FirstCalc(Restore(Fresh("neutron"), s)), "neutron", s)
<1> DEFINE x == Fresh("neutron")
           v == IF s.plain THEN s.values["lam"] ELSE 0
           w == "lam"
           y == [x EXCEPT !.f["lam"] = v]
           r == FromWave(y, w)
<1>1. /\ NeutronOK(x) /\ x.radio = "none" /\ x.plain = TRUE
      /\ WindowOK(x) /\ x.win = "neutron"
  BY FreshNeutron DEF NeutronOK
<1>2. Restore(x, s) = r
  BY <1>1 DEF Restore, TofPages, ReadLam
<1>3. v \in Int
  BY DEF StoredInv
<1>4. s.plain => v = s.values["lam"]
  OBVIOUS
<1> HIDE DEF x, v
<1>5. Entry(y, x, w, v)
  BY <1>1 DEF Entry, Same, WindowOK
<1>6. w \in Waves /\ w # "pos"
  BY DEF Waves
<1>7. w \in Fields(x.win) /\ "pos" \in Fields(x.win)
  BY <1>1, <1>6, NeutronFields
<1>8. y.plain = TRUE
  BY <1>1 DEF WindowOK
<1> HIDE DEF y, w
<1>9. /\ y.f[w] = v /\ \A u \in DOMAIN x.f \ {w} : y.f[u] = x.f[u]
      /\ WindowOK(y) /\ y.win = x.win /\ y.left = x.left /\ y.radio = x.radio
  <2>1. WindowOK(x) /\ w \in Fields(x.win)
    BY <1>1, <1>7
  <2> QED
    BY <1>5, <2>1, ValueSet
<1>10. NeutronOK(y)
  <2>1. y.f["pos"] = x.f["pos"]
    BY <1>1, <1>6, <1>7, <1>9 DEF WindowOK
  <2> QED
    BY <1>1, <1>9, <2>1 DEF NeutronOK
<1>11. /\ ValidWindow(r) /\ r.win = "neutron" /\ r.f["lam"] = y.f[w]
       /\ r.plain = (y.plain \/ w # "lam") /\ r.radio = y.radio
  <2>1. y.f[w] \in Int
    BY <1>3, <1>9
  <2> QED
    BY <1>6, <1>10, <2>1, WaveFacts
<1>12. FirstCalc(r) = r
  BY <1>11 DEF FirstCalc, Solvers, TofPages
<1> HIDE DEF r
<1>13. s.plain => KeptOf(r) = s
  <2> SUFFICES ASSUME s.plain PROVE KeptOf(r) = s
    OBVIOUS
  <2>1. s.plain = TRUE /\ s.radio = "none"
    BY DEF StoredInv, Solvers, TofPages
  <2>2. r.plain = TRUE /\ r.radio = "none" /\ r.f["lam"] = s.values["lam"]
    BY <1>1, <1>4, <1>8, <1>9, <1>11
  <2>3. Shows(r, "neutron", s)
    BY <1>11, <2>1, <2>2, KeptFacts DEF Shows
  <2> QED
    BY <2>3, KeptEqual
<1>14. FirstCalc(Restore(x, s)) = r
  BY <1>2, <1>12
<1> QED
  BY <1>11, <1>13, <1>14 DEF Again, x

LEMMA RecipAgain ==
  ASSUME NEW s, StoredInv("recip", s)
  PROVE  Again(FirstCalc(Restore(Fresh("recip"), s)), "recip", s)
<1> DEFINE x == Fresh("recip")
           w == "em"
           v == s.values["em"]
           y == [x EXCEPT !.f["em"] = v]
           r == ReadEm(x, s)
<1>0. "recip" \in Windows
  BY DEF Windows
<1>1. /\ ValidWindow(x) /\ x.win = "recip" /\ WindowOK(x) /\ x.plain = TRUE
      /\ x.radio = "none"
  BY <1>0, FreshRecip, FreshFacts DEF FirstRadio, TofPages
<1>2. Restore(x, s) = r
  BY <1>1 DEF Restore, TofPages
<1> HIDE DEF x
<1>3. /\ r = x /\ v = x.f["em"]
      \/ r = OriginChanged(y)
  BY DEF ReadEm
<1>4. Entry(y, x, w, v)
  BY <1>1 DEF Entry, Same, WindowOK
<1>5. "em" \in DOMAIN x.f
  BY <1>1, WindowChecks DEF WindowOK, Fields
<1>6. /\ DOMAIN y = DOMAIN x /\ y.plain = TRUE /\ y.radio = "none"
      /\ y.f["em"] = v
  BY <1>1, <1>5 DEF WindowOK
<1> HIDE DEF y, v, r
<1>7. StaysValid(OriginChanged(y), x)
  <2>1. w \in {"origin", "em"}
    OBVIOUS
  <2> HIDE DEF w
  <2> QED
    BY <1>1, <1>4, <2>1, RecipEntered
<1>8. /\ OriginChanged(y).plain = TRUE /\ OriginChanged(y).radio = "none"
      /\ OriginChanged(y).f["em"] = v
  BY <1>1, <1>6 DEF OriginChanged, Show, WindowOK
<1>9. /\ ValidWindow(r) /\ r.win = "recip" /\ r.plain = TRUE
      /\ r.radio = "none" /\ r.f["em"] = v
  BY <1>1, <1>3, <1>7, <1>8 DEF StaysValid
<1>10. FirstCalc(r) = r
  BY <1>9 DEF FirstCalc, Solvers, TofPages
<1>11. s.plain => KeptOf(r) = s
  <2> SUFFICES ASSUME s.plain PROVE KeptOf(r) = s
    OBVIOUS
  <2>1. s.plain = TRUE /\ s.radio = "none"
    BY DEF StoredInv, Solvers, TofPages
  <2>2. Shows(r, "recip", s)
    BY <1>9, <2>1, KeptFacts DEF Shows, v
  <2> QED
    BY <2>2, KeptEqual
<1>12. FirstCalc(Restore(x, s)) = r
  BY <1>2, <1>10
<1> QED
  BY <1>9, <1>11, <1>12 DEF Again, x

LEMMA NewAgain ==
  ASSUME NEW win \in Windows, NEW s, StoredInv(win, s)
  PROVE  Again(FirstCalc(Restore(Fresh(win), s)), win, s)
<1>1. KeptWidgets(win) # {}
  BY DEF StoredInv
<1>2. win \in TofPages \union {"foc", "neutron", "recip"}
  BY <1>1, KeptFacts DEF Windows, Solvers
<1> QED
  BY <1>2, TofAgain, FocAgain, NeutronAgain, RecipAgain

LEMMA NewWindowFacts ==
  ASSUME NEW win
  PROVE  /\ NewWindow(win, {}) = FirstCalc(Fresh(win))
         /\ \A sett : sett # {} =>
              \E s \in sett :
                NewWindow(win, sett) = FirstCalc(Restore(Fresh(win), s))
<1>1. NewWindow(win, {}) = FirstCalc(Fresh(win))
  BY DEF NewWindow, Fresh
<1>2. ASSUME NEW sett, sett # {}
      PROVE  \E s \in sett :
               NewWindow(win, sett) = FirstCalc(Restore(Fresh(win), s))
  <2> DEFINE s == CHOOSE t \in sett : TRUE
  <2>1. s \in sett
    BY <1>2
  <2>2. NewWindow(win, sett) = FirstCalc(Restore(Fresh(win), s))
    BY <1>2 DEF NewWindow, Fresh
  <2> QED
    BY <2>1, <2>2
<1> QED
  BY <1>1, <1>2

LEMMA KeptStored ==
  ASSUME NEW x, ValidWindow(x), KeptWidgets(x.win) # {}
  PROVE  StoredInv(x.win, KeptOf(x))
<1> DEFINE s == KeptOf(x)
           win == x.win
<1>1. /\ s = [values |-> s.values, radio |-> x.radio, plain |-> x.plain]
      /\ s.values = [w \in KeptWidgets(win) |-> x.f[w]]
      /\ s.radio = x.radio /\ s.plain = x.plain
  BY DEF KeptOf
<1> HIDE DEF s
<1>2. \A w \in KeptWidgets(win) : s.values[w] = x.f[w]
  BY <1>1
<1>3. WindowOK(x)
  BY DEF ValidWindow
<1>4. ASSUME win \in TofPages
      PROVE  /\ s.radio \in Radios(win)
             /\ \A w \in Law(win) : s.values[w] \in Int
             /\ Excess(win, s.values) = 0
  <2>1. Solvable(x) /\ Solves(x) /\ win \in Solvers
    BY <1>4, WindowSolver DEF Solvers
  <2>2. \A w \in Law(win) : s.values[w] = x.f[w]
    BY <1>2, <1>4, KeptFacts
  <2>3. Excess(win, x.f) = 0
    BY <1>4, <2>1 DEF Solvable, Solves
  <2>4. Excess(win, s.values) = Excess(win, x.f)
    BY <2>1, <2>2, ExcessKept
  <2> QED
    BY <1>1, <2>1, <2>2, <2>3, <2>4 DEF Solvable, Numeric
<1>5. win = "neutron" => s.values["lam"] \in Int
  BY <1>2, WindowNeutron, KeptFacts DEF Waves
<1>6. /\ s.values = [w \in KeptWidgets(win) |-> s.values[w]]
      /\ s.plain \in BOOLEAN
      /\ win \notin Solvers => s.radio = "none"
  BY <1>1, <1>3 DEF WindowOK
<1>7. /\ s = [values |-> s.values, radio |-> s.radio, plain |-> s.plain]
      /\ KeptWidgets(win) # {}
  BY <1>1
<1>8. StoredInv(win, s)
  BY <1>4, <1>5, <1>6, <1>7 DEF StoredInv
<1> QED
  BY <1>8 DEF s

-----------------------------------------------------------------------------
(* Windows of parameters: the invariant.                                   *)

LEMMA PdStart ==
  ASSUME PdInit
  PROVE  PdIInv
<1>1. PICK win \in Windows : pw = NewWindow(win, {})
  BY DEF PdInit
<1>2. ValidWindow(pw)
  BY <1>1, NewWindowFacts, NewFresh
<1> QED
  BY <1>2 DEF PdInit, PdIInv, Restored

LEMMA AcceptKeeps ==
  ASSUME PdIInv, AcceptWindow
  PROVE  PdIInv'
<1> DEFINE s == KeptOf(pw)
<1>1. ValidWindow(pw) /\ StoredInv(pw.win, s)
  BY KeptStored DEF AcceptWindow, PdIInv
<1>2. pw' = pw /\ psett' = {s} /\ pback' = FALSE
  BY DEF AcceptWindow
<1> HIDE DEF s
<1> QED
  BY <1>1, <1>2 DEF PdIInv, Restored

LEMMA ReopenKeeps ==
  ASSUME PdIInv, Reopen
  PROVE  PdIInv'
<1> DEFINE win == pw.win
<1>1. /\ pw' = NewWindow(win, psett) /\ psett' = psett
      /\ \A s \in psett : StoredInv(win, s)
      /\ \A s, t \in psett : s = t
  BY DEF Reopen, PdIInv
<1>2. win \in Windows
  BY DEF PdIInv, ValidWindow, WindowOK
<1> HIDE DEF win
<1>3. CASE psett = {}
  <2>1. ValidWindow(pw')
    BY <1>1, <1>2, <1>3, NewWindowFacts, NewFresh
  <2> QED
    BY <1>1, <1>3, <2>1 DEF PdIInv, Restored
<1>4. CASE psett # {}
  <2>1. PICK s \in psett : pw' = FirstCalc(Restore(Fresh(win), s))
    BY <1>1, <1>4, NewWindowFacts
  <2>2. StoredInv(win, s)
    BY <1>1
  <2>3. Again(pw', win, s)
    BY <1>2, <2>1, <2>2, NewAgain
  <2>4. ValidWindow(pw') /\ pw'.win = win /\ (s.plain => KeptOf(pw') = s)
    BY <2>3 DEF Again
  <2>5. \A t \in psett' : t = s
    BY <1>1
  <2>6. Restored'
    BY <2>4, <2>5 DEF Restored, KeptOf
  <2> QED
    BY <1>1, <2>4, <2>6 DEF PdIInv
<1> QED
  BY <1>3, <1>4

LEMMA PdStep ==
  ASSUME PdIInv, [PdNext]_pdvars
  PROVE  PdIInv'
<1>1. CASE Events
  <2>1. ValidWindow(pw)
    BY DEF PdIInv
  <2>2. StaysValid(pw', pw) /\ pback' = FALSE /\ psett' = psett
    BY <1>1, <2>1, EventKeeps
  <2> QED
    BY <2>2 DEF PdIInv, Restored, StaysValid
<1>2. CASE UNCHANGED pdvars
  BY <1>2 DEF PdIInv, Restored, pdvars
<1> QED
  BY <1>1, <1>2, AcceptKeeps, ReopenKeeps DEF PdNext, Events

LEMMA OutputsTrue ==
  ASSUME ValidWindow(pw)
  PROVE  OutputsFresh
<1>1. ASSUME NEW o \in DOMAIN pw.out \ pw.left
      PROVE  pw.out[o] = [w \in DOMAIN pw.out[o] |-> pw.f[w]]
  <2>1. pw.out[o] = <<>> \/ pw.out[o] = [w \in Uses(o) |-> pw.f[w]]
    BY <1>1 DEF ValidWindow, OutputsInv, Made
  <2>2. CASE pw.out[o] = <<>>
    BY <2>2
  <2>3. CASE pw.out[o] = [w \in Uses(o) |-> pw.f[w]]
    <3>1. DOMAIN pw.out[o] = Uses(o)
      BY <2>3
    <3> QED
      BY <2>3, <3>1
  <2> QED
    BY <2>1, <2>2, <2>3
<1>2. pw.win = "spurion" /\ pw.f["sync"] => pw.f["E"] = SyncedE(pw)
  BY DEF ValidWindow, SpurionInv
<1>3. pw.win = "recip" =>
        /\ pw.f["ki"] = pw.f["pos"].ki /\ pw.f["kf"] = pw.f["pos"].kf
        /\ pw.f["pos"] # NoPosition =>
             \A o \in DOMAIN pw.out : pw.out[o] # <<>>
  BY DEF ValidWindow, RecipInv
<1>4. ASSUME pw.win = "real", "latt" \notin pw.left
      PROVE  /\ pw.f["latt"] = pw.f["metrics"]
             /\ pw.f["latt"] # NoCrystal =>
                  /\ pw.f["z"] = <<pw.f["x"], pw.f["y"]>>
                  /\ \A o \in {"metrics", "vecs", "rot", "cell"} :
                       pw.out[o] # <<>>
                  /\ pw.out["atoms"] # <<>> <=> pw.f["latt"].grouped
  <2>1. pw.left = {}
    BY <1>4 DEF ValidWindow, LeftInv, Untold
  <2> QED
    BY <1>4, <2>1 DEF ValidWindow, RealInv
<1> QED
  BY <1>1, <1>2, <1>3, <1>4 DEF OutputsFresh

LEMMA FieldsTrueNow ==
  ASSUME PdIInv
  PROVE  FieldsAgree
<1>1. EquationHolds
  BY DEF PdIInv, ValidWindow, SolverInv, EquationHolds
<1>2. OneNeutron
  BY DEF PdIInv, ValidWindow, NeutronInv, OneNeutron
<1>3. OutputsFresh
  BY OutputsTrue DEF PdIInv
<1> QED
  BY <1>1, <1>2, <1>3 DEF PdIInv, FieldsAgree

\* The inductive invariant of the dialogs' windows: the numbers in a window
\* solve its equation, each plot and text is made of what is shown, and what
\* accept has stored solves the equation again.
THEOREM PdInvariance == PdSpec => []PdIInv
<1>1. PdInit => PdIInv
  BY PdStart
<1>2. PdIInv /\ [PdNext]_pdvars => PdIInv'
  BY PdStep
<1> QED
  BY <1>1, <1>2, PTL DEF PdSpec

\* The fields of a dialog agree, whatever the user types, checks and selects,
\* wherever the instrument moves and whichever crystal is loaded: an edit's
\* slot writes the other unit before the calculation runs, a calculated edit
\* is read-only, and a window that is opened again shows what was stored.
THEOREM FieldsTrue == PdSpec => []FieldsAgree
<1>1. PdIInv => FieldsAgree
  BY FieldsTrueNow
<1> QED
  BY <1>1, PdInvariance, PTL
=============================================================================
