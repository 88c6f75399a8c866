----------------------------- MODULE Scenes_proofs ----------------------------
(***************************************************************************)
(* Proofs about the main window and its scenes, for any numbers of         *)
(* wavenumbers, of angles and of spacings, and any number of events and of *)
(* calls.  The control: the calls that are under way are nested as the     *)
(* code nests them, and each of the flags m_bReady, m_bDontEmitChange and  *)
(* bAllowUpdate is set exactly while the function is under way that resets *)
(* it.  From this the layouts: when no call is under way the triple-axis   *)
(* and the time-of-flight layout show the angles of the triangle.  And the *)
(* dialogs: after a movement, a change of sense or new variables they show *)
(* the triangle and the layout as they are.  ScenesReso_proofs adds the    *)
(* resolution.                                                             *)
(*                                                                         *)
(* The calls are a sequence whose elements have arguments of many types.   *)
(* The proofs write it as pushes of one call to others: a lemma per        *)
(* function says what it pushes (...Effect), and each part of the          *)
(* invariant has a lemma that says what it asks of the call that is pushed *)
(* (...Push), as the induction along the sequence is out of reach here.    *)
(***************************************************************************)
EXTENDS Scenes, SequenceTheorems, TLAPS

-----------------------------------------------------------------------------
(* The calls that are to be made, one on top of the other.                 *)

\* A call pushed to others; the functions among the calls q, and those among
\* the calls below the i-th one.
Push(f, q) == <<f>> \o q
Ops(q) == {q[i].op : i \in DOMAIN q}
Below(q, i) == {q[j].op : j \in {k \in DOMAIN q : k > i}}

\* The functions that run inside of others: while a layout is told angles,
\* while a file is loaded, and while the triangle is told angles.
RealOps == {"RealSet", "RealMoved", "RealMovedFirst", "RealMovedEnd",
            "RealEmit", "RealEmitAllParams"}
TofOps == {"TofSet", "TofMoved", "TofMovedEnd", "TofEmit"}
LoadOps == {"SetSense", "TriangleMoved", "RealMoved", "UpdateDs", "EmitUpdate",
            "EmitAllParams", "RealEmitAllParams", "ResoLoad", "ResoPars",
            "ResoSense"}
TasOps == {"Set", "TriangleMoved", "EmitUpdate", "EmitAllParams",
           "RealAngleKiQ", "TofAngleKiQ", "RecipDialogs", "RealMoved",
           "RealMovedEnd", "RealEmitAllParams", "ResoReal", "ResoRecip",
           "TofMoved", "TofMovedEnd"}

\* The calls by which a layout tells its angle to the triangle.
Lifts(f) == 
  \/ f.op = "RealEmit"
  \/ /\ f.op \in {"RealMoved", "RealMovedFirst"}
     /\ f.arg \in {"sample", "ana", "det"}
TofLifts(f) ==
  \/ f.op = "TofEmit"
  \/ f.op = "TofMoved" /\ f.arg \in {"sample", "det"}

\* How calls are nested, f being on top of the functions O: what is called
\* before a function is left that has set a flag (dont, busy, ready) belongs to
\* this function, and a function that sets a flag is not entered again before
\* it is left.
NestFit(f, O) ==
  /\ "RealTriangleChangedEnd" \in O => f.op \in RealOps
  /\ "TofTriangleChangedEnd" \in O => f.op \in TofOps
  /\ "LoadEnd" \in O => f.op \in LoadOps
  /\ f.op = "LoadEnd" => O = {}
  /\ "TasChangedEnd" \in O => f.op \in TasOps /\ ~Lifts(f) /\ ~TofLifts(f)
  /\ f.op = "RealMovedEnd" => f.op \notin O
  /\ f.op = "TofMovedEnd" => f.op \notin O
Nested(q) == \A i \in DOMAIN q : NestFit(q[i], Below(q, i))

\* The angles of the triangle, and the values they have.
Angles == {"mono", "ana", "tt", "th"}
AngleNames == Angles \cup {"kivec"}
AngleValues(x) == IF x \in Crystals THEN SignedAngles ELSE Turns

\* What the calls carry: the functions that are told angles are told some of
\* them, with values these can have.
TypedCall(f) ==
  /\ f.op \in {"RealTriangleChanged", "TofTriangleChanged"} =>
       DOMAIN f.arg \subseteq AngleNames
       /\ \A x \in DOMAIN f.arg : f.arg[x] \in AngleValues(x)
  /\ f.op \in {"TasChanged", "RealEmit", "TofEmit"} =>
       DOMAIN f.arg \subseteq AngleNames \ {"th"} /\ DOMAIN f.arg # {}
       /\ \A x \in DOMAIN f.arg : f.arg[x] \in AngleValues(x)
  /\ f.op = "Set" => \E x \in AngleNames \ {"th"},
       v \in SignedAngles \cup Turns :
       f.arg = Only(x, v) /\ v \in AngleValues(x)
  /\ f.op = "RealSet" => \E x \in Angles, v \in SignedAngles \cup Turns :
       f.arg = Only(x, v) /\ v \in AngleValues(x)
  /\ f.op = "TofSet" => \E x \in {"tt", "th"}, v \in Turns :
       f.arg = Only(x, v) 
  /\ f.op = "SetSense" => \E x \in {"mono", "sample", "ana"}, b \in BOOLEAN :
       f.arg = Only(x, b)
Typed(q) == \A i \in DOMAIN q : TypedCall(q[i])

\* A flag is set exactly while a call is under way that will reset it.
Flags ==
  LET O == Ops(todo) IN
  /\ dont \in [recip : BOOLEAN, real : BOOLEAN, tof : BOOLEAN]
  /\ busy \in [real : BOOLEAN, tof : BOOLEAN]
  /\ ready \in [tri : BOOLEAN, real : BOOLEAN]
  /\ dont.recip <=> "TasChangedEnd" \in O \/ "LoadEnd" \in O
  /\ dont.real <=> "RealTriangleChangedEnd" \in O \/ "LoadEnd" \in O
  /\ dont.tof <=> "TofTriangleChangedEnd" \in O
  /\ busy.real <=> "RealMovedEnd" \in O
  /\ busy.tof <=> "TofMovedEnd" \in O
  /\ ready.tri <=> "LoadEnd" \notin O
  /\ ready.real <=> "LoadEnd" \notin O

\* The types of the values that calls read and write; a layout has the angles
\* of the triangle.
DataType ==
  /\ tri \in [ki : Waves, kf : Waves, tt : Turns, th : Turns]
  /\ ds \in [mono : Spacings, ana : Spacings]
  /\ edits \in [mono : Spacings, ana : Spacings]
  /\ sense \in [mono : BOOLEAN, sample : BOOLEAN, ana : BOOLEAN]
  /\ filed \in BOOLEAN
  /\ DOMAIN real = Angles \cup {"kiq"}
  /\ \A x \in Angles : real[x] \in AngleValues(x)
  /\ DOMAIN tof = {"tt", "th", "kiq"}
  /\ tof.tt \in Turns /\ tof.th \in Turns

\* What is known of the calls without a type for what they carry.
IsStack(q) == q \in Seq({q[i] : i \in DOMAIN q})
Rest == Tail(todo)

\* The control of the scenes: which calls can be under way, in which order, and
\* what the flags say of them.
Control ==
  IsStack(todo) /\ Nested(todo) /\ Typed(todo) /\ Flags /\ DataType

-----------------------------------------------------------------------------
(* The inductive invariant of LayoutsAgree.  When a layout differs from    *)
(* the triangle, either a call is to be made that will tell the layouts    *)
(* all angles (Fixed); or each angle in which they differ is still to be   *)
(* told (Settled); or one angle that was moved in a layout is on its way   *)
(* to the triangle (RealUp, TofUp).                                        *)

\* Functions that in the end call EmitUpdate, and the ones that change nothing
\* that it reads.
Fixers == {"TriangleMoved", "EmitUpdate", "UpdateDs", "SetSense", "CalcPeaks",
           "LoadEnd"}
Quiets == {"EmitUpdate", "EmitAllParams", "ResoSense", "ResoPars",
           "RealEmitAllParams", "ResoUpdateOn"}
Fixed(q) == \E i \in DOMAIN q : q[i].op \in Fixers
  /\ Below(q, i) \subseteq Quiets

\* The functions that run when the triangle is right, and tell it nothing but
\* what it has.
CalmOps == {"TriangleMoved", "EmitUpdate", "EmitAllParams",
   "TasChangedEnd",
   "RealTriangleChanged", "RealTriangleChangedEnd", "RealSet", "RealAngleKiQ",
   "RealMoved", "RealMovedFirst", "RealMovedEnd", "RealEmit",
     "RealEmitAllParams",
   "TofTriangleChanged", "TofTriangleChangedEnd", "TofSet", "TofAngleKiQ",
   "TofMoved", "TofMovedEnd", "TofEmit", "RecipDialogs", "ResoRecip",
     "ResoReal",
   "ResoPars", "ResoSense", "ResoUpdateOn"}

\* Values that are the same angle to the layouts: the ones of the crystals are
\* folded by absolute value when the triangle is told.
Like(x, v, w) == IF x \in Crystals THEN Abs(v) = Abs(w) ELSE v = w

\* Calls of a layout to the triangle are made only inside of the function by
\* which the triangle tells the layout its angles, thus are ignored.
CalmFit(f, O) ==
  /\ f.op \in CalmOps
  /\ Lifts(f) \/ f.op = "RealSet" => "RealTriangleChangedEnd" \in O
  /\ TofLifts(f) \/ f.op = "TofSet" => "TofTriangleChangedEnd" \in O
Calm(q) == \A i \in DOMAIN q : CalmFit(q[i], Below(q, i))

\* What a layout is still told is as in the triangle, A being its angles.
Carries(f) == f.op \in {"RealTriangleChanged", "TofTriangleChanged",
  "RealSet", "TofSet"}
GoodCall(f, A) == Carries(f) =>
  \A x \in DOMAIN f.arg \ {"kivec"} : Like(x, f.arg[x], A[x])
Good(q, A) == \A i \in DOMAIN q : GoodCall(q[i], A)
\* The angle x is still to be told.
RealPending(q, x) == \E i \in DOMAIN q :
  q[i].op \in {"RealTriangleChanged", "RealSet"} /\ x \in DOMAIN q[i].arg
TofPending(q, x) == \E i \in DOMAIN q :
  q[i].op \in {"TofTriangleChanged", "TofSet"} /\ x \in DOMAIN q[i].arg

\* The triangle is right: the layouts have its angles or are to be told them.
Settled ==
  /\ Calm(todo) /\ Good(todo, TriangleAngles)
  /\ \A x \in Angles : Like(x, real[x], TriangleAngles[x])
       \/ RealPending(todo, x)
  /\ \A x \in {"tt", "th"} : tof[x] = TriangleAngles[x] \/ TofPending(todo, x)

\* The node of the triple-axis layout that moves an angle.
Mover == [mono |-> "sample", tt |-> "ana", ana |-> "det"]
\* The angle x of the triple-axis layout is on its way to the triangle, and
\* from there to the other layout; in all others the layouts agree with it.
RealUp(x) ==
  LET v == Only(x, real[x]) IN
  /\ todo \in {<<CallWith("RealMoved", Mover[x])>>,
               <<CallWith("RealEmit", v), CallWith("RealMovedEnd", TRUE)>>,
               <<CallWith("TasChanged", v), CallWith("TofTriangleChanged", v),
                 CallWith("RealMovedEnd", TRUE)>>,
               <<CallWith("Set", v), CallOf("TasChangedEnd"),
                 CallWith("TofTriangleChanged", v),
                 CallWith("RealMovedEnd", TRUE)>>}
  /\ \A y \in Angles \ {x} : Like(y, real[y], TriangleAngles[y])
  /\ tof.th = TriangleAngles.th /\ (x = "tt" \/ tof.tt = TriangleAngles.tt)
\* The same of the only angle that the time-of-flight layout moves, 2theta.
TofUp ==
  LET v == Only("tt", tof.tt) IN
  /\ todo \in {<<CallWith("TofMoved", "sample")>>,
       <<CallWith("TofMoved", "det")>>,
               <<CallWith("TofEmit", v), CallOf("TofMovedEnd")>>,
               <<CallWith("TasChanged", v), CallWith("RealTriangleChanged", v),
                 CallOf("TofMovedEnd")>>,
               <<CallWith("Set", v), CallOf("TasChangedEnd"),
                 CallWith("RealTriangleChanged", v),
                 CallOf("TofMovedEnd")>>}
  /\ \A y \in Angles \ {"tt"} : Like(y, real[y], TriangleAngles[y])
  /\ tof.th = TriangleAngles.th

\* The inductive invariant.
LayoutInv == Fixed(todo) \/ Settled
  \/ (\E x \in {"mono", "ana", "tt"} : RealUp(x)) \/ TofUp

-----------------------------------------------------------------------------
(* Angles and wavenumbers: what is computed has the type it must have, and *)
(* an angle that is folded twice is as before.                             *)

LEMMA ModOf == ASSUME NEW x \in Int, NEW n \in Nat \ {0}
       PROVE x % n \in 0 .. n - 1 /\ x = n * (x \div n) + (x % n)
  OBVIOUS

LEMMA ModUnique == ASSUME NEW r \in Int, NEW n \in Nat \ {0}, NEW q \in Int,
       0 <= r, r < n
  PROVE (r + n * q) % n = r
  OBVIOUS

LEMMA WavenumberOf ==
  ASSUME NEW a \in Magnitudes, NEW d \in Spacings
  PROVE Wavenumber(a, d) \in Waves /\ BraggAngle(Wavenumber(a, d), d) = a
<1> DEFINE x == a - 1 - d
           m == x % NWaves
           q == x \div NWaves
<1>0. NWaves \in Nat \ {0} /\ a \in Int /\ d \in Int /\ 1 <= a /\ a <= NWaves
      /\ x \in Int
  BY ScAssumption DEF Magnitudes, Spacings
<1>1. m \in 0 .. NWaves - 1 /\ x = NWaves * q + m /\ q \in Int
  <2>1. \A y \in Int, n \in Nat \ {0} :
          y % n \in 0 .. n - 1 /\ y = n * (y \div n) + (y % n)
    BY ModOf
  <2> HIDE DEF x
  <2>2. x % NWaves \in 0 .. NWaves - 1
        /\ x = NWaves * (x \div NWaves) + (x % NWaves)
    BY <1>0, <2>1
  <2> QED BY <1>0, <2>2
<1>2. (m + d) % NWaves = a - 1
  <2>1. m + d = (a - 1) + NWaves * (0 - q)
    BY <1>0, <1>1
  <2>2. ((a - 1) + NWaves * (0 - q)) % NWaves = a - 1
    <3> DEFINE r == a - 1  p == 0 - q
    <3>1. r \in Int /\ 0 <= r /\ r < NWaves /\ p \in Int  BY <1>0, <1>1
    <3> HIDE DEF r, p
    <3>2. (r + NWaves * p) % NWaves = r BY <3>1, <1>0, ModUnique
    <3> QED BY <3>2 DEF r, p
  <2> QED BY <2>1, <2>2
<1>3. m \in Waves /\ BraggAngle(m, d) = a
  BY <1>0, <1>1, <1>2 DEF Waves, BraggAngle
<1> QED BY <1>3 DEF Wavenumber

LEMMA BraggType ==
  ASSUME NEW k \in Waves, NEW d \in Spacings
  PROVE BraggAngle(k, d) \in Magnitudes
<1>1. NWaves \in Nat \ {0} /\ k + d \in Int BY ScAssumption DEF Waves, Spacings
<1>2. (k + d) % NWaves \in 0 .. NWaves - 1 BY <1>1, ModOf
<1> QED BY <1>1, <1>2 DEF BraggAngle, Magnitudes

LEMMA SignedAbs ==
  ASSUME NEW a \in Magnitudes, NEW s \in BOOLEAN
  PROVE Signed(a, s) \in SignedAngles /\ Abs(Signed(a, s)) = a
BY ScAssumption DEF Magnitudes, Signed, SignedAngles, Abs

LEMMA AbsType ==
  ASSUME NEW a \in SignedAngles PROVE Abs(a) \in Magnitudes
BY ScAssumption DEF Magnitudes, SignedAngles, Abs

LEMMA TurnIs ==
  ASSUME NEW t \in Turns, NEW s \in BOOLEAN
  PROVE Turn(t, s) = IF s \/ t = 0 THEN t ELSE NTurns - t
<1> SUFFICES ASSUME ~s
       PROVE (NTurns - t) % NTurns = IF t = 0 THEN 0 ELSE NTurns - t
  BY DEF Turn
<1>1. NTurns \in Nat \ {0} /\ t \in Int /\ 0 <= t /\ t < NTurns
      BY ScAssumption DEF Turns
<1>2. CASE t = 0
  <2>1. (0 + NTurns * 1) % NTurns = 0 BY <1>1, ModUnique
  <2> QED BY <1>1, <1>2, <2>1
<1>3. CASE t # 0
  <2> DEFINE r == NTurns - t
  <2>1. r \in Int /\ 0 <= r /\ r < NTurns BY <1>1, <1>3
  <2> HIDE DEF r
  <2>2. (r + NTurns * 0) % NTurns = r BY <1>1, <2>1, ModUnique
  <2>3. r + NTurns * 0 = r BY <1>1, <2>1
  <2> QED BY <2>2, <2>3, <1>3 DEF r
<1> QED BY <1>2, <1>3

LEMMA TurnTwice ==
  ASSUME NEW t \in Turns, NEW s \in BOOLEAN
  PROVE Turn(t, s) \in Turns /\ Turn(Turn(t, s), s) = t
         /\ FoldedTurn(Turn(t, s)) = FoldedTurn(t)
<1>1. Turn(t, s) \in Turns BY TurnIs, ScAssumption DEF Turns
<1>2. Turn(Turn(t, s), s) = IF s \/ Turn(t, s) = 0 THEN Turn(t, s)
      ELSE NTurns - Turn(t, s)
  BY <1>1, TurnIs
<1> QED BY <1>1, <1>2, TurnIs, ScAssumption DEF Turns, FoldedTurn
-----------------------------------------------------------------------------
(* Calls pushed and popped.                                                *)

LEMMA EmptyStack == IsStack(<<>>) /\ Ops(<<>>) = {} /\ DOMAIN <<>> = {}
BY DEF IsStack, Ops

LEMMA PushParts ==
  ASSUME NEW f, NEW q, IsStack(q)
  PROVE /\ IsStack(Push(f, q)) /\ Push(f, q) # <<>>
        /\ Head(Push(f, q)) = f /\ Tail(Push(f, q)) = q
        /\ Len(q) \in Nat /\ DOMAIN q = 1 .. Len(q)
        /\ DOMAIN Push(f, q) = 1 .. Len(q) + 1
        /\ Push(f, q)[1] = f
        /\ \A i \in 1 .. Len(q) : Push(f, q)[i + 1] = q[i]
<1> DEFINE S == {q[i] : i \in DOMAIN q}
           T == {f} \cup S
           p == Push(f, q)
<1>1. q \in Seq(S) BY DEF IsStack
<1>2. q \in Seq(T) /\ <<f>> \in Seq(T) /\ f \in T
  <2>1. Len(q) \in Nat /\ DOMAIN q = 1 .. Len(q)
        /\ \A i \in 1 .. Len(q) : q[i] \in S
    BY <1>1
  <2>2. q = [i \in 1 .. Len(q) |-> q[i]] BY <1>1
  <2>3. q \in [1 .. Len(q) -> T] BY <2>1, <2>2
  <2>4. q \in Seq(T) BY <2>1, <2>3
  <2>5. f \in T OBVIOUS
  <2> HIDE DEF T, S
  <2> QED BY <2>4, <2>5
<1> HIDE DEF S, T
<1>3. p \in Seq(T) /\ p # <<>> /\ Head(p) = f /\ Len(p) = Len(q) + 1
      /\ Len(q) \in Nat /\ DOMAIN q = 1 .. Len(q)
           /\ DOMAIN p = 1 .. Len(q) + 1 /\ p[1] = f
  BY <1>2 DEF Push
<1>4. \A i \in 1 .. Len(q) : p[i + 1] = q[i]
  BY <1>2 DEF Push
<1>5. Tail(p) = q
  <2>1. Tail(p) \in Seq(T) /\ Len(Tail(p)) = Len(q)
        /\ \A i \in 1 .. Len(q) : Tail(p)[i] = p[i + 1]
    BY <1>3
  <2>2. \A i \in 1 .. Len(q) : Tail(p)[i] = q[i] BY <2>1, <1>4
  <2> DEFINE u == Tail(p)
  <2>3. q = [i \in 1 .. Len(q) |-> q[i]] BY <1>2
  <2>4. u \in Seq(T) /\ Len(u) = Len(q) BY <2>1
  <2> HIDE DEF u
  <2>5. u = [i \in 1 .. Len(u) |-> u[i]] BY <2>4
  <2>6. \A i \in 1 .. Len(q) : u[i] = q[i] BY <2>2 DEF u
  <2>7. u = q BY <2>3, <2>4, <2>5, <2>6
  <2> QED BY <2>7 DEF u
<1>6. IsStack(p)
  <2>1. p = [i \in 1 .. Len(p) |-> p[i]] /\ Len(p) \in Nat
        /\ DOMAIN p = 1 .. Len(p) BY <1>3
  <2>2. p \in [1 .. Len(p) -> {p[i] : i \in DOMAIN p}] BY <2>1
  <2> QED BY <2>1, <2>2 DEF IsStack
<1> QED BY <1>3, <1>4, <1>5, <1>6

LEMMA PopParts ==
  ASSUME NEW q, IsStack(q), q # <<>>
  PROVE IsStack(Tail(q)) /\ q = Push(Head(q), Tail(q))
<1> DEFINE S == {q[i] : i \in DOMAIN q}
           t == Tail(q)
<1>1. q \in Seq(S) BY DEF IsStack
<1> HIDE DEF S
<1>2. t \in Seq(S) /\ Len(t) = Len(q) - 1 /\ Len(q) \in Nat /\ Len(q) > 0
      /\ Head(q) = q[1] /\ Head(q) \in S
      /\ \A i \in 1 .. Len(t) : t[i] = q[i + 1]
  BY <1>1
<1>3. IsStack(t)
  <2>0. t \in Seq(S) BY <1>2
  <2> HIDE DEF t
  <2>1. t = [i \in 1 .. Len(t) |-> t[i]] /\ Len(t) \in Nat
        /\ DOMAIN t = 1 .. Len(t) BY <2>0
  <2>2. t \in [1 .. Len(t) -> {t[i] : i \in DOMAIN t}] BY <2>1
  <2> QED BY <2>1, <2>2 DEF IsStack
<1>4. q = <<Head(q)>> \o t BY <1>1, <1>2
<1> QED BY <1>3, <1>4 DEF Push

\* What a push adds to the functions, and what is below each of the calls.
LEMMA PushOps ==
  \A f, q : IsStack(q) => Ops(Push(f, q)) = {f.op} \cup Ops(q)
<1> SUFFICES ASSUME NEW f, NEW q, IsStack(q)
       PROVE Ops(Push(f, q)) = {f.op} \cup Ops(q)
  OBVIOUS
<1> DEFINE p == Push(f, q)
<1>1. /\ DOMAIN q = 1 .. Len(q) /\ Len(q) \in Nat /\ DOMAIN p = 1 .. Len(q) + 1
      /\ p[1] = f /\ \A i \in 1 .. Len(q) : p[i + 1] = q[i]
  BY PushParts
<1> HIDE DEF p
<1>2. ASSUME NEW i \in DOMAIN p
      PROVE p[i].op \in {f.op} \cup {q[j].op : j \in DOMAIN q}
  <2>1. CASE i = 1 BY <1>1, <2>1
  <2>2. CASE i # 1
    <3>1. i - 1 \in 1 .. Len(q) /\ p[(i - 1) + 1] = q[i - 1]
          /\ (i - 1) + 1 = i BY <1>1, <2>2
    <3> QED BY <3>1, <1>1
  <2> QED BY <2>1, <2>2
<1>3. f.op \in {p[i].op : i \in DOMAIN p}
  <2>1. 1 \in DOMAIN p BY <1>1
  <2> QED BY <2>1, <1>1
<1>4. ASSUME NEW j \in DOMAIN q PROVE q[j].op \in {p[i].op : i \in DOMAIN p}
  <2>1. j + 1 \in DOMAIN p /\ p[j + 1] = q[j] BY <1>1
  <2> QED BY <2>1
<1>5. Ops(p) = {f.op} \cup Ops(q) BY <1>2, <1>3, <1>4 DEF Ops
<1> QED BY <1>5 DEF p

LEMMA PushBelow ==
  ASSUME NEW f, NEW q, IsStack(q)
  PROVE /\ Below(Push(f, q), 1) = Ops(q)
        /\ \A i \in DOMAIN q : Below(Push(f, q), i + 1) = Below(q, i)
<1> DEFINE p == Push(f, q)
<1>1. /\ DOMAIN q = 1 .. Len(q) /\ Len(q) \in Nat /\ DOMAIN p = 1 .. Len(q) + 1
      /\ p[1] = f /\ \A i \in 1 .. Len(q) : p[i + 1] = q[i]
  BY PushParts
<1> HIDE DEF p
<1>2. ASSUME NEW i \in 0 .. Len(q)
      PROVE {p[j].op : j \in {k \in DOMAIN p : k > i + 1}}
            = {q[j].op : j \in {k \in DOMAIN q : k > i}}
  <2>1. ASSUME NEW j \in DOMAIN p, j > i + 1
        PROVE p[j].op \in {q[m].op : m \in {k \in DOMAIN q : k > i}}
    <3>1. j - 1 \in DOMAIN q /\ j - 1 > i /\ p[(j - 1) + 1] = q[j - 1]
          /\ (j - 1) + 1 = j
      BY <1>1, <2>1
    <3> QED BY <3>1
  <2>2. ASSUME NEW j \in DOMAIN q, j > i
        PROVE q[j].op \in {p[m].op : m \in {k \in DOMAIN p : k > i + 1}}
    <3>1. j + 1 \in DOMAIN p /\ j + 1 > i + 1 /\ p[j + 1] = q[j] BY <1>1, <2>2
    <3> QED BY <3>1
  <2> QED BY <2>1, <2>2
<1>3. Below(p, 1) = Ops(q)
  <2>1. {k \in DOMAIN q : k > 0} = DOMAIN q BY <1>1
  <2>2. {p[j].op : j \in {k \in DOMAIN p : k > 0 + 1}}
        = {q[j].op : j \in {k \in DOMAIN q : k > 0}}
    <3>1. 0 \in 0 .. Len(q) BY <1>1
    <3> QED BY <3>1, <1>2
  <2>3. {k \in DOMAIN p : k > 0 + 1} = {k \in DOMAIN p : k > 1} OBVIOUS
  <2> QED BY <2>1, <2>2, <2>3 DEF Below, Ops
<1>4. ASSUME NEW i \in DOMAIN q PROVE Below(p, i + 1) = Below(q, i)
  <2>1. i \in 0 .. Len(q) BY <1>1
  <2> QED BY <1>2, <2>1 DEF Below
<1> QED BY <1>3, <1>4 DEF p
-----------------------------------------------------------------------------
(* What the parts of the invariant say of calls when one is pushed: each   *)
(* asks something of the new one, and the same of the others as before.    *)

LEMMA PushIndex ==
  ASSUME NEW f, NEW q, IsStack(q)
  PROVE LET p == Push(f, q) IN
        /\ \A i \in DOMAIN p : i = 1 \/ \E j \in DOMAIN q : i = j + 1
        /\ 1 \in DOMAIN p /\ p[1] = f /\ Below(p, 1) = Ops(q)
        /\ \A j \in DOMAIN q : j + 1 \in DOMAIN p /\ p[j + 1] = q[j]
                                /\ Below(p, j + 1) = Below(q, j)
<1> DEFINE p == Push(f, q)
<1>1. /\ DOMAIN q = 1 .. Len(q) /\ Len(q) \in Nat /\ DOMAIN p = 1 .. Len(q) + 1
      /\ p[1] = f /\ \A i \in 1 .. Len(q) : p[i + 1] = q[i]
  BY PushParts
<1>2. Below(p, 1) = Ops(q) /\ \A j \in DOMAIN q : Below(p, j + 1) = Below(q, j)
  BY PushBelow
<1> HIDE DEF p
<1>3. ASSUME NEW i \in DOMAIN p, i # 1 PROVE \E j \in DOMAIN q : i = j + 1
  <2>1. i - 1 \in DOMAIN q /\ i = (i - 1) + 1 BY <1>1, <1>3
  <2> QED BY <2>1
<1>4. \A j \in DOMAIN q : j + 1 \in DOMAIN p /\ p[j + 1] = q[j] BY <1>1
<1>5. 1 \in DOMAIN p BY <1>1
<1> QED BY <1>1, <1>2, <1>3, <1>4, <1>5 DEF p

LEMMA NestedPush ==
  \A f, q : IsStack(q) =>
    (Nested(Push(f, q)) <=> NestFit(f, Ops(q)) /\ Nested(q))
<1> SUFFICES ASSUME NEW f, NEW q, IsStack(q)
             PROVE Nested(Push(f, q)) <=> NestFit(f, Ops(q)) /\ Nested(q)
  OBVIOUS
<1> DEFINE p == Push(f, q)
<1>1. /\ \A i \in DOMAIN p : i = 1 \/ \E j \in DOMAIN q : i = j + 1
      /\ 1 \in DOMAIN p /\ p[1] = f /\ Below(p, 1) = Ops(q)
      /\ \A j \in DOMAIN q : j + 1 \in DOMAIN p /\ p[j + 1] = q[j]
                              /\ Below(p, j + 1) = Below(q, j)
  BY PushIndex
<1> HIDE DEF p
<1>2. Nested(p) <=> NestFit(f, Ops(q)) /\ Nested(q)
  BY <1>1 DEF Nested
<1> QED BY <1>2 DEF p


LEMMA TypedPush ==
  \A f, q : IsStack(q) =>
    (Typed(Push(f, q)) <=> TypedCall(f) /\ Typed(q))
<1> SUFFICES ASSUME NEW f, NEW q, IsStack(q)
             PROVE Typed(Push(f, q)) <=> TypedCall(f) /\ Typed(q)
  OBVIOUS
<1> DEFINE p == Push(f, q)
<1>1. /\ \A i \in DOMAIN p : i = 1 \/ \E j \in DOMAIN q : i = j + 1
      /\ 1 \in DOMAIN p /\ p[1] = f /\ Below(p, 1) = Ops(q)
      /\ \A j \in DOMAIN q : j + 1 \in DOMAIN p /\ p[j + 1] = q[j]
                              /\ Below(p, j + 1) = Below(q, j)
  BY PushIndex
<1> HIDE DEF p
<1>2. Typed(p) <=> TypedCall(f) /\ Typed(q)
  BY <1>1 DEF Typed
<1> QED BY <1>2 DEF p


LEMMA CalmPush ==
  \A f, q : IsStack(q) =>
    (Calm(Push(f, q)) <=> CalmFit(f, Ops(q)) /\ Calm(q))
<1> SUFFICES ASSUME NEW f, NEW q, IsStack(q)
             PROVE Calm(Push(f, q)) <=> CalmFit(f, Ops(q)) /\ Calm(q)
  OBVIOUS
<1> DEFINE p == Push(f, q)
<1>1. /\ \A i \in DOMAIN p : i = 1 \/ \E j \in DOMAIN q : i = j + 1
      /\ 1 \in DOMAIN p /\ p[1] = f /\ Below(p, 1) = Ops(q)
      /\ \A j \in DOMAIN q : j + 1 \in DOMAIN p /\ p[j + 1] = q[j]
                              /\ Below(p, j + 1) = Below(q, j)
  BY PushIndex
<1> HIDE DEF p
<1>2. Calm(p) <=> CalmFit(f, Ops(q)) /\ Calm(q)
  BY <1>1 DEF Calm
<1> QED BY <1>2 DEF p


LEMMA GoodPush ==
  \A f, q, A : IsStack(q) =>
    (Good(Push(f, q), A) <=> GoodCall(f, A) /\ Good(q, A))
<1> SUFFICES ASSUME NEW f, NEW q, NEW A, IsStack(q)
             PROVE Good(Push(f, q), A) <=> GoodCall(f, A) /\ Good(q, A)
  OBVIOUS
<1> DEFINE p == Push(f, q)
<1>1. /\ \A i \in DOMAIN p : i = 1 \/ \E j \in DOMAIN q : i = j + 1
      /\ 1 \in DOMAIN p /\ p[1] = f /\ Below(p, 1) = Ops(q)
      /\ \A j \in DOMAIN q : j + 1 \in DOMAIN p /\ p[j + 1] = q[j]
                              /\ Below(p, j + 1) = Below(q, j)
  BY PushIndex
<1> HIDE DEF p
<1>2. Good(p, A) <=> GoodCall(f, A) /\ Good(q, A)
  BY <1>1 DEF Good
<1> QED BY <1>2 DEF p


LEMMA FixedPush ==
  \A f, q : IsStack(q) =>
    (Fixed(Push(f, q)) <=> (f.op \in Fixers /\ Ops(q) \subseteq Quiets)
      \/ Fixed(q))
<1> SUFFICES ASSUME NEW f, NEW q, IsStack(q)
             PROVE Fixed(Push(f, q))
                    <=> (f.op \in Fixers /\ Ops(q) \subseteq Quiets)
                      \/ Fixed(q)
  OBVIOUS
<1> DEFINE p == Push(f, q)
<1>1. /\ \A i \in DOMAIN p : i = 1 \/ \E j \in DOMAIN q : i = j + 1
      /\ 1 \in DOMAIN p /\ p[1] = f /\ Below(p, 1) = Ops(q)
      /\ \A j \in DOMAIN q : j + 1 \in DOMAIN p /\ p[j + 1] = q[j]
                              /\ Below(p, j + 1) = Below(q, j)
  BY PushIndex
<1> HIDE DEF p
<1>2. Fixed(p) <=> (f.op \in Fixers /\ Ops(q) \subseteq Quiets) \/ Fixed(q)
  BY <1>1 DEF Fixed
<1> QED BY <1>2 DEF p


LEMMA RealPendingPush ==
  \A f, q, x : IsStack(q) =>
    (RealPending(Push(f, q), x)
      <=> (f.op \in {"RealTriangleChanged", "RealSet"} /\ x \in DOMAIN f.arg)
        \/ RealPending(q, x))
<1> SUFFICES ASSUME NEW f, NEW q, NEW x, IsStack(q)
             PROVE RealPending(Push(f, q), x)
                    <=> (f.op \in {"RealTriangleChanged", "RealSet"}
                      /\ x \in DOMAIN f.arg) \/ RealPending(q, x)
  OBVIOUS
<1> DEFINE p == Push(f, q)
<1>1. /\ \A i \in DOMAIN p : i = 1 \/ \E j \in DOMAIN q : i = j + 1
      /\ 1 \in DOMAIN p /\ p[1] = f /\ Below(p, 1) = Ops(q)
      /\ \A j \in DOMAIN q : j + 1 \in DOMAIN p /\ p[j + 1] = q[j]
                              /\ Below(p, j + 1) = Below(q, j)
  BY PushIndex
<1> HIDE DEF p
<1>2. RealPending(p, x) <=> (f.op \in {"RealTriangleChanged", "RealSet"}
      /\ x \in DOMAIN f.arg) \/ RealPending(q, x)
  BY <1>1 DEF RealPending
<1> QED BY <1>2 DEF p


LEMMA TofPendingPush ==
  \A f, q, x : IsStack(q) =>
    (TofPending(Push(f, q), x) <=> (f.op \in {"TofTriangleChanged", "TofSet"}
      /\ x \in DOMAIN f.arg) \/ TofPending(q, x))
<1> SUFFICES ASSUME NEW f, NEW q, NEW x, IsStack(q)
             PROVE TofPending(Push(f, q), x)
                    <=> (f.op \in {"TofTriangleChanged", "TofSet"}
                      /\ x \in DOMAIN f.arg) \/ TofPending(q, x)
  OBVIOUS
<1> DEFINE p == Push(f, q)
<1>1. /\ \A i \in DOMAIN p : i = 1 \/ \E j \in DOMAIN q : i = j + 1
      /\ 1 \in DOMAIN p /\ p[1] = f /\ Below(p, 1) = Ops(q)
      /\ \A j \in DOMAIN q : j + 1 \in DOMAIN p /\ p[j + 1] = q[j]
                              /\ Below(p, j + 1) = Below(q, j)
  BY PushIndex
<1> HIDE DEF p
<1>2. TofPending(p, x) <=> (f.op \in {"TofTriangleChanged", "TofSet"}
      /\ x \in DOMAIN f.arg) \/ TofPending(q, x)
  BY <1>1 DEF TofPending
<1> QED BY <1>2 DEF p


-----------------------------------------------------------------------------
(* Sequences of calls, written as pushes.                                  *)

LEMMA StackJoin ==
  \A a, b, c : IsStack(a) /\ IsStack(b) /\ IsStack(c) =>
    (a \o b) \o c = a \o (b \o c) /\ IsStack(a \o b)
<1> SUFFICES ASSUME NEW a, NEW b, NEW c, IsStack(a), IsStack(b), IsStack(c)
             PROVE (a \o b) \o c = a \o (b \o c) /\ IsStack(a \o b)
  OBVIOUS
<1> DEFINE A == {a[i] : i \in DOMAIN a}
           B == {b[i] : i \in DOMAIN b}
           C == {c[i] : i \in DOMAIN c}
           S == A \cup B \cup C
<1>1. a \in Seq(A) /\ b \in Seq(B) /\ c \in Seq(C) BY DEF IsStack
<1> HIDE DEF A, B, C
<1>2. ASSUME NEW T \in {A, B, C}, NEW q \in Seq(T) PROVE q \in Seq(S)
  <2>1. T \subseteq S OBVIOUS
  <2> HIDE DEF S
  <2>2. q = [i \in 1 .. Len(q) |-> q[i]] /\ Len(q) \in Nat
        /\ \A i \in 1 .. Len(q) : q[i] \in T
    OBVIOUS
  <2>3. q \in [1 .. Len(q) -> S] BY <2>1, <2>2
  <2> QED BY <2>2, <2>3
<1>3. a \in Seq(S) /\ b \in Seq(S) /\ c \in Seq(S) BY <1>1, <1>2
<1> HIDE DEF S
<1>4. (a \o b) \o c = a \o (b \o c) BY <1>3, ConcatAssociative
<1> DEFINE d == a \o b
<1>5. d \in Seq(S) BY <1>3
<1> HIDE DEF d
<1>6. d = [i \in 1 .. Len(d) |-> d[i]] /\ Len(d) \in Nat
      /\ DOMAIN d = 1 .. Len(d)
  BY <1>5
<1>7. d \in [1 .. Len(d) -> {d[i] : i \in DOMAIN d}] BY <1>6
<1>8. IsStack(d)
  <2> DEFINE D == {d[i] : i \in DOMAIN d}
  <2>1. d \in [1 .. Len(d) -> D] /\ Len(d) \in Nat BY <1>6, <1>7
  <2> HIDE DEF D
  <2>2. d \in Seq(D) BY <2>1
  <2> QED BY <2>2 DEF IsStack, D
<1> QED BY <1>4, <1>8 DEF d

LEMMA JoinAssoc ==
  \A a, b, c : IsStack(a) /\ IsStack(b) /\ IsStack(c) =>
    (a \o b) \o c = a \o (b \o c)
BY StackJoin

LEMMA JoinStack == \A a, b : IsStack(a) /\ IsStack(b) => IsStack(a \o b)
BY StackJoin, EmptyStack

LEMMA EmptyJoin == \A q : IsStack(q) => <<>> \o q = q /\ q \o <<>> = q
<1> SUFFICES ASSUME NEW q, IsStack(q) PROVE <<>> \o q = q /\ q \o <<>> = q
  OBVIOUS
<1> DEFINE S == {q[i] : i \in DOMAIN q}
<1>1. q \in Seq(S) BY DEF IsStack
<1> HIDE DEF S
<1> QED BY <1>1

LEMMA One == \A f : IsStack(<<f>>) /\ <<f>> = Push(f, <<>>)
<1> SUFFICES ASSUME NEW f PROVE IsStack(<<f>>) /\ <<f>> = Push(f, <<>>)
  OBVIOUS
<1>1. Push(f, <<>>) = <<f>> BY DEF Push
<1> QED BY <1>1, EmptyStack, PushParts

LEMMA StackPush == \A f, q : IsStack(q) => IsStack(Push(f, q))
BY PushParts

LEMMA JoinPush ==
  \A f, q, s : IsStack(q) /\ IsStack(s) => Push(f, s) \o q = Push(f, s \o q)
<1> SUFFICES ASSUME NEW f, NEW q, NEW s, IsStack(q), IsStack(s)
             PROVE (<<f>> \o s) \o q = <<f>> \o (s \o q)
  BY DEF Push
<1>1. IsStack(<<f>>) BY One
<1> QED BY <1>1, StackJoin

LEMMA Two == \A f, g : <<f, g>> = Push(f, Push(g, <<>>))
<1> SUFFICES ASSUME NEW f, NEW g PROVE <<f, g>> = Push(f, Push(g, <<>>))
  OBVIOUS
<1>1. Push(g, <<>>) = <<g>> BY One
<1>2. Push(f, <<g>>) = <<f, g>>
  <2> DEFINE S == {f, g}
             a == <<f>>
             b == <<g>>
             c == <<f, g>>
  <2>1. a \in Seq(S) /\ b \in Seq(S) /\ c \in Seq(S) OBVIOUS
  <2>2. Len(a \o b) = 2 /\ Len(c) = 2 /\ \A i \in 1 .. 2 : (a \o b)[i] = c[i]
    OBVIOUS
  <2> HIDE DEF S, a, b, c
  <2>3. a \o b \in Seq(S) BY <2>1
  <2> DEFINE d == a \o b
  <2> HIDE DEF d
  <2>4. d \in Seq(S) /\ Len(d) = 2 /\ Len(c) = 2 /\ \A i \in 1 .. 2 : d[i]
        = c[i]
    BY <2>2, <2>3 DEF d
  <2>5. d = [i \in 1 .. 2 |-> d[i]] /\ c = [i \in 1 .. 2 |-> c[i]]
    BY <2>1, <2>4
  <2>6. d = c BY <2>4, <2>5
  <2> QED BY <2>6 DEF Push, a, b, c, d
<1> QED BY <1>1, <1>2

LEMMA Three == \A f, g, h : <<f, g, h>> = Push(f, Push(g, Push(h, <<>>)))
<1> SUFFICES ASSUME NEW f, NEW g, NEW h
       PROVE <<f, g, h>> = Push(f, Push(g, Push(h, <<>>)))
  OBVIOUS
<1>1. Push(g, Push(h, <<>>)) = <<g, h>> BY Two
<1>2. Push(f, <<g, h>>) = <<f, g, h>>
  <2> DEFINE S == {f, g, h}
             a == <<f>>
             b == <<g, h>>
             c == <<f, g, h>>
  <2>1. a \in Seq(S) /\ b \in Seq(S) /\ c \in Seq(S) OBVIOUS
  <2>2. Len(a \o b) = 3 /\ Len(c) = 3 /\ \A i \in 1 .. 3 : (a \o b)[i] = c[i]
    OBVIOUS
  <2> HIDE DEF S, a, b, c
  <2>3. a \o b \in Seq(S) BY <2>1
  <2> DEFINE d == a \o b
  <2> HIDE DEF d
  <2>4. d \in Seq(S) /\ Len(d) = 3 /\ Len(c) = 3 /\ \A i \in 1 .. 3 : d[i]
        = c[i]
    BY <2>2, <2>3 DEF d
  <2>5. d = [i \in 1 .. 3 |-> d[i]] /\ c = [i \in 1 .. 3 |-> c[i]]
    BY <2>1, <2>4
  <2>6. d = c BY <2>4, <2>5
  <2> QED BY <2>6 DEF Push, a, b, c, d
<1> QED BY <1>1, <1>2

LEMMA Four ==
  \A f, g, h, k : <<f, g, h, k>> = Push(f, Push(g, Push(h, Push(k, <<>>))))
<1> SUFFICES ASSUME NEW f, NEW g, NEW h, NEW k
             PROVE <<f, g, h, k>> = Push(f, Push(g, Push(h, Push(k, <<>>))))
  OBVIOUS
<1>1. Push(g, Push(h, Push(k, <<>>))) = <<g, h, k>> BY Three
<1>2. Push(f, <<g, h, k>>) = <<f, g, h, k>>
  <2> DEFINE S == {f, g, h, k}
             a == <<f>>
             b == <<g, h, k>>
             c == <<f, g, h, k>>
  <2>1. a \in Seq(S) /\ b \in Seq(S) /\ c \in Seq(S) OBVIOUS
  <2>2. Len(a \o b) = 4 /\ Len(c) = 4 /\ \A i \in 1 .. 4 : (a \o b)[i] = c[i]
    OBVIOUS
  <2> HIDE DEF S, a, b, c
  <2>3. a \o b \in Seq(S) BY <2>1
  <2> DEFINE d == a \o b
  <2> HIDE DEF d
  <2>4. d \in Seq(S) /\ Len(d) = 4 /\ Len(c) = 4 /\ \A i \in 1 .. 4 : d[i]
        = c[i]
    BY <2>2, <2>3 DEF d
  <2>5. d = [i \in 1 .. 4 |-> d[i]] /\ c = [i \in 1 .. 4 |-> c[i]]
    BY <2>1, <2>4
  <2>6. d = c BY <2>4, <2>5
  <2> QED BY <2>6 DEF Push, a, b, c, d
<1> QED BY <1>1, <1>2

\* What a call pushes.
LEMMA Unfold ==
  ASSUME NEW q, IsStack(q)
  PROVE /\ <<>> \o q = q
        /\ \A f : <<f>> \o q = Push(f, q)
        /\ \A f, g : <<f, g>> \o q = Push(f, Push(g, q))
        /\ \A f, g, h : <<f, g, h>> \o q = Push(f, Push(g, Push(h, q)))
        /\ \A f, g, h, k : <<f, g, h, k>>
             \o q = Push(f, Push(g, Push(h, Push(k, q))))
<1>1. <<>> \o q = q /\ IsStack(<<>>) BY EmptyJoin, EmptyStack
<1>2. ASSUME NEW f, NEW s, IsStack(s)
      PROVE Push(f, s) \o q = Push(f, s \o q) /\ IsStack(Push(f, s))
  BY <1>2, JoinPush, StackPush
<1>3. ASSUME NEW f PROVE <<f>> \o q = Push(f, q)
  BY DEF Push
<1>4. ASSUME NEW f, NEW g PROVE <<f, g>> \o q = Push(f, Push(g, q))
  <2> DEFINE a == Push(g, <<>>)
             c == <<f, g>>
  <2>1. IsStack(a) /\ a \o q = Push(g, q) BY <1>1, <1>2
  <2>2. c = Push(f, a) BY Two
  <2> HIDE DEF a, c
  <2>3. Push(f, a) \o q = Push(f, a \o q) BY <2>1, <1>2
  <2> QED BY <2>1, <2>2, <2>3 DEF c
<1>5. ASSUME NEW f, NEW g, NEW h
      PROVE <<f, g, h>> \o q = Push(f, Push(g, Push(h, q)))
  <2> DEFINE a == Push(g, Push(h, <<>>))
             b == <<g, h>>
             c == <<f, g, h>>
  <2>1. c = Push(f, a) /\ a = b BY Two, Three
  <2>2. b \o q = Push(g, Push(h, q)) BY <1>4
  <2>3. IsStack(a) BY <1>1, StackPush
  <2> HIDE DEF a, b, c
  <2>4. Push(f, a) \o q = Push(f, a \o q) BY <2>3, <1>2
  <2> QED BY <2>1, <2>2, <2>4 DEF c
<1>6. ASSUME NEW f, NEW g, NEW h, NEW k
      PROVE <<f, g, h, k>> \o q = Push(f, Push(g, Push(h, Push(k, q))))
  <2> DEFINE a == Push(g, Push(h, Push(k, <<>>)))
             b == <<g, h, k>>
             c == <<f, g, h, k>>
  <2>1. c = Push(f, a) /\ a = b BY Three, Four
  <2>2. b \o q = Push(g, Push(h, Push(k, q))) BY <1>5
  <2>3. IsStack(a) BY <1>1, StackPush
  <2> HIDE DEF a, b, c
  <2>4. Push(f, a) \o q = Push(f, a \o q) BY <2>3, <1>2
  <2> QED BY <2>1, <2>2, <2>4 DEF c
<1> QED BY <1>1, <1>3, <1>4, <1>5, <1>6

\* The calls of a setter for the angle x, made if the angle is among those of
\* a.
Setting(o, x, a, q) ==
  IF x \in DOMAIN a THEN Push(CallWith(o, Only(x, a[x])), q) ELSE q

Setters(o, x, a) == IF x \in DOMAIN a THEN <<CallWith(o, Only(x, a[x]))>>
  ELSE <<>>

LEMMA SettersJoin ==
  \A o, x, a, q : IsStack(q) =>
    /\ IsStack(Setters(o, x, a)) /\ IsStack(Setting(o, x, a, q))
    /\ Setters(o, x, a) \o q = Setting(o, x, a, q)
<1> SUFFICES ASSUME NEW o, NEW x, NEW a, NEW q, IsStack(q)
             PROVE /\ IsStack(Setters(o, x, a)) /\ IsStack(Setting(o, x, a, q))
                   /\ Setters(o, x, a) \o q = Setting(o, x, a, q)
  OBVIOUS
<1> DEFINE f == CallWith(o, Only(x, a[x]))
<1>1. <<>> \o q = q /\ <<f>> \o q = Push(f, q) BY Unfold
<1>2. IsStack(<<>>) /\ IsStack(<<f>>) /\ IsStack(Push(f, q))
  BY EmptyStack, One, StackPush
<1> HIDE DEF f
<1>3. CASE x \in DOMAIN a
  <2>1. Setters(o, x, a) = <<f>> /\ Setting(o, x, a, q) = Push(f, q)
    BY <1>3 DEF Setters, Setting, f
  <2> QED BY <2>1, <1>1, <1>2
<1>4. CASE x \notin DOMAIN a
  <2>1. Setters(o, x, a) = <<>> /\ Setting(o, x, a, q) = q
    BY <1>4 DEF Setters, Setting
  <2> QED BY <2>1, <1>1, <1>2
<1> QED BY <1>3, <1>4

\* The setters for the angles that a signal says are changed, and the end.
LEMMA TwoSetters ==
  \A o, x, y, a, e, q : IsStack(q) =>
    (Setters(o, x, a) \o Setters(o, y, a) \o <<e>>) \o q
    = Setting(o, x, a, Setting(o, y, a, Push(e, q)))
<1> SUFFICES ASSUME NEW o, NEW x, NEW y, NEW a, NEW e, NEW q, IsStack(q)
             PROVE (Setters(o, x, a) \o Setters(o, y, a) \o <<e>>) \o q
                   = Setting(o, x, a, Setting(o, y, a, Push(e, q)))
  OBVIOUS
<1> DEFINE s == Setters(o, x, a)
           t == Setters(o, y, a)
           u == <<e>>
           p == Push(e, q)
<1>1. IsStack(s) /\ IsStack(t) BY SettersJoin
<1>0. u \o q = p BY Unfold
<1>2. IsStack(u) /\ IsStack(p) BY One, StackPush
<1>3. t \o p = Setting(o, y, a, p) /\ IsStack(Setting(o, y, a, p))
  <2> HIDE DEF p
  <2> QED BY <1>2, SettersJoin
<1> DEFINE r == Setting(o, y, a, p)
<1>4. s \o r = Setting(o, x, a, r)
  <2> HIDE DEF r
  <2> QED BY <1>3, SettersJoin DEF r
<1> HIDE DEF s, t, u, p
<1>5. (s \o t) \o p = s \o (t \o p)
  BY <1>1, <1>2, JoinAssoc
<1>6. ((s \o t) \o u) \o q = (s \o t) \o (u \o q)
  <2> DEFINE v == s \o t
  <2>1. IsStack(v) BY <1>1, JoinStack
  <2> HIDE DEF v
  <2>2. (v \o u) \o q = v \o (u \o q) BY <1>2, <2>1, JoinAssoc
  <2> QED BY <2>2 DEF v
<1> QED BY <1>0, <1>3, <1>4, <1>5, <1>6 DEF s, t, u, p

Set4(o, w, x, y, z, a, e, q) ==
  (Setters(o, w, a) \o Setters(o, x, a) \o Setters(o, y, a) \o Setters(o, z, a)
    \o <<e>>) \o q
Setting4(o, w, x, y, z, a, e, q) ==
  Setting(o, w, a, Setting(o, x, a,
    Setting(o, y, a, Setting(o, z, a, Push(e, q)))))

LEMMA FourSetters ==
  \A o, w, x, y, z, a, e, q : IsStack(q) =>
    Set4(o, w, x, y, z, a, e, q) = Setting4(o, w, x, y, z, a, e, q)
<1> SUFFICES ASSUME NEW o, NEW w, NEW x, NEW y, NEW z, NEW a, NEW e, NEW q,
       IsStack(q)
             PROVE (Setters(o, w, a) \o Setters(o, x, a) \o Setters(o, y, a)
                     \o Setters(o, z, a) \o <<e>>) \o q
                   = Setting(o, w, a, Setting(o, x, a,
                       Setting(o, y, a, Setting(o, z, a, Push(e, q)))))
  BY DEF Set4, Setting4
<1> DEFINE r == Setters(o, w, a)
           s == Setters(o, x, a)
           t == Setters(o, y, a)
           v == Setters(o, z, a)
           u == <<e>>
           p == Push(e, q)
           k == Setting(o, z, a, p)
           m == Setting(o, y, a, k)
           n == Setting(o, x, a, m)
<1>1. IsStack(r) /\ IsStack(s) /\ IsStack(t) /\ IsStack(v) BY SettersJoin
<1>0. u \o q = p BY Unfold
<1>2. IsStack(u) /\ IsStack(p) BY One, StackPush
<1> HIDE DEF p
<1>3. IsStack(k) BY <1>2, SettersJoin
<1>31. v \o p = k BY <1>2, SettersJoin
<1> HIDE DEF k
<1>4. IsStack(m) BY <1>3, SettersJoin
<1>41. t \o k = m BY <1>3, SettersJoin
<1> HIDE DEF m
<1>5. IsStack(n) BY <1>4, SettersJoin
<1>51. s \o m = n BY <1>4, SettersJoin
<1> HIDE DEF n
<1>6. r \o n = Setting(o, w, a, n) BY <1>5, SettersJoin
<1> HIDE DEF r, s, t, v, u
<1> DEFINE rs == r \o s
           rst == rs \o t
           all == rst \o v
<1>71. IsStack(rs) BY <1>1, JoinStack
<1>11. rs \o m = r \o (s \o m)
  BY <1>1, <1>4, JoinAssoc
<1> HIDE DEF rs
<1>72. IsStack(rst) BY <1>1, <1>71, JoinStack
<1>10. rst \o k = rs \o (t \o k)
  BY <1>1, <1>3, <1>71, JoinAssoc
<1> HIDE DEF rst
<1>73. IsStack(all) BY <1>1, <1>72, JoinStack
<1>9. all \o p = rst \o (v \o p)
  <2>1. IsStack(v) /\ IsStack(p) BY <1>1, <1>2
  <2> QED BY <2>1, <1>72, JoinAssoc
<1> HIDE DEF all
<1>8. (all \o u) \o q = all \o (u \o q)
  BY <1>2, <1>73, JoinAssoc
<1> QED BY <1>0, <1>31, <1>41, <1>51, <1>6, <1>8, <1>9, <1>10, <1>11 DEF r, s,
    t, v, u, p, k, m, n, rs, rst, all

LEMMA Joins ==
  ASSUME NEW q, IsStack(q)
  PROVE /\ \A f : (<<>> \o <<f>>) \o q = Push(f, q)
        /\ \A f, g : (<<f>> \o <<g>>) \o q = Push(f, Push(g, q))
        /\ \A f, g : (<<>> \o <<f, g>>) \o q = Push(f, Push(g, q))
        /\ \A f, g, h : (<<f>> \o <<g, h>>) \o q = Push(f, Push(g, Push(h, q)))
        /\ \A f, g : (<<f, g>> \o <<>>) \o q = Push(f, Push(g, q))
        /\ \A f, g, h, k : (<<f, g>> \o <<h, k>>) \o q
                           = Push(f, Push(g, Push(h, Push(k, q))))
        /\ \A f, g, h : (<<f, g, h>> \o <<>>)
             \o q = Push(f, Push(g, Push(h, q)))
        /\ \A f, g, h, k : (<<f, g, h>> \o <<k>>) \o q
                           = Push(f, Push(g, Push(h, Push(k, q))))
<1>1. /\ <<>> \o q = q /\ IsStack(<<>>)
      /\ \A f : IsStack(<<f>>)
      /\ \A f, g : IsStack(<<f, g>>)
      /\ \A f, g, h : IsStack(<<f, g, h>>)
  <2>1. <<>> \o q = q /\ IsStack(<<>>) BY EmptyJoin, EmptyStack
  <2>2. \A f : IsStack(<<f>>) BY One
  <2>3. \A f, g : IsStack(<<f, g>>)
    <3>1. \A f, g : IsStack(Push(f, Push(g, <<>>))) BY <2>1, StackPush
    <3> QED BY <3>1, Two
  <2>4. \A f, g, h : IsStack(<<f, g, h>>)
    <3> SUFFICES ASSUME NEW f, NEW g, NEW h PROVE IsStack(<<f, g, h>>)
      OBVIOUS
    <3>1. IsStack(Push(h, <<>>)) BY <2>1, StackPush
    <3>2. IsStack(Push(g, Push(h, <<>>))) BY <3>1, StackPush
    <3>3. IsStack(Push(f, Push(g, Push(h, <<>>)))) BY <3>2, StackPush
    <3> QED BY <3>3, Three
  <2> QED BY <2>1, <2>2, <2>3, <2>4
<1>2. \A a, b : IsStack(a) /\ IsStack(b) => (a \o b) \o q = a \o (b \o q)
  BY JoinAssoc
<1>3. \A f, s : IsStack(s) => <<f>> \o s = Push(f, s)
  BY Unfold
<1>4. \A f, g, s : IsStack(s) => <<f, g>> \o s = Push(f, Push(g, s))
  BY Unfold
<1>5. \A f, g, h, s : IsStack(s) => <<f, g, h>>
      \o s = Push(f, Push(g, Push(h, s)))
  BY Unfold
<1>6. \A f, s : IsStack(s) => IsStack(Push(f, s)) BY StackPush
<1>7. \A s : IsStack(s) => <<>> \o s = s BY EmptyJoin
<1>8. ASSUME NEW f PROVE (<<>> \o <<f>>) \o q = Push(f, q)
  <2> DEFINE a == <<>>  b == <<f>>
  <2>1. IsStack(a) /\ IsStack(b) /\ b \o q = Push(f, q) BY <1>1, <1>3
  <2>2. a \o Push(f, q) = Push(f, q) BY <1>6, <1>7
  <2> HIDE DEF a, b
  <2>3. (a \o b) \o q = a \o (b \o q) BY <2>1, <1>2
  <2> QED BY <2>1, <2>2, <2>3 DEF a, b
<1>9. ASSUME NEW f, NEW g PROVE (<<f>> \o <<g>>) \o q = Push(f, Push(g, q))
  <2> DEFINE a == <<f>>  b == <<g>>
  <2>1. IsStack(a) /\ IsStack(b) /\ b \o q = Push(g, q) BY <1>1, <1>3
  <2>2. a \o Push(g, q) = Push(f, Push(g, q)) BY <1>6, <1>3
  <2> HIDE DEF a, b
  <2>3. (a \o b) \o q = a \o (b \o q) BY <2>1, <1>2
  <2> QED BY <2>1, <2>2, <2>3 DEF a, b
<1>10. ASSUME NEW f, NEW g PROVE (<<>> \o <<f, g>>) \o q = Push(f, Push(g, q))
  <2> DEFINE a == <<>>  b == <<f, g>>
  <2>1. IsStack(a) /\ IsStack(b) /\ b \o q = Push(f, Push(g, q)) BY <1>1, <1>4
  <2>2. a \o Push(f, Push(g, q)) = Push(f, Push(g, q)) BY <1>6, <1>7
  <2> HIDE DEF a, b
  <2>3. (a \o b) \o q = a \o (b \o q) BY <2>1, <1>2
  <2> QED BY <2>1, <2>2, <2>3 DEF a, b
<1>11. ASSUME NEW f, NEW g, NEW h
       PROVE (<<f>> \o <<g, h>>) \o q = Push(f, Push(g, Push(h, q)))
  <2> DEFINE a == <<f>>  b == <<g, h>>
  <2>1. IsStack(a) /\ IsStack(b) /\ b \o q = Push(g, Push(h, q)) BY <1>1, <1>4
  <2>2. a \o Push(g, Push(h, q)) = Push(f, Push(g, Push(h, q))) BY <1>6, <1>3
  <2> HIDE DEF a, b
  <2>3. (a \o b) \o q = a \o (b \o q) BY <2>1, <1>2
  <2> QED BY <2>1, <2>2, <2>3 DEF a, b
<1>12. ASSUME NEW f, NEW g PROVE (<<f, g>> \o <<>>) \o q = Push(f, Push(g, q))
  <2> DEFINE a == <<f, g>>  b == <<>>
  <2>1. IsStack(a) /\ IsStack(b) /\ b \o q = q BY <1>1
  <2>2. a \o q = Push(f, Push(g, q)) BY <1>4
  <2> HIDE DEF a, b
  <2>3. (a \o b) \o q = a \o (b \o q) BY <2>1, <1>2
  <2> QED BY <2>1, <2>2, <2>3 DEF a, b
<1>13. ASSUME NEW f, NEW g, NEW h, NEW k
       PROVE (<<f, g>> \o <<h, k>>)
              \o q = Push(f, Push(g, Push(h, Push(k, q))))
  <2> DEFINE a == <<f, g>>  b == <<h, k>>  r == Push(h, Push(k, q))
  <2>1. IsStack(a) /\ IsStack(b) /\ b \o q = r /\ IsStack(r)
    <3>1. IsStack(a) /\ IsStack(b) /\ b \o q = r BY <1>1, <1>4
    <3>2. IsStack(Push(k, q)) BY <1>6
    <3>3. IsStack(r) BY <3>2, <1>6
    <3> QED BY <3>1, <3>3
  <2>2. a \o r = Push(f, Push(g, r))
    <3> HIDE DEF r
    <3> QED BY <2>1, <1>4
  <2> HIDE DEF a, b, r
  <2>3. (a \o b) \o q = a \o (b \o q) BY <2>1, <1>2
  <2> QED BY <2>1, <2>2, <2>3 DEF a, b, r
<1>14. ASSUME NEW f, NEW g, NEW h
       PROVE (<<f, g, h>> \o <<>>) \o q = Push(f, Push(g, Push(h, q)))
  <2> DEFINE a == <<f, g, h>>  b == <<>>
  <2>1. IsStack(a) /\ IsStack(b) /\ b \o q = q BY <1>1
  <2>2. a \o q = Push(f, Push(g, Push(h, q))) BY <1>5
  <2> HIDE DEF a, b
  <2>3. (a \o b) \o q = a \o (b \o q) BY <2>1, <1>2
  <2> QED BY <2>1, <2>2, <2>3 DEF a, b
<1>15. ASSUME NEW f, NEW g, NEW h, NEW k
       PROVE (<<f, g, h>> \o <<k>>)
              \o q = Push(f, Push(g, Push(h, Push(k, q))))
  <2> DEFINE a == <<f, g, h>>  b == <<k>>  r == Push(k, q)
  <2>1. IsStack(a) /\ IsStack(b) /\ b \o q = r /\ IsStack(r)
        BY <1>1, <1>3, <1>6
  <2>2. a \o r = Push(f, Push(g, Push(h, r)))
    <3> HIDE DEF r
    <3> QED BY <2>1, <1>5
  <2> HIDE DEF a, b, r
  <2>3. (a \o b) \o q = a \o (b \o q) BY <2>1, <1>2
  <2> QED BY <2>1, <2>2, <2>3 DEF a, b, r
<1> QED BY <1>8, <1>9, <1>10, <1>11, <1>12, <1>13, <1>14, <1>15

-----------------------------------------------------------------------------
(* What each function does: the calls it makes in place of itself, the     *)
(* variables it changes, and those it leaves.                              *)

LEMMA Popped ==
  ASSUME IsStack(todo), todo # <<>>
  PROVE IsStack(Rest) /\ todo = Push(Head(todo), Rest)
BY PopParts DEF Rest

LEMMA TriangleMovedEffect ==
  ASSUME IsStack(todo), TriangleMoved
  PROVE /\ IsStack(Rest) /\ todo = Push(Head(todo), Rest)
        /\ Head(todo).op = "TriangleMoved"
        /\ ready.tri => \/ todo' = Push(CallWith("TriangleMoved", "Gq"),
                           Push(CallOf("EmitUpdate"),
                             Push(CallOf("EmitAllParams"), Rest)))
                        \/ todo' = Push(CallOf("EmitUpdate"),
                             Push(CallOf("EmitAllParams"), Rest))
        /\ ~ready.tri => todo' = Rest
        /\ UNCHANGED <<tri, ds, edits, sense, filed, real, tof, ready, dont,
             busy, shown, reso, update, pressed, event>>
<1>1. todo # <<>> /\ (Head(todo).op = "TriangleMoved")
  BY DEF TriangleMoved, At
<1>2. IsStack(Rest) /\ todo = Push(Head(todo), Rest)
  BY <1>1, Popped
<1>3. UNCHANGED <<tri, ds, edits, sense, filed, real, tof, ready, dont, busy,
      shown, reso, update, pressed, event>>
  BY DEF TriangleMoved, nodes, settings, optics, layouts, flags, dialogs, mouse
<1>4. /\ <<>> \o Rest = Rest
      /\ \A f : <<f>> \o Rest = Push(f, Rest)
      /\ \A f, g : <<f, g>> \o Rest = Push(f, Push(g, Rest))
      /\ \A f, g, h : <<f, g, h>> \o Rest = Push(f, Push(g, Push(h, Rest)))
  BY <1>2, Unfold
<1>40. /\ \A f : (<<>> \o <<f>>) \o Rest = Push(f, Rest)
       /\ \A f, g : (<<f>> \o <<g>>) \o Rest = Push(f, Push(g, Rest))
       /\ \A f, g : (<<>> \o <<f, g>>) \o Rest = Push(f, Push(g, Rest))
       /\ \A f, g, h : (<<f>> \o <<g, h>>)
            \o Rest = Push(f, Push(g, Push(h, Rest)))
       /\ \A f, g : (<<f, g>> \o <<>>) \o Rest = Push(f, Push(g, Rest))
       /\ \A f, g, h, k : (<<f, g>> \o <<h, k>>) \o Rest
                          = Push(f, Push(g, Push(h, Push(k, Rest))))
  BY <1>2, Joins
<1>5. ready.tri => \/ todo' = Push(CallWith("TriangleMoved", "Gq"),
                      Push(CallOf("EmitUpdate"), Push(CallOf("EmitAllParams"),
                        Rest)))
                   \/ todo' = Push(CallOf("EmitUpdate"),
                        Push(CallOf("EmitAllParams"), Rest))
  <2>1. ASSUME ready.tri
        PROVE \/ todo' = (<<CallWith("TriangleMoved", "Gq")>>
                          \o <<CallOf("EmitUpdate"), CallOf("EmitAllParams")>>)
                            \o Rest
              \/ todo' = (<<>>
                   \o <<CallOf("EmitUpdate"), CallOf("EmitAllParams")>>)
                     \o Rest
    <3>1. CASE snap /\ Arg = "KfQ" /\ peak # EndOfQ(tri)
      BY <2>1, <3>1 DEF TriangleMoved, Calls, Rest
    <3>2. CASE ~(snap /\ Arg = "KfQ" /\ peak # EndOfQ(tri))
      BY <2>1, <3>2 DEF TriangleMoved, Calls, Rest
    <3> QED BY <3>1, <3>2
  <2>2. ~ready.tri => todo' = Rest BY <1>4 DEF TriangleMoved, Calls, Rest
  <2> DEFINE f == CallWith("TriangleMoved", "Gq")
             g == CallOf("EmitUpdate")
             h == CallOf("EmitAllParams")
  <2> HIDE DEF f, g, h
  <2>3. (<<f>> \o <<g, h>>) \o Rest = Push(f, Push(g, Push(h, Rest)))
        /\ (<<>> \o <<g, h>>) \o Rest = Push(g, Push(h, Rest))
    BY <1>40
  <2> QED BY <2>1, <2>2, <2>3 DEF f, g, h
<1>6. ~ready.tri => todo' = Rest
  <2>1. ASSUME ready.tri
        PROVE \/ todo' = (<<CallWith("TriangleMoved", "Gq")>>
                          \o <<CallOf("EmitUpdate"), CallOf("EmitAllParams")>>)
                            \o Rest
              \/ todo' = (<<>>
                   \o <<CallOf("EmitUpdate"), CallOf("EmitAllParams")>>)
                     \o Rest
    <3>1. CASE snap /\ Arg = "KfQ" /\ peak # EndOfQ(tri)
      BY <2>1, <3>1 DEF TriangleMoved, Calls, Rest
    <3>2. CASE ~(snap /\ Arg = "KfQ" /\ peak # EndOfQ(tri))
      BY <2>1, <3>2 DEF TriangleMoved, Calls, Rest
    <3> QED BY <3>1, <3>2
  <2>2. ~ready.tri => todo' = Rest BY <1>4 DEF TriangleMoved, Calls, Rest
  <2> DEFINE f == CallWith("TriangleMoved", "Gq")
             g == CallOf("EmitUpdate")
             h == CallOf("EmitAllParams")
  <2> HIDE DEF f, g, h
  <2>3. (<<f>> \o <<g, h>>) \o Rest = Push(f, Push(g, Push(h, Rest)))
        /\ (<<>> \o <<g, h>>) \o Rest = Push(g, Push(h, Rest))
    BY <1>40
  <2> QED BY <2>1, <2>2, <2>3 DEF f, g, h
<1> QED BY <1>1, <1>2, <1>3, <1>5, <1>6

LEMMA EmitUpdateEffect ==
  ASSUME IsStack(todo), EmitUpdate
  PROVE /\ IsStack(Rest) /\ todo = Push(Head(todo), Rest)
        /\ Head(todo).op = "EmitUpdate"
        /\ ready.tri /\ ~dont.recip => todo' =
                Push(CallWith("RealTriangleChanged", TriangleAngles),
                  Push(CallWith("TofTriangleChanged", TriangleAngles), Rest))
        /\ ~(ready.tri /\ ~dont.recip) => todo' = Rest
        /\ UNCHANGED <<tri, ds, edits, sense, filed, real, tof, ready, dont,
             busy, shown, reso, update, pressed, event>>
<1>1. todo # <<>> /\ (Head(todo).op = "EmitUpdate")
  BY DEF EmitUpdate, At
<1>2. IsStack(Rest) /\ todo = Push(Head(todo), Rest)
  BY <1>1, Popped
<1>3. UNCHANGED <<tri, ds, edits, sense, filed, real, tof, ready, dont, busy,
      shown, reso, update, pressed, event>>
  BY DEF EmitUpdate, nodes, settings, optics, layouts, flags, dialogs, mouse
<1>4. /\ <<>> \o Rest = Rest
      /\ \A f : <<f>> \o Rest = Push(f, Rest)
      /\ \A f, g : <<f, g>> \o Rest = Push(f, Push(g, Rest))
      /\ \A f, g, h : <<f, g, h>> \o Rest = Push(f, Push(g, Push(h, Rest)))
  BY <1>2, Unfold
<1>5. ready.tri /\ ~dont.recip => todo' =
           Push(CallWith("RealTriangleChanged", TriangleAngles),
             Push(CallWith("TofTriangleChanged", TriangleAngles), Rest))
  BY <1>1, <1>4 DEF EmitUpdate, Calls, Rest, At
<1>6. ~(ready.tri /\ ~dont.recip) => todo' = Rest
  BY <1>1, <1>4 DEF EmitUpdate, Calls, Rest, At
<1> QED BY <1>1, <1>2, <1>3, <1>5, <1>6

LEMMA EmitAllParamsEffect ==
  ASSUME IsStack(todo), EmitAllParams
  PROVE /\ IsStack(Rest) /\ todo = Push(Head(todo), Rest)
        /\ Head(todo).op = "EmitAllParams"
        /\ ready.tri => todo' =
                Push(CallWith("RealAngleKiQ", Params),
                  Push(CallWith("TofAngleKiQ", Params),
                    Push(CallWith("RecipDialogs", Params), Rest)))
        /\ ~ready.tri => todo' = Rest
        /\ UNCHANGED <<tri, ds, edits, sense, filed, real, tof, ready, dont,
             busy, shown, reso, update, pressed, event>>
<1>1. todo # <<>> /\ (Head(todo).op = "EmitAllParams")
  BY DEF EmitAllParams, At
<1>2. IsStack(Rest) /\ todo = Push(Head(todo), Rest)
  BY <1>1, Popped
<1>3. UNCHANGED <<tri, ds, edits, sense, filed, real, tof, ready, dont, busy,
      shown, reso, update, pressed, event>>
  BY DEF EmitAllParams, nodes, settings, optics, layouts, flags, dialogs, mouse
<1>4. /\ <<>> \o Rest = Rest
      /\ \A f : <<f>> \o Rest = Push(f, Rest)
      /\ \A f, g : <<f, g>> \o Rest = Push(f, Push(g, Rest))
      /\ \A f, g, h : <<f, g, h>> \o Rest = Push(f, Push(g, Push(h, Rest)))
  BY <1>2, Unfold
<1>5. ready.tri => todo' =
           Push(CallWith("RealAngleKiQ", Params),
             Push(CallWith("TofAngleKiQ", Params),
               Push(CallWith("RecipDialogs", Params), Rest)))
  BY <1>1, <1>4 DEF EmitAllParams, Calls, Rest, At
<1>6. ~ready.tri => todo' = Rest
  BY <1>1, <1>4 DEF EmitAllParams, Calls, Rest, At
<1> QED BY <1>1, <1>2, <1>3, <1>5, <1>6

LEMMA TasChangedEffect ==
  ASSUME IsStack(todo), TasChanged
  PROVE /\ IsStack(Rest) /\ todo = Push(Head(todo), Rest)
        /\ Head(todo).op = "TasChanged"
        /\ ready.tri => /\ dont' = [dont EXCEPT !.recip = TRUE]
                        /\ todo' = Setting("Set", "mono", Arg,
                             Setting("Set", "ana", Arg,
                             Setting("Set", "tt", Arg,
                               Setting("Set", "kivec", Arg,
                             Push(CallOf("TasChangedEnd"), Rest)))))
        /\ ~ready.tri => dont' = dont /\ todo' = Rest
        /\ UNCHANGED <<tri, ds, edits, sense, filed, real, tof, ready, busy,
             shown, reso, update, pressed, event>>
<1>1. todo # <<>> /\ (Head(todo).op = "TasChanged")
  BY DEF TasChanged, At
<1>2. IsStack(Rest) /\ todo = Push(Head(todo), Rest)
  BY <1>1, Popped
<1>3. UNCHANGED <<tri, ds, edits, sense, filed, real, tof, ready, busy, shown,
      reso, update, pressed, event>>
  BY DEF TasChanged, nodes, settings, optics, layouts, flags, dialogs, mouse
<1>4. /\ <<>> \o Rest = Rest
      /\ \A f : <<f>> \o Rest = Push(f, Rest)
      /\ \A f, g : <<f, g>> \o Rest = Push(f, Push(g, Rest))
      /\ \A f, g, h : <<f, g, h>> \o Rest = Push(f, Push(g, Push(h, Rest)))
  BY <1>2, Unfold
<1>5. ready.tri => /\ dont' = [dont EXCEPT !.recip = TRUE]
                   /\ todo' = Setting("Set", "mono", Arg,
                        Setting("Set", "ana", Arg,
                        Setting("Set", "tt", Arg, Setting("Set", "kivec", Arg,
                        Push(CallOf("TasChangedEnd"), Rest)))))
  <2>1. ready.tri => todo' = (Setters("Set", "mono", Arg)
        \o Setters("Set", "ana", Arg) \o Setters("Set", "tt", Arg)
          \o Setters("Set", "kivec", Arg)
                              \o <<CallOf("TasChangedEnd")>>) \o Rest
    BY <1>1 DEF TasChanged, Calls, Rest, At, Setters
  <2>2. ready.tri => dont' = [dont EXCEPT !.recip = TRUE]
    BY <1>1 DEF TasChanged
  <2>3. Set4("Set", "mono", "ana", "tt", "kivec", Arg,
        CallOf("TasChangedEnd"), Rest)
        = Setting4("Set", "mono", "ana", "tt", "kivec", Arg,
          CallOf("TasChangedEnd"), Rest)
    BY <1>2, FourSetters
  <2>4. (Setters("Set", "mono", Arg) \o Setters("Set", "ana", Arg)
        \o Setters("Set", "tt", Arg) \o Setters("Set", "kivec", Arg)
            \o <<CallOf("TasChangedEnd")>>) \o Rest
          = Setting("Set", "mono", Arg, Setting("Set", "ana", Arg,
              Setting("Set", "tt", Arg, Setting("Set", "kivec", Arg,
              Push(CallOf("TasChangedEnd"), Rest)))))
    BY <2>3 DEF Set4, Setting4
  <2> QED BY <2>1, <2>2, <2>4
<1>6. ~ready.tri => dont' = dont /\ todo' = Rest
  BY <1>1, <1>4 DEF TasChanged, Calls, Rest, At
<1> QED BY <1>1, <1>2, <1>3, <1>5, <1>6

LEMMA TasChangedEndEffect ==
  ASSUME IsStack(todo), TasChangedEnd
  PROVE /\ IsStack(Rest) /\ todo = Push(Head(todo), Rest)
        /\ Head(todo).op = "TasChangedEnd"
        /\ dont' = [dont EXCEPT !.recip = FALSE]
        /\ todo' = Rest
        /\ UNCHANGED <<tri, ds, edits, sense, filed, real, tof, ready, busy,
             shown, reso, update, pressed, event>>
<1>1. todo # <<>> /\ (Head(todo).op = "TasChangedEnd")
  BY DEF TasChangedEnd, At
<1>2. IsStack(Rest) /\ todo = Push(Head(todo), Rest)
  BY <1>1, Popped
<1>3. UNCHANGED <<tri, ds, edits, sense, filed, real, tof, ready, busy, shown,
      reso, update, pressed, event>>
  BY DEF TasChangedEnd, nodes, settings, optics, layouts, flags, dialogs, mouse
<1>4. /\ <<>> \o Rest = Rest
      /\ \A f : <<f>> \o Rest = Push(f, Rest)
      /\ \A f, g : <<f, g>> \o Rest = Push(f, Push(g, Rest))
      /\ \A f, g, h : <<f, g, h>> \o Rest = Push(f, Push(g, Push(h, Rest)))
  BY <1>2, Unfold
<1>5. dont' = [dont EXCEPT !.recip = FALSE]
  BY <1>1, <1>4 DEF TasChangedEnd, Calls, Rest, At
<1>6. todo' = Rest
  BY <1>1, <1>4 DEF TasChangedEnd, Calls, Rest, At
<1> QED BY <1>1, <1>2, <1>3, <1>5, <1>6

LEMMA RealTriangleChangedEffect ==
  ASSUME IsStack(todo), RealTriangleChanged
  PROVE /\ IsStack(Rest) /\ todo = Push(Head(todo), Rest)
        /\ Head(todo).op = "RealTriangleChanged"
        /\ ready.real => /\ dont' = [dont EXCEPT !.real = TRUE]
                         /\ todo' = Setting("RealSet", "mono", Arg,
                              Setting("RealSet", "ana", Arg,
                              Setting("RealSet", "th", Arg,
                                Setting("RealSet", "tt", Arg,
                              Push(CallOf("RealTriangleChangedEnd"), Rest)))))
        /\ ~ready.real => dont' = dont /\ todo' = Rest
        /\ UNCHANGED <<tri, ds, edits, sense, filed, real, tof, ready, busy,
             shown, reso, update, pressed, event>>
<1>1. todo # <<>> /\ (Head(todo).op = "RealTriangleChanged")
  BY DEF RealTriangleChanged, At
<1>2. IsStack(Rest) /\ todo = Push(Head(todo), Rest)
  BY <1>1, Popped
<1>3. UNCHANGED <<tri, ds, edits, sense, filed, real, tof, ready, busy, shown,
      reso, update, pressed, event>>
  BY DEF RealTriangleChanged, nodes, settings, optics, layouts, flags,
    dialogs, mouse
<1>4. /\ <<>> \o Rest = Rest
      /\ \A f : <<f>> \o Rest = Push(f, Rest)
      /\ \A f, g : <<f, g>> \o Rest = Push(f, Push(g, Rest))
      /\ \A f, g, h : <<f, g, h>> \o Rest = Push(f, Push(g, Push(h, Rest)))
  BY <1>2, Unfold
<1>5. ready.real => /\ dont' = [dont EXCEPT !.real = TRUE]
                    /\ todo' = Setting("RealSet", "mono", Arg,
                         Setting("RealSet", "ana", Arg,
                         Setting("RealSet", "th", Arg,
                           Setting("RealSet", "tt", Arg,
                         Push(CallOf("RealTriangleChangedEnd"), Rest)))))
  <2>1. ready.real => todo' = (Setters("RealSet", "mono", Arg)
        \o Setters("RealSet", "ana", Arg) \o Setters("RealSet", "th", Arg)
          \o Setters("RealSet", "tt", Arg)
                              \o <<CallOf("RealTriangleChangedEnd")>>) \o Rest
    BY <1>1 DEF RealTriangleChanged, Calls, Rest, At, Setters
  <2>2. ready.real => dont' = [dont EXCEPT !.real = TRUE]
    BY <1>1 DEF RealTriangleChanged
  <2>3. Set4("RealSet", "mono", "ana", "th", "tt", Arg,
        CallOf("RealTriangleChangedEnd"), Rest)
        = Setting4("RealSet", "mono", "ana", "th", "tt", Arg,
          CallOf("RealTriangleChangedEnd"), Rest)
    BY <1>2, FourSetters
  <2>4. (Setters("RealSet", "mono", Arg) \o Setters("RealSet", "ana", Arg)
        \o Setters("RealSet", "th", Arg) \o Setters("RealSet", "tt", Arg)
            \o <<CallOf("RealTriangleChangedEnd")>>) \o Rest
          = Setting("RealSet", "mono", Arg, Setting("RealSet", "ana", Arg,
              Setting("RealSet", "th", Arg, Setting("RealSet", "tt", Arg,
              Push(CallOf("RealTriangleChangedEnd"), Rest)))))
    BY <2>3 DEF Set4, Setting4
  <2> QED BY <2>1, <2>2, <2>4
<1>6. ~ready.real => dont' = dont /\ todo' = Rest
  BY <1>1, <1>4 DEF RealTriangleChanged, Calls, Rest, At
<1> QED BY <1>1, <1>2, <1>3, <1>5, <1>6

LEMMA RealTriangleChangedEndEffect ==
  ASSUME IsStack(todo), RealTriangleChangedEnd
  PROVE /\ IsStack(Rest) /\ todo = Push(Head(todo), Rest)
        /\ Head(todo).op = "RealTriangleChangedEnd"
        /\ dont' = [dont EXCEPT !.real = FALSE]
        /\ todo' = Rest
        /\ UNCHANGED <<tri, ds, edits, sense, filed, real, tof, ready, busy,
             shown, reso, update, pressed, event>>
<1>1. todo # <<>> /\ (Head(todo).op = "RealTriangleChangedEnd")
  BY DEF RealTriangleChangedEnd, At
<1>2. IsStack(Rest) /\ todo = Push(Head(todo), Rest)
  BY <1>1, Popped
<1>3. UNCHANGED <<tri, ds, edits, sense, filed, real, tof, ready, busy, shown,
      reso, update, pressed, event>>
  BY DEF RealTriangleChangedEnd, nodes, settings, optics, layouts, flags,
    dialogs, mouse
<1>4. /\ <<>> \o Rest = Rest
      /\ \A f : <<f>> \o Rest = Push(f, Rest)
      /\ \A f, g : <<f, g>> \o Rest = Push(f, Push(g, Rest))
      /\ \A f, g, h : <<f, g, h>> \o Rest = Push(f, Push(g, Push(h, Rest)))
  BY <1>2, Unfold
<1>5. dont' = [dont EXCEPT !.real = FALSE]
  BY <1>1, <1>4 DEF RealTriangleChangedEnd, Calls, Rest, At
<1>6. todo' = Rest
  BY <1>1, <1>4 DEF RealTriangleChangedEnd, Calls, Rest, At
<1> QED BY <1>1, <1>2, <1>3, <1>5, <1>6

LEMMA RealAngleKiQEffect ==
  ASSUME IsStack(todo), RealAngleKiQ
  PROVE /\ IsStack(Rest) /\ todo = Push(Head(todo), Rest)
        /\ Head(todo).op = "RealAngleKiQ"
        /\ real' = [real EXCEPT !.kiq = Arg]
        /\ todo' = Push(CallWith("RealMoved", "none"), Rest)
        /\ UNCHANGED <<tri, ds, edits, sense, filed, tof, ready, dont, busy,
             shown, reso, update, pressed, event>>
<1>1. todo # <<>> /\ (Head(todo).op = "RealAngleKiQ")
  BY DEF RealAngleKiQ, At
<1>2. IsStack(Rest) /\ todo = Push(Head(todo), Rest)
  BY <1>1, Popped
<1>3. UNCHANGED <<tri, ds, edits, sense, filed, tof, ready, dont, busy, shown,
      reso, update, pressed, event>>
  BY DEF RealAngleKiQ, nodes, settings, optics, layouts, flags, dialogs, mouse
<1>4. /\ <<>> \o Rest = Rest
      /\ \A f : <<f>> \o Rest = Push(f, Rest)
      /\ \A f, g : <<f, g>> \o Rest = Push(f, Push(g, Rest))
      /\ \A f, g, h : <<f, g, h>> \o Rest = Push(f, Push(g, Push(h, Rest)))
  BY <1>2, Unfold
<1>5. real' = [real EXCEPT !.kiq = Arg]
  BY <1>1, <1>4 DEF RealAngleKiQ, Calls, Rest, At
<1>6. todo' = Push(CallWith("RealMoved", "none"), Rest)
  BY <1>1, <1>4 DEF RealAngleKiQ, Calls, Rest, At
<1> QED BY <1>1, <1>2, <1>3, <1>5, <1>6

LEMMA RealMovedEffect ==
  ASSUME IsStack(todo), RealMoved
  PROVE /\ IsStack(Rest) /\ todo = Push(Head(todo), Rest)
        /\ Head(todo).op = "RealMoved" \/ Head(todo).op = "RealMovedFirst"
        /\ ~ready.real \/ busy.real => busy' = busy /\ todo' = Rest
        /\ ready.real /\ ~busy.real =>
                /\ busy' = [busy EXCEPT !.real = TRUE]
                /\ LET e == Push(CallWith("RealMovedEnd", At("RealMoved")),
                     Rest) IN
                   todo' = CASE Arg = "sample" -> Push(CallWith("RealEmit",
                     Only("mono", real.mono)), e)
                             [] Arg = "ana" -> Push(CallWith("RealEmit",
                               Only("tt", real.tt)), e)
                             [] Arg = "det" -> Push(CallWith("RealEmit",
                               Only("ana", real.ana)), e)
                             [] OTHER -> e
        /\ UNCHANGED <<tri, ds, edits, sense, filed, real, tof, ready, dont,
             shown, reso, update, pressed, event>>
<1>1. todo # <<>> /\ (Head(todo).op = "RealMoved"
      \/ Head(todo).op = "RealMovedFirst")
  BY DEF RealMoved, At
<1>2. IsStack(Rest) /\ todo = Push(Head(todo), Rest)
  BY <1>1, Popped
<1>3. UNCHANGED <<tri, ds, edits, sense, filed, real, tof, ready, dont, shown,
      reso, update, pressed, event>>
  BY DEF RealMoved, nodes, settings, optics, layouts, flags, dialogs, mouse
<1>4. /\ <<>> \o Rest = Rest
      /\ \A f : <<f>> \o Rest = Push(f, Rest)
      /\ \A f, g : <<f, g>> \o Rest = Push(f, Push(g, Rest))
      /\ \A f, g, h : <<f, g, h>> \o Rest = Push(f, Push(g, Push(h, Rest)))
  BY <1>2, Unfold
<1>40. /\ \A f : (<<>> \o <<f>>) \o Rest = Push(f, Rest)
       /\ \A f, g : (<<f>> \o <<g>>) \o Rest = Push(f, Push(g, Rest))
       /\ \A f, g : (<<>> \o <<f, g>>) \o Rest = Push(f, Push(g, Rest))
       /\ \A f, g, h : (<<f>> \o <<g, h>>)
            \o Rest = Push(f, Push(g, Push(h, Rest)))
       /\ \A f, g : (<<f, g>> \o <<>>) \o Rest = Push(f, Push(g, Rest))
       /\ \A f, g, h, k : (<<f, g>> \o <<h, k>>) \o Rest
                          = Push(f, Push(g, Push(h, Push(k, Rest))))
  BY <1>2, Joins
<1>5. ~ready.real \/ busy.real => busy' = busy /\ todo' = Rest
  <2>0. CASE ~ready.real \/ busy.real BY <2>0, <1>4 DEF RealMoved, Calls, Rest
  <2> DEFINE e == CallWith("RealMovedEnd", At("RealMoved"))
  <2>1. CASE ready.real /\ ~busy.real /\ Arg = "sample"
    <3>1. todo' = (<<CallWith("RealEmit", Only("mono", real.mono))>> \o <<e>>)
          \o Rest
      BY <2>1 DEF RealMoved, Calls, Rest
    <3> HIDE DEF e
    <3>2. todo' = Push(CallWith("RealEmit", Only("mono", real.mono)),
          Push(e, Rest))
      BY <3>1, <1>40
    <3> QED BY <2>1, <3>2 DEF RealMoved, e
  <2>2. CASE ready.real /\ ~busy.real /\ Arg = "ana"
    <3>1. todo' = (<<CallWith("RealEmit", Only("tt", real.tt))>> \o <<e>>)
          \o Rest
      BY <2>2 DEF RealMoved, Calls, Rest
    <3> HIDE DEF e
    <3>2. todo' = Push(CallWith("RealEmit", Only("tt", real.tt)),
          Push(e, Rest))
      BY <3>1, <1>40
    <3> QED BY <2>2, <3>2 DEF RealMoved, e
  <2>3. CASE ready.real /\ ~busy.real /\ Arg = "det"
    <3>1. todo' = (<<CallWith("RealEmit", Only("ana", real.ana))>> \o <<e>>)
          \o Rest
      BY <2>3 DEF RealMoved, Calls, Rest
    <3> HIDE DEF e
    <3>2. todo' = Push(CallWith("RealEmit", Only("ana", real.ana)),
          Push(e, Rest))
      BY <3>1, <1>40
    <3> QED BY <2>3, <3>2 DEF RealMoved, e
  <2>4. CASE ready.real /\ ~busy.real /\ Arg \notin {"sample", "ana", "det"}
    <3>1. todo' = (<<>> \o <<e>>) \o Rest
      BY <2>4 DEF RealMoved, Calls, Rest
    <3> HIDE DEF e
    <3>2. todo' = Push(e, Rest)
      BY <3>1, <1>40
    <3> QED BY <2>4, <3>2 DEF RealMoved, e
  <2> QED BY <2>0, <2>1, <2>2, <2>3, <2>4
<1>6. ready.real /\ ~busy.real =>
           /\ busy' = [busy EXCEPT !.real = TRUE]
           /\ LET e == Push(CallWith("RealMovedEnd", At("RealMoved")), Rest) IN
              todo' = CASE Arg = "sample" -> Push(CallWith("RealEmit",
                Only("mono", real.mono)), e)
                        [] Arg = "ana" -> Push(CallWith("RealEmit",
                          Only("tt", real.tt)), e)
                        [] Arg = "det" -> Push(CallWith("RealEmit",
                          Only("ana", real.ana)), e)
                        [] OTHER -> e
  <2>0. CASE ~ready.real \/ busy.real BY <2>0, <1>4 DEF RealMoved, Calls, Rest
  <2> DEFINE e == CallWith("RealMovedEnd", At("RealMoved"))
  <2>1. CASE ready.real /\ ~busy.real /\ Arg = "sample"
    <3>1. todo' = (<<CallWith("RealEmit", Only("mono", real.mono))>> \o <<e>>)
          \o Rest
      BY <2>1 DEF RealMoved, Calls, Rest
    <3> HIDE DEF e
    <3>2. todo' = Push(CallWith("RealEmit", Only("mono", real.mono)),
          Push(e, Rest))
      BY <3>1, <1>40
    <3> QED BY <2>1, <3>2 DEF RealMoved, e
  <2>2. CASE ready.real /\ ~busy.real /\ Arg = "ana"
    <3>1. todo' = (<<CallWith("RealEmit", Only("tt", real.tt))>> \o <<e>>)
          \o Rest
      BY <2>2 DEF RealMoved, Calls, Rest
    <3> HIDE DEF e
    <3>2. todo' = Push(CallWith("RealEmit", Only("tt", real.tt)),
          Push(e, Rest))
      BY <3>1, <1>40
    <3> QED BY <2>2, <3>2 DEF RealMoved, e
  <2>3. CASE ready.real /\ ~busy.real /\ Arg = "det"
    <3>1. todo' = (<<CallWith("RealEmit", Only("ana", real.ana))>> \o <<e>>)
          \o Rest
      BY <2>3 DEF RealMoved, Calls, Rest
    <3> HIDE DEF e
    <3>2. todo' = Push(CallWith("RealEmit", Only("ana", real.ana)),
          Push(e, Rest))
      BY <3>1, <1>40
    <3> QED BY <2>3, <3>2 DEF RealMoved, e
  <2>4. CASE ready.real /\ ~busy.real /\ Arg \notin {"sample", "ana", "det"}
    <3>1. todo' = (<<>> \o <<e>>) \o Rest
      BY <2>4 DEF RealMoved, Calls, Rest
    <3> HIDE DEF e
    <3>2. todo' = Push(e, Rest)
      BY <3>1, <1>40
    <3> QED BY <2>4, <3>2 DEF RealMoved, e
  <2> QED BY <2>0, <2>1, <2>2, <2>3, <2>4
<1> QED BY <1>1, <1>2, <1>3, <1>5, <1>6

LEMMA RealMovedEndEffect ==
  ASSUME IsStack(todo), RealMovedEnd
  PROVE /\ IsStack(Rest) /\ todo = Push(Head(todo), Rest)
        /\ Head(todo).op = "RealMovedEnd"
        /\ busy' = [busy EXCEPT !.real = FALSE]
        /\ todo' = IF Arg THEN Push(CallOf("RealEmitAllParams"), Rest)
             ELSE Rest
        /\ UNCHANGED <<tri, ds, edits, sense, filed, real, tof, ready, dont,
             shown, reso, update, pressed, event>>
<1>1. todo # <<>> /\ (Head(todo).op = "RealMovedEnd")
  BY DEF RealMovedEnd, At
<1>2. IsStack(Rest) /\ todo = Push(Head(todo), Rest)
  BY <1>1, Popped
<1>3. UNCHANGED <<tri, ds, edits, sense, filed, real, tof, ready, dont, shown,
      reso, update, pressed, event>>
  BY DEF RealMovedEnd, nodes, settings, optics, layouts, flags, dialogs, mouse
<1>4. /\ <<>> \o Rest = Rest
      /\ \A f : <<f>> \o Rest = Push(f, Rest)
      /\ \A f, g : <<f, g>> \o Rest = Push(f, Push(g, Rest))
      /\ \A f, g, h : <<f, g, h>> \o Rest = Push(f, Push(g, Push(h, Rest)))
  BY <1>2, Unfold
<1>5. busy' = [busy EXCEPT !.real = FALSE]
  BY <1>1, <1>4 DEF RealMovedEnd, Calls, Rest, At
<1>6. todo' = IF Arg THEN Push(CallOf("RealEmitAllParams"), Rest) ELSE Rest
  BY <1>1, <1>4 DEF RealMovedEnd, Calls, Rest, At
<1> QED BY <1>1, <1>2, <1>3, <1>5, <1>6

LEMMA RealEmitEffect ==
  ASSUME IsStack(todo), RealEmit
  PROVE /\ IsStack(Rest) /\ todo = Push(Head(todo), Rest)
        /\ Head(todo).op = "RealEmit"
        /\ ready.real /\ ~dont.real
             => todo' = Push(CallWith("TasChanged", Arg),
               Push(CallWith("TofTriangleChanged", Arg), Rest))
        /\ ~(ready.real /\ ~dont.real) => todo' = Rest
        /\ UNCHANGED <<tri, ds, edits, sense, filed, real, tof, ready, dont,
             busy, shown, reso, update, pressed, event>>
<1>1. todo # <<>> /\ (Head(todo).op = "RealEmit")
  BY DEF RealEmit, At
<1>2. IsStack(Rest) /\ todo = Push(Head(todo), Rest)
  BY <1>1, Popped
<1>3. UNCHANGED <<tri, ds, edits, sense, filed, real, tof, ready, dont, busy,
      shown, reso, update, pressed, event>>
  BY DEF RealEmit, nodes, settings, optics, layouts, flags, dialogs, mouse
<1>4. /\ <<>> \o Rest = Rest
      /\ \A f : <<f>> \o Rest = Push(f, Rest)
      /\ \A f, g : <<f, g>> \o Rest = Push(f, Push(g, Rest))
      /\ \A f, g, h : <<f, g, h>> \o Rest = Push(f, Push(g, Push(h, Rest)))
  BY <1>2, Unfold
<1>5. ready.real /\ ~dont.real => todo' = Push(CallWith("TasChanged", Arg),
      Push(CallWith("TofTriangleChanged", Arg), Rest))
  BY <1>1, <1>4 DEF RealEmit, Calls, Rest, At
<1>6. ~(ready.real /\ ~dont.real) => todo' = Rest
  BY <1>1, <1>4 DEF RealEmit, Calls, Rest, At
<1> QED BY <1>1, <1>2, <1>3, <1>5, <1>6

LEMMA RealEmitAllParamsEffect ==
  ASSUME IsStack(todo), RealEmitAllParams
  PROVE /\ IsStack(Rest) /\ todo = Push(Head(todo), Rest)
        /\ Head(todo).op = "RealEmitAllParams"
        /\ ready.real /\ ~dont.real =>
                /\ shown' = [shown EXCEPT !.real = RealAngles]
                /\ todo' = IF reso.open
                     THEN Push(CallWith("ResoReal", RealAngles), Rest)
                       ELSE Rest
        /\ ~(ready.real /\ ~dont.real) => shown' = shown /\ todo' = Rest
        /\ UNCHANGED <<tri, ds, edits, sense, filed, real, tof, ready, dont,
             busy, reso, update, pressed, event>>
<1>1. todo # <<>> /\ (Head(todo).op = "RealEmitAllParams")
  BY DEF RealEmitAllParams, At
<1>2. IsStack(Rest) /\ todo = Push(Head(todo), Rest)
  BY <1>1, Popped
<1>3. UNCHANGED <<tri, ds, edits, sense, filed, real, tof, ready, dont, busy,
      reso, update, pressed, event>>
  BY DEF RealEmitAllParams, nodes, settings, optics, layouts, flags, dialogs,
    mouse
<1>4. /\ <<>> \o Rest = Rest
      /\ \A f : <<f>> \o Rest = Push(f, Rest)
      /\ \A f, g : <<f, g>> \o Rest = Push(f, Push(g, Rest))
      /\ \A f, g, h : <<f, g, h>> \o Rest = Push(f, Push(g, Push(h, Rest)))
  BY <1>2, Unfold
<1>5. ready.real /\ ~dont.real =>
           /\ shown' = [shown EXCEPT !.real = RealAngles]
           /\ todo' = IF reso.open THEN Push(CallWith("ResoReal", RealAngles),
                Rest) ELSE Rest
  BY <1>1, <1>4 DEF RealEmitAllParams, Calls, Rest, At
<1>6. ~(ready.real /\ ~dont.real) => shown' = shown /\ todo' = Rest
  BY <1>1, <1>4 DEF RealEmitAllParams, Calls, Rest, At
<1> QED BY <1>1, <1>2, <1>3, <1>5, <1>6

LEMMA TofTriangleChangedEffect ==
  ASSUME IsStack(todo), TofTriangleChanged
  PROVE /\ IsStack(Rest) /\ todo = Push(Head(todo), Rest)
        /\ Head(todo).op = "TofTriangleChanged"
        /\ dont' = [dont EXCEPT !.tof = TRUE]
        /\ todo' = Setting("TofSet", "th", Arg, Setting("TofSet", "tt", Arg,
                              Push(CallOf("TofTriangleChangedEnd"), Rest)))
        /\ UNCHANGED <<tri, ds, edits, sense, filed, real, tof, ready, busy,
             shown, reso, update, pressed, event>>
<1>1. todo # <<>> /\ (Head(todo).op = "TofTriangleChanged")
  BY DEF TofTriangleChanged, At
<1>2. IsStack(Rest) /\ todo = Push(Head(todo), Rest)
  BY <1>1, Popped
<1>3. UNCHANGED <<tri, ds, edits, sense, filed, real, tof, ready, busy, shown,
      reso, update, pressed, event>>
  BY DEF TofTriangleChanged, nodes, settings, optics, layouts, flags, dialogs,
    mouse
<1>4. /\ <<>> \o Rest = Rest
      /\ \A f : <<f>> \o Rest = Push(f, Rest)
      /\ \A f, g : <<f, g>> \o Rest = Push(f, Push(g, Rest))
      /\ \A f, g, h : <<f, g, h>> \o Rest = Push(f, Push(g, Push(h, Rest)))
  BY <1>2, Unfold
<1>5. dont' = [dont EXCEPT !.tof = TRUE]
  BY <1>1, <1>4 DEF TofTriangleChanged, Calls, Rest, At
<1>6. todo' = Setting("TofSet", "th", Arg, Setting("TofSet", "tt", Arg,
                         Push(CallOf("TofTriangleChangedEnd"), Rest)))
  <2>1. todo' = (Setters("TofSet", "th", Arg) \o Setters("TofSet", "tt", Arg)
                              \o <<CallOf("TofTriangleChangedEnd")>>) \o Rest
    BY <1>1 DEF TofTriangleChanged, Calls, Rest, At, Setters
  <2> QED BY <2>1, <1>2, TwoSetters
<1> QED BY <1>1, <1>2, <1>3, <1>5, <1>6

LEMMA TofTriangleChangedEndEffect ==
  ASSUME IsStack(todo), TofTriangleChangedEnd
  PROVE /\ IsStack(Rest) /\ todo = Push(Head(todo), Rest)
        /\ Head(todo).op = "TofTriangleChangedEnd"
        /\ dont' = [dont EXCEPT !.tof = FALSE]
        /\ todo' = Rest
        /\ UNCHANGED <<tri, ds, edits, sense, filed, real, tof, ready, busy,
             shown, reso, update, pressed, event>>
<1>1. todo # <<>> /\ (Head(todo).op = "TofTriangleChangedEnd")
  BY DEF TofTriangleChangedEnd, At
<1>2. IsStack(Rest) /\ todo = Push(Head(todo), Rest)
  BY <1>1, Popped
<1>3. UNCHANGED <<tri, ds, edits, sense, filed, real, tof, ready, busy, shown,
      reso, update, pressed, event>>
  BY DEF TofTriangleChangedEnd, nodes, settings, optics, layouts, flags,
    dialogs, mouse
<1>4. /\ <<>> \o Rest = Rest
      /\ \A f : <<f>> \o Rest = Push(f, Rest)
      /\ \A f, g : <<f, g>> \o Rest = Push(f, Push(g, Rest))
      /\ \A f, g, h : <<f, g, h>> \o Rest = Push(f, Push(g, Push(h, Rest)))
  BY <1>2, Unfold
<1>5. dont' = [dont EXCEPT !.tof = FALSE]
  BY <1>1, <1>4 DEF TofTriangleChangedEnd, Calls, Rest, At
<1>6. todo' = Rest
  BY <1>1, <1>4 DEF TofTriangleChangedEnd, Calls, Rest, At
<1> QED BY <1>1, <1>2, <1>3, <1>5, <1>6

LEMMA TofAngleKiQEffect ==
  ASSUME IsStack(todo), TofAngleKiQ
  PROVE /\ IsStack(Rest) /\ todo = Push(Head(todo), Rest)
        /\ Head(todo).op = "TofAngleKiQ"
        /\ tof' = [tof EXCEPT !.kiq = Arg]
        /\ todo' = Push(CallWith("TofMoved", "none"), Rest)
        /\ UNCHANGED <<tri, ds, edits, sense, filed, real, ready, dont, busy,
             shown, reso, update, pressed, event>>
<1>1. todo # <<>> /\ (Head(todo).op = "TofAngleKiQ")
  BY DEF TofAngleKiQ, At
<1>2. IsStack(Rest) /\ todo = Push(Head(todo), Rest)
  BY <1>1, Popped
<1>3. UNCHANGED <<tri, ds, edits, sense, filed, real, ready, dont, busy,
      shown, reso, update, pressed, event>>
  BY DEF TofAngleKiQ, nodes, settings, optics, layouts, flags, dialogs, mouse
<1>4. /\ <<>> \o Rest = Rest
      /\ \A f : <<f>> \o Rest = Push(f, Rest)
      /\ \A f, g : <<f, g>> \o Rest = Push(f, Push(g, Rest))
      /\ \A f, g, h : <<f, g, h>> \o Rest = Push(f, Push(g, Push(h, Rest)))
  BY <1>2, Unfold
<1>5. tof' = [tof EXCEPT !.kiq = Arg]
  BY <1>1, <1>4 DEF TofAngleKiQ, Calls, Rest, At
<1>6. todo' = Push(CallWith("TofMoved", "none"), Rest)
  BY <1>1, <1>4 DEF TofAngleKiQ, Calls, Rest, At
<1> QED BY <1>1, <1>2, <1>3, <1>5, <1>6

LEMMA TofMovedEffect ==
  ASSUME IsStack(todo), TofMoved
  PROVE /\ IsStack(Rest) /\ todo = Push(Head(todo), Rest)
        /\ Head(todo).op = "TofMoved"
        /\ busy.tof => busy' = busy /\ todo' = Rest
        /\ ~busy.tof =>
                /\ busy' = [busy EXCEPT !.tof = TRUE]
                /\ LET e == Push(CallOf("TofMovedEnd"), Rest) IN
                   todo' = IF Arg \in {"sample", "det"}
                           THEN Push(CallWith("TofEmit", Only("tt", tof.tt)),
                             e) ELSE e
        /\ UNCHANGED <<tri, ds, edits, sense, filed, real, tof, ready, dont,
             shown, reso, update, pressed, event>>
<1>1. todo # <<>> /\ (Head(todo).op = "TofMoved")
  BY DEF TofMoved, At
<1>2. IsStack(Rest) /\ todo = Push(Head(todo), Rest)
  BY <1>1, Popped
<1>3. UNCHANGED <<tri, ds, edits, sense, filed, real, tof, ready, dont, shown,
      reso, update, pressed, event>>
  BY DEF TofMoved, nodes, settings, optics, layouts, flags, dialogs, mouse
<1>4. /\ <<>> \o Rest = Rest
      /\ \A f : <<f>> \o Rest = Push(f, Rest)
      /\ \A f, g : <<f, g>> \o Rest = Push(f, Push(g, Rest))
      /\ \A f, g, h : <<f, g, h>> \o Rest = Push(f, Push(g, Push(h, Rest)))
  BY <1>2, Unfold
<1>40. /\ \A f : (<<>> \o <<f>>) \o Rest = Push(f, Rest)
       /\ \A f, g : (<<f>> \o <<g>>) \o Rest = Push(f, Push(g, Rest))
       /\ \A f, g : (<<>> \o <<f, g>>) \o Rest = Push(f, Push(g, Rest))
       /\ \A f, g, h : (<<f>> \o <<g, h>>)
            \o Rest = Push(f, Push(g, Push(h, Rest)))
       /\ \A f, g : (<<f, g>> \o <<>>) \o Rest = Push(f, Push(g, Rest))
       /\ \A f, g, h, k : (<<f, g>> \o <<h, k>>) \o Rest
                          = Push(f, Push(g, Push(h, Push(k, Rest))))
  BY <1>2, Joins
<1>5. busy.tof => busy' = busy /\ todo' = Rest
  BY <1>1, <1>4, <1>40 DEF TofMoved, Calls, Rest, At
<1>6. ~busy.tof =>
           /\ busy' = [busy EXCEPT !.tof = TRUE]
           /\ LET e == Push(CallOf("TofMovedEnd"), Rest) IN
              todo' = IF Arg \in {"sample", "det"}
                      THEN Push(CallWith("TofEmit", Only("tt", tof.tt)), e)
                        ELSE e
  BY <1>1, <1>4, <1>40 DEF TofMoved, Calls, Rest, At
<1> QED BY <1>1, <1>2, <1>3, <1>5, <1>6

LEMMA TofMovedEndEffect ==
  ASSUME IsStack(todo), TofMovedEnd
  PROVE /\ IsStack(Rest) /\ todo = Push(Head(todo), Rest)
        /\ Head(todo).op = "TofMovedEnd"
        /\ busy' = [busy EXCEPT !.tof = FALSE]
        /\ todo' = Rest
        /\ UNCHANGED <<tri, ds, edits, sense, filed, real, tof, ready, dont,
             shown, reso, update, pressed, event>>
<1>1. todo # <<>> /\ (Head(todo).op = "TofMovedEnd")
  BY DEF TofMovedEnd, At
<1>2. IsStack(Rest) /\ todo = Push(Head(todo), Rest)
  BY <1>1, Popped
<1>3. UNCHANGED <<tri, ds, edits, sense, filed, real, tof, ready, dont, shown,
      reso, update, pressed, event>>
  BY DEF TofMovedEnd, nodes, settings, optics, layouts, flags, dialogs, mouse
<1>4. /\ <<>> \o Rest = Rest
      /\ \A f : <<f>> \o Rest = Push(f, Rest)
      /\ \A f, g : <<f, g>> \o Rest = Push(f, Push(g, Rest))
      /\ \A f, g, h : <<f, g, h>> \o Rest = Push(f, Push(g, Push(h, Rest)))
  BY <1>2, Unfold
<1>5. busy' = [busy EXCEPT !.tof = FALSE]
  BY <1>1, <1>4 DEF TofMovedEnd, Calls, Rest, At
<1>6. todo' = Rest
  BY <1>1, <1>4 DEF TofMovedEnd, Calls, Rest, At
<1> QED BY <1>1, <1>2, <1>3, <1>5, <1>6

LEMMA TofEmitEffect ==
  ASSUME IsStack(todo), TofEmit
  PROVE /\ IsStack(Rest) /\ todo = Push(Head(todo), Rest)
        /\ Head(todo).op = "TofEmit"
        /\ dont.tof => todo' = Rest
        /\ ~dont.tof => todo' = Push(CallWith("TasChanged", Arg),
             Push(CallWith("RealTriangleChanged", Arg), Rest))
        /\ UNCHANGED <<tri, ds, edits, sense, filed, real, tof, ready, dont,
             busy, shown, reso, update, pressed, event>>
<1>1. todo # <<>> /\ (Head(todo).op = "TofEmit")
  BY DEF TofEmit, At
<1>2. IsStack(Rest) /\ todo = Push(Head(todo), Rest)
  BY <1>1, Popped
<1>3. UNCHANGED <<tri, ds, edits, sense, filed, real, tof, ready, dont, busy,
      shown, reso, update, pressed, event>>
  BY DEF TofEmit, nodes, settings, optics, layouts, flags, dialogs, mouse
<1>4. /\ <<>> \o Rest = Rest
      /\ \A f : <<f>> \o Rest = Push(f, Rest)
      /\ \A f, g : <<f, g>> \o Rest = Push(f, Push(g, Rest))
      /\ \A f, g, h : <<f, g, h>> \o Rest = Push(f, Push(g, Push(h, Rest)))
  BY <1>2, Unfold
<1>5. dont.tof => todo' = Rest
  BY <1>1, <1>4 DEF TofEmit, Calls, Rest, At
<1>6. ~dont.tof => todo' = Push(CallWith("TasChanged", Arg),
      Push(CallWith("RealTriangleChanged", Arg), Rest))
  BY <1>1, <1>4 DEF TofEmit, Calls, Rest, At
<1> QED BY <1>1, <1>2, <1>3, <1>5, <1>6

LEMMA RecipDialogsEffect ==
  ASSUME IsStack(todo), RecipDialogs
  PROVE /\ IsStack(Rest) /\ todo = Push(Head(todo), Rest)
        /\ Head(todo).op = "RecipDialogs"
        /\ shown' = [shown EXCEPT !.recip = Arg]
        /\ todo' = IF reso.open THEN Push(CallWith("ResoRecip", Arg), Rest)
             ELSE Rest
        /\ UNCHANGED <<tri, ds, edits, sense, filed, real, tof, ready, dont,
             busy, reso, update, pressed, event>>
<1>1. todo # <<>> /\ (Head(todo).op = "RecipDialogs")
  BY DEF RecipDialogs, At
<1>2. IsStack(Rest) /\ todo = Push(Head(todo), Rest)
  BY <1>1, Popped
<1>3. UNCHANGED <<tri, ds, edits, sense, filed, real, tof, ready, dont, busy,
      reso, update, pressed, event>>
  BY DEF RecipDialogs, nodes, settings, optics, layouts, flags, dialogs, mouse
<1>4. /\ <<>> \o Rest = Rest
      /\ \A f : <<f>> \o Rest = Push(f, Rest)
      /\ \A f, g : <<f, g>> \o Rest = Push(f, Push(g, Rest))
      /\ \A f, g, h : <<f, g, h>> \o Rest = Push(f, Push(g, Push(h, Rest)))
  BY <1>2, Unfold
<1>5. shown' = [shown EXCEPT !.recip = Arg]
  BY <1>1, <1>4 DEF RecipDialogs, Calls, Rest, At
<1>6. todo' = IF reso.open THEN Push(CallWith("ResoRecip", Arg), Rest)
      ELSE Rest
  BY <1>1, <1>4 DEF RecipDialogs, Calls, Rest, At
<1> QED BY <1>1, <1>2, <1>3, <1>5, <1>6

LEMMA ResoRecipEffect ==
  ASSUME IsStack(todo), ResoRecip
  PROVE /\ IsStack(Rest) /\ todo = Push(Head(todo), Rest)
        /\ Head(todo).op = "ResoRecip"
        /\ Calculated([reso.pars EXCEPT !.ki = Arg.tri.ki, !.kf = Arg.tri.kf,
                                             !.tt = FoldedTurn(Arg.tri.tt)],
                                               update.recip)
        /\ todo' = Rest
        /\ UNCHANGED <<tri, ds, edits, sense, filed, real, tof, ready, dont,
             busy, shown, update, pressed, event>>
<1>1. todo # <<>> /\ (Head(todo).op = "ResoRecip")
  BY DEF ResoRecip, At
<1>2. IsStack(Rest) /\ todo = Push(Head(todo), Rest)
  BY <1>1, Popped
<1>3. UNCHANGED <<tri, ds, edits, sense, filed, real, tof, ready, dont, busy,
      shown, update, pressed, event>>
  BY DEF ResoRecip, nodes, settings, optics, layouts, flags, dialogs, mouse
<1>4. /\ <<>> \o Rest = Rest
      /\ \A f : <<f>> \o Rest = Push(f, Rest)
      /\ \A f, g : <<f, g>> \o Rest = Push(f, Push(g, Rest))
      /\ \A f, g, h : <<f, g, h>> \o Rest = Push(f, Push(g, Push(h, Rest)))
  BY <1>2, Unfold
<1>5. Calculated([reso.pars EXCEPT !.ki = Arg.tri.ki, !.kf = Arg.tri.kf,
                                        !.tt = FoldedTurn(Arg.tri.tt)],
                                          update.recip)
  BY <1>1, <1>4 DEF ResoRecip, Calls, Rest, At
<1>6. todo' = Rest
  BY <1>1, <1>4 DEF ResoRecip, Calls, Rest, At
<1> QED BY <1>1, <1>2, <1>3, <1>5, <1>6

LEMMA ResoRealEffect ==
  ASSUME IsStack(todo), ResoReal
  PROVE /\ IsStack(Rest) /\ todo = Push(Head(todo), Rest)
        /\ Head(todo).op = "ResoReal"
        /\ Calculated([reso.pars EXCEPT !.mono = Abs(Arg.mono),
             !.ana = Abs(Arg.ana),
                                             !.tt = FoldedTurn(Arg.tt)],
                                               update.real)
        /\ todo' = Rest
        /\ UNCHANGED <<tri, ds, edits, sense, filed, real, tof, ready, dont,
             busy, shown, update, pressed, event>>
<1>1. todo # <<>> /\ (Head(todo).op = "ResoReal")
  BY DEF ResoReal, At
<1>2. IsStack(Rest) /\ todo = Push(Head(todo), Rest)
  BY <1>1, Popped
<1>3. UNCHANGED <<tri, ds, edits, sense, filed, real, tof, ready, dont, busy,
      shown, update, pressed, event>>
  BY DEF ResoReal, nodes, settings, optics, layouts, flags, dialogs, mouse
<1>4. /\ <<>> \o Rest = Rest
      /\ \A f : <<f>> \o Rest = Push(f, Rest)
      /\ \A f, g : <<f, g>> \o Rest = Push(f, Push(g, Rest))
      /\ \A f, g, h : <<f, g, h>> \o Rest = Push(f, Push(g, Push(h, Rest)))
  BY <1>2, Unfold
<1>5. Calculated([reso.pars EXCEPT !.mono = Abs(Arg.mono),
      !.ana = Abs(Arg.ana),
                                        !.tt = FoldedTurn(Arg.tt)],
                                          update.real)
  BY <1>1, <1>4 DEF ResoReal, Calls, Rest, At
<1>6. todo' = Rest
  BY <1>1, <1>4 DEF ResoReal, Calls, Rest, At
<1> QED BY <1>1, <1>2, <1>3, <1>5, <1>6

LEMMA ResoParsEffect ==
  ASSUME IsStack(todo), ResoPars
  PROVE /\ IsStack(Rest) /\ todo = Push(Head(todo), Rest)
        /\ Head(todo).op = "ResoPars"
        /\ reso.open => Calculated([reso.pars EXCEPT !.dm = Arg.mono,
             !.da = Arg.ana], TRUE)
        /\ ~reso.open => reso' = reso
        /\ todo' = Rest
        /\ UNCHANGED <<tri, ds, edits, sense, filed, real, tof, ready, dont,
             busy, shown, update, pressed, event>>
<1>1. todo # <<>> /\ (Head(todo).op = "ResoPars")
  BY DEF ResoPars, At
<1>2. IsStack(Rest) /\ todo = Push(Head(todo), Rest)
  BY <1>1, Popped
<1>3. UNCHANGED <<tri, ds, edits, sense, filed, real, tof, ready, dont, busy,
      shown, update, pressed, event>>
  BY DEF ResoPars, nodes, settings, optics, layouts, flags, dialogs, mouse
<1>4. /\ <<>> \o Rest = Rest
      /\ \A f : <<f>> \o Rest = Push(f, Rest)
      /\ \A f, g : <<f, g>> \o Rest = Push(f, Push(g, Rest))
      /\ \A f, g, h : <<f, g, h>> \o Rest = Push(f, Push(g, Push(h, Rest)))
  BY <1>2, Unfold
<1>5. reso.open
      => Calculated([reso.pars EXCEPT !.dm = Arg.mono, !.da = Arg.ana], TRUE)
  BY <1>1, <1>4 DEF ResoPars, Calls, Rest, At
<1>6. ~reso.open => reso' = reso
  BY <1>1, <1>4 DEF ResoPars, Calls, Rest, At
<1>7. todo' = Rest
  BY <1>1, <1>4 DEF ResoPars, Calls, Rest, At
<1> QED BY <1>1, <1>2, <1>3, <1>5, <1>6, <1>7

LEMMA ResoSenseEffect ==
  ASSUME IsStack(todo), ResoSense
  PROVE /\ IsStack(Rest) /\ todo = Push(Head(todo), Rest)
        /\ Head(todo).op = "ResoSense"
        /\ reso.open => Calculated(reso.pars, TRUE)
        /\ ~reso.open => reso' = reso
        /\ todo' = Rest
        /\ UNCHANGED <<tri, ds, edits, sense, filed, real, tof, ready, dont,
             busy, shown, update, pressed, event>>
<1>1. todo # <<>> /\ (Head(todo).op = "ResoSense")
  BY DEF ResoSense, At
<1>2. IsStack(Rest) /\ todo = Push(Head(todo), Rest)
  BY <1>1, Popped
<1>3. UNCHANGED <<tri, ds, edits, sense, filed, real, tof, ready, dont, busy,
      shown, update, pressed, event>>
  BY DEF ResoSense, nodes, settings, optics, layouts, flags, dialogs, mouse
<1>4. /\ <<>> \o Rest = Rest
      /\ \A f : <<f>> \o Rest = Push(f, Rest)
      /\ \A f, g : <<f, g>> \o Rest = Push(f, Push(g, Rest))
      /\ \A f, g, h : <<f, g, h>> \o Rest = Push(f, Push(g, Push(h, Rest)))
  BY <1>2, Unfold
<1>5. reso.open => Calculated(reso.pars, TRUE)
  BY <1>1, <1>4 DEF ResoSense, Calls, Rest, At
<1>6. ~reso.open => reso' = reso
  BY <1>1, <1>4 DEF ResoSense, Calls, Rest, At
<1>7. todo' = Rest
  BY <1>1, <1>4 DEF ResoSense, Calls, Rest, At
<1> QED BY <1>1, <1>2, <1>3, <1>5, <1>6, <1>7

LEMMA ResoLoadEffect ==
  ASSUME IsStack(todo), ResoLoad
  PROVE /\ IsStack(Rest) /\ todo = Push(Head(todo), Rest)
        /\ Head(todo).op = "ResoLoad"
        /\ Calculated(Arg, TRUE)
        /\ update' = [real |-> FALSE, recip |-> FALSE]
        /\ todo' = Rest
        /\ UNCHANGED <<tri, ds, edits, sense, filed, real, tof, ready, dont,
             busy, shown, pressed, event>>
<1>1. todo # <<>> /\ (Head(todo).op = "ResoLoad")
  BY DEF ResoLoad, At
<1>2. IsStack(Rest) /\ todo = Push(Head(todo), Rest)
  BY <1>1, Popped
<1>3. UNCHANGED <<tri, ds, edits, sense, filed, real, tof, ready, dont, busy,
      shown, pressed, event>>
  BY DEF ResoLoad, nodes, settings, optics, layouts, flags, dialogs, mouse
<1>4. /\ <<>> \o Rest = Rest
      /\ \A f : <<f>> \o Rest = Push(f, Rest)
      /\ \A f, g : <<f, g>> \o Rest = Push(f, Push(g, Rest))
      /\ \A f, g, h : <<f, g, h>> \o Rest = Push(f, Push(g, Push(h, Rest)))
  BY <1>2, Unfold
<1>5. Calculated(Arg, TRUE)
  BY <1>1, <1>4 DEF ResoLoad, Calls, Rest, At
<1>6. update' = [real |-> FALSE, recip |-> FALSE]
  BY <1>1, <1>4 DEF ResoLoad, Calls, Rest, At
<1>7. todo' = Rest
  BY <1>1, <1>4 DEF ResoLoad, Calls, Rest, At
<1> QED BY <1>1, <1>2, <1>3, <1>5, <1>6, <1>7

LEMMA ResoUpdateOnEffect ==
  ASSUME IsStack(todo), ResoUpdateOn
  PROVE /\ IsStack(Rest) /\ todo = Push(Head(todo), Rest)
        /\ Head(todo).op = "ResoUpdateOn"
        /\ update' = [real |-> TRUE, recip |-> TRUE]
        /\ todo' = Rest
        /\ UNCHANGED <<tri, ds, edits, sense, filed, real, tof, ready, dont,
             busy, shown, reso, pressed, event>>
<1>1. todo # <<>> /\ (Head(todo).op = "ResoUpdateOn")
  BY DEF ResoUpdateOn, At
<1>2. IsStack(Rest) /\ todo = Push(Head(todo), Rest)
  BY <1>1, Popped
<1>3. UNCHANGED <<tri, ds, edits, sense, filed, real, tof, ready, dont, busy,
      shown, reso, pressed, event>>
  BY DEF ResoUpdateOn, nodes, settings, optics, layouts, flags, dialogs, mouse
<1>4. /\ <<>> \o Rest = Rest
      /\ \A f : <<f>> \o Rest = Push(f, Rest)
      /\ \A f, g : <<f, g>> \o Rest = Push(f, Push(g, Rest))
      /\ \A f, g, h : <<f, g, h>> \o Rest = Push(f, Push(g, Push(h, Rest)))
  BY <1>2, Unfold
<1>5. update' = [real |-> TRUE, recip |-> TRUE]
  BY <1>1, <1>4 DEF ResoUpdateOn, Calls, Rest, At
<1>6. todo' = Rest
  BY <1>1, <1>4 DEF ResoUpdateOn, Calls, Rest, At
<1> QED BY <1>1, <1>2, <1>3, <1>5, <1>6

LEMMA UpdateDsEffect ==
  ASSUME IsStack(todo), UpdateDs
  PROVE /\ IsStack(Rest) /\ todo = Push(Head(todo), Rest)
        /\ Head(todo).op = "UpdateDs"
        /\ ds' = edits /\ filed' = FALSE
        /\ todo' = Push(CallOf("EmitUpdate"),
             Push(CallWith("ResoPars", edits), Rest))
        /\ UNCHANGED <<tri, edits, sense, real, tof, ready, dont, busy, shown,
             reso, update, pressed, event>>
<1>1. todo # <<>> /\ (Head(todo).op = "UpdateDs")
  BY DEF UpdateDs, At
<1>2. IsStack(Rest) /\ todo = Push(Head(todo), Rest)
  BY <1>1, Popped
<1>3. UNCHANGED <<tri, edits, sense, real, tof, ready, dont, busy, shown,
      reso, update, pressed, event>>
  BY DEF UpdateDs, nodes, settings, optics, layouts, flags, dialogs, mouse
<1>4. /\ <<>> \o Rest = Rest
      /\ \A f : <<f>> \o Rest = Push(f, Rest)
      /\ \A f, g : <<f, g>> \o Rest = Push(f, Push(g, Rest))
      /\ \A f, g, h : <<f, g, h>> \o Rest = Push(f, Push(g, Push(h, Rest)))
  BY <1>2, Unfold
<1>5. ds' = edits /\ filed' = FALSE
  BY <1>1, <1>4 DEF UpdateDs, Calls, Rest, At
<1>6. todo' = Push(CallOf("EmitUpdate"), Push(CallWith("ResoPars", edits),
      Rest))
  BY <1>1, <1>4 DEF UpdateDs, Calls, Rest, At
<1> QED BY <1>1, <1>2, <1>3, <1>5, <1>6

LEMMA CalcPeaksEffect ==
  ASSUME IsStack(todo), CalcPeaks
  PROVE /\ IsStack(Rest) /\ todo = Push(Head(todo), Rest)
        /\ Head(todo).op = "CalcPeaks"
        /\ todo' = Push(CallOf("EmitAllParams"), Push(CallOf("SnapToPeak"),
                     Push(CallOf("EmitUpdate"), Rest)))
        /\ UNCHANGED <<tri, ds, edits, sense, filed, real, tof, ready, dont,
             busy, shown, reso, update, pressed, event>>
<1>1. todo # <<>> /\ (Head(todo).op = "CalcPeaks")
  BY DEF CalcPeaks, At
<1>2. IsStack(Rest) /\ todo = Push(Head(todo), Rest)
  BY <1>1, Popped
<1>3. UNCHANGED <<tri, ds, edits, sense, filed, real, tof, ready, dont, busy,
      shown, reso, update, pressed, event>>
  BY DEF CalcPeaks, nodes, settings, optics, layouts, flags, dialogs, mouse
<1>4. \A f, g, h : <<f, g, h>> \o Rest = Push(f, Push(g, Push(h, Rest)))
  BY <1>2, Unfold
<1>5. todo' = Push(CallOf("EmitAllParams"), Push(CallOf("SnapToPeak"),
                Push(CallOf("EmitUpdate"), Rest)))
  BY <1>1, <1>4 DEF CalcPeaks, Calls, Rest, At
<1> QED BY <1>1, <1>2, <1>3, <1>5

LEMMA SnapToPeakEffect ==
  ASSUME IsStack(todo), SnapToPeak
  PROVE /\ IsStack(Rest) /\ todo = Push(Head(todo), Rest)
        /\ Head(todo).op = "SnapToPeak"
        /\ \/ todo' = Push(CallWith("TriangleMoved", "Gq"), Rest)
           \/ todo' = Rest
        /\ UNCHANGED <<tri, ds, edits, sense, filed, real, tof, ready, dont,
             busy, shown, reso, update, pressed, event>>
<1>1. todo # <<>> /\ (Head(todo).op = "SnapToPeak")
  BY DEF SnapToPeak, At
<1>2. IsStack(Rest) /\ todo = Push(Head(todo), Rest)
  BY <1>1, Popped
<1>3. UNCHANGED <<tri, ds, edits, sense, filed, real, tof, ready, dont, busy,
      shown, reso, update, pressed, event>>
  BY DEF SnapToPeak, nodes, settings, optics, layouts, flags, dialogs, mouse
<1>4. /\ <<>> \o Rest = Rest
      /\ \A f : <<f>> \o Rest = Push(f, Rest)
  BY <1>2, Unfold
<1>5. \/ todo' = Push(CallWith("TriangleMoved", "Gq"), Rest)
      \/ todo' = Rest
  BY <1>1, <1>4 DEF SnapToPeak, Calls, Rest, At
<1> QED BY <1>1, <1>2, <1>3, <1>5

LEMMA LoadEndEffect ==
  ASSUME IsStack(todo), LoadEnd
  PROVE /\ IsStack(Rest) /\ todo = Push(Head(todo), Rest)
        /\ Head(todo).op = "LoadEnd"
        /\ ready' = [tri |-> TRUE, real |-> TRUE]
        /\ dont' = [dont EXCEPT !.recip = FALSE, !.real = FALSE]
        /\ todo' = Push(CallOf("CalcPeaks"),
             Push(CallOf("EmitUpdate"),
               (IF reso.open THEN Push(CallOf("ResoUpdateOn"),
                 Push(CallOf("EmitAllParams"), Rest)) ELSE Rest)))
        /\ UNCHANGED <<tri, ds, edits, sense, filed, real, tof, busy, shown,
             reso, update, pressed, event>>
<1>1. todo # <<>> /\ (Head(todo).op = "LoadEnd")
  BY DEF LoadEnd, At
<1>2. IsStack(Rest) /\ todo = Push(Head(todo), Rest)
  BY <1>1, Popped
<1>3. UNCHANGED <<tri, ds, edits, sense, filed, real, tof, busy, shown, reso,
      update, pressed, event>>
  BY DEF LoadEnd, nodes, settings, optics, layouts, flags, dialogs, mouse
<1>4. /\ <<>> \o Rest = Rest
      /\ \A f : <<f>> \o Rest = Push(f, Rest)
      /\ \A f, g : <<f, g>> \o Rest = Push(f, Push(g, Rest))
      /\ \A f, g, h : <<f, g, h>> \o Rest = Push(f, Push(g, Push(h, Rest)))
  BY <1>2, Unfold
<1>40. /\ \A f : (<<>> \o <<f>>) \o Rest = Push(f, Rest)
       /\ \A f, g : (<<f>> \o <<g>>) \o Rest = Push(f, Push(g, Rest))
       /\ \A f, g : (<<>> \o <<f, g>>) \o Rest = Push(f, Push(g, Rest))
       /\ \A f, g, h : (<<f>> \o <<g, h>>)
            \o Rest = Push(f, Push(g, Push(h, Rest)))
       /\ \A f, g : (<<f, g>> \o <<>>) \o Rest = Push(f, Push(g, Rest))
       /\ \A f, g, h, k : (<<f, g>> \o <<h, k>>) \o Rest
                          = Push(f, Push(g, Push(h, Push(k, Rest))))
  BY <1>2, Joins
<1>5. ready' = [tri |-> TRUE, real |-> TRUE]
  BY <1>1, <1>4, <1>40 DEF LoadEnd, Calls, Rest, At
<1>6. dont' = [dont EXCEPT !.recip = FALSE, !.real = FALSE]
  BY <1>1, <1>4, <1>40 DEF LoadEnd, Calls, Rest, At
<1>7. todo' = Push(CallOf("CalcPeaks"),
      Push(CallOf("EmitUpdate"),
        (IF reso.open THEN Push(CallOf("ResoUpdateOn"),
          Push(CallOf("EmitAllParams"), Rest)) ELSE Rest)))
  <2>1. CASE reso.open
    <3>1. todo' = (<<CallOf("CalcPeaks"), CallOf("EmitUpdate")>>
                   \o <<CallOf("ResoUpdateOn"), CallOf("EmitAllParams")>>)
                     \o Rest
      BY <2>1 DEF LoadEnd, Calls, Rest
    <3> QED BY <2>1, <3>1, <1>40
  <2>2. CASE ~reso.open
    <3>1. todo' = (<<CallOf("CalcPeaks"), CallOf("EmitUpdate")>> \o <<>>)
          \o Rest
      BY <2>2 DEF LoadEnd, Calls, Rest
    <3> QED BY <2>2, <3>1, <1>40
  <2> QED BY <2>1, <2>2
<1> QED BY <1>1, <1>2, <1>3, <1>5, <1>6, <1>7

\* The function and the argument of a call.
LEMMA Calling ==
  /\ \A o : CallOf(o).op = o
  /\ \A o, a : CallWith(o, a).op = o /\ CallWith(o, a).arg = a
BY DEF CallOf, CallWith

LEMMA OnlyIs ==
  \A x, v : /\ DOMAIN Only(x, v) = {x} /\ Only(x, v)[x] = v
            /\ (CHOOSE y \in DOMAIN Only(x, v) : TRUE) = x
BY DEF Only

\* What the setter of an angle does to the triangle.
SetTri(x, v) ==
  CASE x = "mono" -> [tri EXCEPT !.ki = Wavenumber(Abs(v), ds.mono)]
    [] x = "ana" -> [tri EXCEPT !.kf = Wavenumber(Abs(v), ds.ana)]
    [] x = "tt" -> [tri EXCEPT !.tt = Turn(v, sense.sample)]
    [] x = "kivec" -> [tri EXCEPT !.th = Turn(v, FALSE)]

LEMMA SetEffect ==
  ASSUME IsStack(todo), Typed(todo), Set
  PROVE /\ IsStack(Rest) /\ todo = Push(Head(todo), Rest)
        /\ Head(todo).op = "Set"
        /\ \E x \in AngleNames \ {"th"}, v \in SignedAngles \cup Turns :
             /\ Arg = Only(x, v) /\ v \in AngleValues(x)
             /\ tri' = SetTri(x, v)
        /\ todo' = Push(CallWith("TriangleMoved", "KfQ"), Rest)
        /\ UNCHANGED <<ds, edits, sense, filed, real, tof, ready, dont, busy,
             shown, reso, update, pressed, event>>
<1>1. todo # <<>> /\ Head(todo).op = "Set"
  BY DEF Set, At
<1>2. IsStack(Rest) /\ todo = Push(Head(todo), Rest)
  BY <1>1, Popped
<1>3. UNCHANGED <<ds, edits, sense, filed, real, tof, ready, dont, busy,
      shown, reso, update, pressed, event>>
  BY DEF Set, nodes, settings, optics, layouts, flags, dialogs, mouse
<1>4. TypedCall(Head(todo)) BY <1>2, TypedPush
<1>5. /\ <<>> \o Rest = Rest
      /\ \A f : <<f>> \o Rest = Push(f, Rest)
      /\ \A f, g : <<f, g>> \o Rest = Push(f, Push(g, Rest))
      /\ \A f, g, h : <<f, g, h>> \o Rest = Push(f, Push(g, Push(h, Rest)))
  BY <1>2, Unfold
<1>6. PICK x \in AngleNames \ {"th"}, v \in SignedAngles \cup Turns :
        Arg = Only(x, v) /\ v \in AngleValues(x)
  BY <1>1, <1>4 DEF TypedCall, Arg
<1>7. (CHOOSE y \in DOMAIN Arg : TRUE) = x /\ Arg[x] = v BY <1>6, OnlyIs
<1>8. tri' = SetTri(x, v) BY <1>7 DEF Set, SetTri
<1>9. todo' = Push(CallWith("TriangleMoved", "KfQ"), Rest)
  BY <1>5 DEF Set, Calls, Rest
<1> QED BY <1>1, <1>2, <1>3, <1>6, <1>8, <1>9

LEMMA RealSetEffect ==
  ASSUME IsStack(todo), Typed(todo), RealSet
  PROVE /\ IsStack(Rest) /\ todo = Push(Head(todo), Rest)
        /\ Head(todo).op = "RealSet"
        /\ \E x \in Angles, v \in SignedAngles \cup Turns :
             /\ Arg = Only(x, v) /\ v \in AngleValues(x)
             /\ real' = [real EXCEPT ![x] = v]
             /\ x = "tt" => todo' = Push(CallWith("RealMovedFirst", "sample"),
                                         Push(CallWith("RealMoved", "ana"),
                                           Rest))
             /\ x # "tt" => \E s \in {"mono", "ana", "none"} :
                  /\ s = "ana" => x = "ana"
                  /\ todo' = Push(CallWith("RealMoved", s), Rest)
        /\ UNCHANGED <<tri, ds, edits, sense, filed, tof, ready, dont, busy,
             shown, reso, update, pressed, event>>
<1>1. todo # <<>> /\ Head(todo).op = "RealSet"
  BY DEF RealSet, At
<1>2. IsStack(Rest) /\ todo = Push(Head(todo), Rest)
  BY <1>1, Popped
<1>3. UNCHANGED <<tri, ds, edits, sense, filed, tof, ready, dont, busy, shown,
      reso, update, pressed, event>>
  BY DEF RealSet, nodes, settings, optics, layouts, flags, dialogs, mouse
<1>4. TypedCall(Head(todo)) BY <1>2, TypedPush
<1>5. /\ <<>> \o Rest = Rest
      /\ \A f : <<f>> \o Rest = Push(f, Rest)
      /\ \A f, g : <<f, g>> \o Rest = Push(f, Push(g, Rest))
      /\ \A f, g, h : <<f, g, h>> \o Rest = Push(f, Push(g, Push(h, Rest)))
  BY <1>2, Unfold
<1>6. PICK x \in Angles, v \in SignedAngles \cup Turns :
        Arg = Only(x, v) /\ v \in AngleValues(x)
  BY <1>1, <1>4 DEF TypedCall, Arg
<1>7. (CHOOSE y \in DOMAIN Arg : TRUE) = x /\ Arg[x] = v BY <1>6, OnlyIs
<1>8. real' = [real EXCEPT ![x] = v] BY <1>7 DEF RealSet
<1>9. ASSUME x = "tt"
      PROVE todo' = Push(CallWith("RealMovedFirst", "sample"),
                         Push(CallWith("RealMoved", "ana"), Rest))
  <2>1. todo' = <<CallWith("RealMovedFirst", "sample"),
        CallWith("RealMoved", "ana")>>
                \o Rest
    BY <1>7, <1>9 DEF RealSet, Calls, Rest
  <2> QED BY <2>1, <1>5
<1>10. ASSUME x # "tt"
       PROVE \E s \in {"mono", "ana", "none"} :
               /\ s = "ana" => x = "ana"
               /\ todo' = Push(CallWith("RealMoved", s), Rest)
  <2>1. \E s \in {"mono", "ana", "none"} :
          (s = "ana" => x = "ana") /\ todo' = <<CallWith("RealMoved", s)>>
            \o Rest
    BY <1>6, <1>7, <1>10 DEF RealSet, Calls, Rest, Angles
  <2> QED BY <2>1, <1>5
<1> QED BY <1>1, <1>2, <1>3, <1>6, <1>8, <1>9, <1>10

LEMMA TofSetEffect ==
  ASSUME IsStack(todo), Typed(todo), TofSet
  PROVE /\ IsStack(Rest) /\ todo = Push(Head(todo), Rest)
        /\ Head(todo).op = "TofSet"
        /\ \E x \in {"tt", "th"}, v \in Turns :
             /\ Arg = Only(x, v)
             /\ tof' = [tof EXCEPT ![x] = v]
             /\ \/ todo' = Push(CallWith("TofMoved", "sample"),
                               Push(CallWith("TofMoved", "det"), Rest))
                \/ todo' = Push(CallWith("TofMoved", "none"), Rest)
        /\ UNCHANGED <<tri, ds, edits, sense, filed, real, ready, dont, busy,
             shown, reso, update, pressed, event>>
<1>1. todo # <<>> /\ Head(todo).op = "TofSet"
  BY DEF TofSet, At
<1>2. IsStack(Rest) /\ todo = Push(Head(todo), Rest)
  BY <1>1, Popped
<1>3. UNCHANGED <<tri, ds, edits, sense, filed, real, ready, dont, busy,
      shown, reso, update, pressed, event>>
  BY DEF TofSet, nodes, settings, optics, layouts, flags, dialogs, mouse
<1>4. TypedCall(Head(todo)) BY <1>2, TypedPush
<1>5. /\ <<>> \o Rest = Rest
      /\ \A f : <<f>> \o Rest = Push(f, Rest)
      /\ \A f, g : <<f, g>> \o Rest = Push(f, Push(g, Rest))
      /\ \A f, g, h : <<f, g, h>> \o Rest = Push(f, Push(g, Push(h, Rest)))
  BY <1>2, Unfold
<1>6. PICK x \in {"tt", "th"}, v \in Turns : Arg = Only(x, v)
  BY <1>1, <1>4 DEF TypedCall, Arg
<1>7. (CHOOSE y \in DOMAIN Arg : TRUE) = x /\ Arg[x] = v BY <1>6, OnlyIs
<1>8. tof' = [tof EXCEPT ![x] = v] BY <1>7 DEF TofSet
<1>9. \/ todo' = <<CallWith("TofMoved", "sample"),
           CallWith("TofMoved", "det")>> \o Rest
      \/ todo' = <<CallWith("TofMoved", "none")>> \o Rest
  BY DEF TofSet, Calls, Rest
<1>10. \/ todo' = Push(CallWith("TofMoved", "sample"),
                        Push(CallWith("TofMoved", "det"), Rest))
       \/ todo' = Push(CallWith("TofMoved", "none"), Rest)
  BY <1>5, <1>9
<1> QED BY <1>1, <1>2, <1>3, <1>6, <1>8, <1>10

LEMMA SetSenseEffect ==
  ASSUME IsStack(todo), Typed(todo), SetSense
  PROVE /\ IsStack(Rest) /\ todo = Push(Head(todo), Rest)
        /\ Head(todo).op = "SetSense"
        /\ \E x \in {"mono", "sample", "ana"}, b \in BOOLEAN :
             /\ Arg = Only(x, b)
             /\ sense' = [sense EXCEPT ![x] = b]
             /\ todo' = Push(CallOf("EmitUpdate"),
                  Push(CallOf("EmitAllParams"),
                          Push(CallOf("ResoSense"),
                            IF x = "sample" THEN Push(CallOf("EmitUpdate"),
                              Rest)
                                            ELSE Rest)))
        /\ UNCHANGED <<tri, ds, edits, filed, real, tof, ready, dont, busy,
             shown, reso, update, pressed, event>>
<1>1. todo # <<>> /\ Head(todo).op = "SetSense"
  BY DEF SetSense, At
<1>2. IsStack(Rest) /\ todo = Push(Head(todo), Rest)
  BY <1>1, Popped
<1>3. UNCHANGED <<tri, ds, edits, filed, real, tof, ready, dont, busy, shown,
      reso, update, pressed, event>>
  BY DEF SetSense, nodes, settings, optics, layouts, flags, dialogs, mouse
<1>4. TypedCall(Head(todo)) BY <1>2, TypedPush
<1>5. /\ <<>> \o Rest = Rest
      /\ \A f : <<f>> \o Rest = Push(f, Rest)
      /\ \A f, g : <<f, g>> \o Rest = Push(f, Push(g, Rest))
      /\ \A f, g, h : <<f, g, h>> \o Rest = Push(f, Push(g, Push(h, Rest)))
  BY <1>2, Unfold
<1>6. PICK x \in {"mono", "sample", "ana"}, b \in BOOLEAN : Arg = Only(x, b)
  BY <1>1, <1>4 DEF TypedCall, Arg
<1>7. (CHOOSE y \in DOMAIN Arg : TRUE) = x /\ Arg[x] = b BY <1>6, OnlyIs
<1>8. sense' = [sense EXCEPT ![x] = b] BY <1>7 DEF SetSense
<1> DEFINE f == CallOf("EmitUpdate")
           g == CallOf("EmitAllParams")
           h == CallOf("ResoSense")
<1>9. todo' = (<<f, g, h>> \o IF x = "sample" THEN <<f>> ELSE <<>>) \o Rest
  BY <1>7 DEF SetSense, Calls, Rest
<1> HIDE DEF f, g, h
<1>10. /\ (<<f, g, h>> \o <<>>) \o Rest = Push(f, Push(g, Push(h, Rest)))
       /\ (<<f, g, h>> \o <<f>>)
            \o Rest = Push(f, Push(g, Push(h, Push(f, Rest))))
  BY <1>2, Joins
<1>11. todo' = Push(f,
       Push(g, Push(h, IF x = "sample" THEN Push(f, Rest) ELSE Rest)))
  BY <1>9, <1>10
<1> QED BY <1>1, <1>2, <1>3, <1>6, <1>8, <1>11 DEF f, g, h

-----------------------------------------------------------------------------
(* Control holds in every step of the functions.                           *)

SetterOps == {"Set", "RealSet", "TofSet"}
Markers == {"TasChangedEnd", "RealTriangleChangedEnd", "TofTriangleChangedEnd",
            "LoadEnd", "RealMovedEnd", "TofMovedEnd"}

\* The calls of a setter keep the nesting and the types.
LEMMA SettingIs ==
  ASSUME NEW o \in SetterOps, NEW x, NEW a, NEW q, IsStack(q)
  PROVE LET s == Setting(o, x, a, q) IN
        /\ IsStack(s)
        /\ \A m \in Markers : m \in Ops(s) <=> m \in Ops(q)
        /\ Ops(s) # {} \/ Ops(q) = {}
BY StackPush, PushOps, Calling DEF Setting, SetterOps, Markers

LEMMA SettingNested ==
  ASSUME NEW o \in SetterOps, NEW x, NEW a, NEW q, IsStack(q),
         Nested(q), NestFit(CallOf(o), Ops(q))
  PROVE LET s == Setting(o, x, a, q) IN
        Nested(s) /\ NestFit(CallOf(o), Ops(s))
<1> DEFINE s == Setting(o, x, a, q)
           f == CallWith(o, Only(x, a[x]))
<1>1. CASE x \notin DOMAIN a BY <1>1 DEF Setting
<1>2. CASE x \in DOMAIN a
  <2>1. s = Push(f, q) BY <1>2 DEF Setting
  <2>2. f.op = o /\ CallOf(o).op = o BY Calling
  <2> HIDE DEF f
  <2>3. NestFit(f, Ops(q))
    BY <2>2 DEF NestFit, SetterOps, Lifts, TofLifts
  <2>4. Ops(s) = {o} \cup Ops(q) BY <2>1, <2>2, PushOps
  <2>5. NestFit(CallOf(o), Ops(s))
    BY <2>2, <2>4 DEF NestFit, SetterOps, Lifts, TofLifts
  <2> QED BY <2>1, <2>3, <2>5, NestedPush
<1> QED BY <1>1, <1>2

LEMMA SettingTyped ==
  ASSUME NEW x \in AngleNames, NEW a, NEW q, IsStack(q), Typed(q),
         x \in DOMAIN a => a[x] \in AngleValues(x)
  PROVE /\ x # "th" => Typed(Setting("Set", x, a, q))
        /\ x # "kivec" => Typed(Setting("RealSet", x, a, q))
        /\ x \in {"tt", "th"} => Typed(Setting("TofSet", x, a, q))
<1>1. CASE x \notin DOMAIN a BY <1>1 DEF Setting
<1>2. CASE x \in DOMAIN a
  <2> DEFINE v == a[x]
  <2>1. v \in AngleValues(x) /\ v \in SignedAngles \cup Turns
        BY <1>2 DEF AngleValues
  <2>2. /\ Setting("Set", x, a, q) = Push(CallWith("Set", Only(x, v)), q)
        /\ Setting("RealSet", x, a, q) = Push(CallWith("RealSet", Only(x, v)),
             q)
        /\ Setting("TofSet", x, a, q) = Push(CallWith("TofSet", Only(x, v)), q)
    BY <1>2 DEF Setting
  <2> HIDE DEF v
  <2>3. x # "th" => TypedCall(CallWith("Set", Only(x, v)))
    BY <2>1, Calling DEF TypedCall
  <2>4. x # "kivec" => TypedCall(CallWith("RealSet", Only(x, v)))
    BY <2>1, Calling DEF TypedCall, AngleNames
  <2>5. x \in {"tt", "th"} => TypedCall(CallWith("TofSet", Only(x, v)))
    BY <2>1, Calling DEF TypedCall, AngleValues, Crystals
  <2> QED BY <2>2, <2>3, <2>4, <2>5, TypedPush
<1> QED BY <1>1, <1>2

\* What the triple-axis layout does when one of its nodes has moved, for each
\* of the nodes.
LEMMA RealMovedCases ==
  ASSUME IsStack(todo), RealMoved, ready.real, ~busy.real
  PROVE LET e == CallWith("RealMovedEnd", At("RealMoved")) IN
        /\ busy' = [busy EXCEPT !.real = TRUE]
        /\ \/ Arg \notin {"sample", "ana", "det"} /\ todo' = Push(e, Rest)
           \/ \E x \in {"mono", "tt", "ana"} :
                /\ Arg = Mover[x]
                /\ todo' = Push(CallWith("RealEmit", Only(x, real[x])),
                     Push(e, Rest))
<1> DEFINE e == CallWith("RealMovedEnd", At("RealMoved"))
<1>1. busy' = [busy EXCEPT !.real = TRUE] BY RealMovedEffect
<1>2. todo' = CASE Arg = "sample" -> Push(CallWith("RealEmit",
      Only("mono", real.mono)),
                                          Push(e, Rest))
                [] Arg = "ana" -> Push(CallWith("RealEmit",
                  Only("tt", real.tt)),
                                       Push(e, Rest))
                [] Arg = "det" -> Push(CallWith("RealEmit",
                  Only("ana", real.ana)),
                                       Push(e, Rest))
                [] OTHER -> Push(e, Rest)
  BY RealMovedEffect
<1>3. Mover["mono"] = "sample" /\ Mover["tt"] = "ana" /\ Mover["ana"] = "det"
  BY DEF Mover
<1> HIDE DEF e
<1>4. CASE Arg = "sample"
  <2>1. todo' = Push(CallWith("RealEmit", Only("mono", real["mono"])),
        Push(e, Rest))
    BY <1>2, <1>4
  <2> QED BY <1>1, <1>3, <1>4, <2>1 DEF e
<1>5. CASE Arg = "ana"
  <2>1. todo' = Push(CallWith("RealEmit", Only("tt", real["tt"])),
        Push(e, Rest))
    BY <1>2, <1>5
  <2> QED BY <1>1, <1>3, <1>5, <2>1 DEF e
<1>6. CASE Arg = "det"
  <2>1. todo' = Push(CallWith("RealEmit", Only("ana", real["ana"])),
        Push(e, Rest))
    BY <1>2, <1>6
  <2> QED BY <1>1, <1>3, <1>6, <2>1 DEF e
<1>7. CASE Arg \notin {"sample", "ana", "det"}
  <2>1. todo' = Push(e, Rest) BY <1>2, <1>7
  <2> QED BY <1>1, <1>7, <2>1 DEF e
<1> QED BY <1>4, <1>5, <1>6, <1>7

\* The angles of the triangle have the values of angles.
LEMMA AnglesTyped ==
  ASSUME DataType
  PROVE /\ DOMAIN TriangleAngles = Angles
        /\ \A x \in Angles : TriangleAngles[x] \in AngleValues(x)
        /\ Abs(TriangleAngles.mono) = BraggAngle(tri.ki, ds.mono)
        /\ Abs(TriangleAngles.ana) = BraggAngle(tri.kf, ds.ana)
<1>1. /\ tri.ki \in Waves /\ tri.kf \in Waves /\ tri.tt \in Turns
           /\ tri.th \in Turns
      /\ ds.mono \in Spacings /\ ds.ana \in Spacings
      /\ sense.mono \in BOOLEAN /\ sense.ana \in BOOLEAN
           /\ sense.sample \in BOOLEAN
  BY DEF DataType
<1>2. /\ BraggAngle(tri.ki, ds.mono) \in Magnitudes
      /\ BraggAngle(tri.kf, ds.ana) \in Magnitudes
  BY <1>1, BraggType
<1>3. /\ TriangleAngles.mono \in SignedAngles
      /\ Abs(TriangleAngles.mono) = BraggAngle(tri.ki, ds.mono)
  BY <1>1, <1>2, SignedAbs DEF TriangleAngles
<1>4. /\ TriangleAngles.ana \in SignedAngles
      /\ Abs(TriangleAngles.ana) = BraggAngle(tri.kf, ds.ana)
  BY <1>1, <1>2, SignedAbs DEF TriangleAngles
<1>5. TriangleAngles.tt \in Turns /\ TriangleAngles.th \in Turns
  BY <1>1, TurnTwice DEF TriangleAngles
<1>6. DOMAIN TriangleAngles = Angles BY DEF TriangleAngles, Angles
<1>7. \A x \in Angles : TriangleAngles[x] \in AngleValues(x)
  <2> DEFINE A == TriangleAngles
  <2>1. A["mono"] \in SignedAngles /\ A["ana"] \in SignedAngles
        /\ A["tt"] \in Turns /\ A["th"] \in Turns
    BY <1>3, <1>4, <1>5
  <2> HIDE DEF A
  <2>2. \A x \in Angles : A[x] \in AngleValues(x)
    BY <2>1 DEF Angles, AngleValues, Crystals
  <2> QED BY <2>2 DEF A
<1> QED BY <1>3, <1>4, <1>6, <1>7

\* The function on top is left, and what is below it stays as it is.
OpSets == RealOps \cup TofOps \cup LoadOps \cup TasOps

LEMMA HeadFacts ==
  ASSUME Control, IsStack(Rest), todo = Push(Head(todo), Rest)
  PROVE /\ NestFit(Head(todo), Ops(Rest)) /\ Nested(Rest)
        /\ TypedCall(Head(todo)) /\ Typed(Rest)
        /\ Ops(todo) = {Head(todo).op} \cup Ops(Rest)
<1> DEFINE h == Head(todo)
<1>1. todo = Push(h, Rest) /\ Nested(todo) /\ Typed(todo) BY DEF Control
<1> HIDE DEF h
<1>2. NestFit(h, Ops(Rest)) /\ Nested(Rest) /\ TypedCall(h) /\ Typed(Rest)
      /\ Ops(todo) = {h.op} \cup Ops(Rest)
  BY <1>1, NestedPush, TypedPush, PushOps
<1> QED BY <1>2 DEF h

LEMMA TriangleMovedControl ==
  ASSUME Control, TriangleMoved PROVE Control'
<1> DEFINE h == Head(todo)
           O == Ops(Rest)
<1>1. IsStack(todo) /\ Typed(todo) /\ Flags /\ DataType BY DEF Control
<1>2. IsStack(Rest) /\ todo = Push(h, Rest) BY <1>1, TriangleMovedEffect
<1>3. NestFit(h, O) /\ Nested(Rest) /\ TypedCall(h) /\ Typed(Rest)
      /\ Ops(todo) = {h.op} \cup O
  BY <1>2, HeadFacts
<1>4. IsStack(todo') BY <1>1, <1>2, TriangleMovedEffect, StackPush
<1>5. Nested(todo')
  BY <1>1, <1>2, <1>3, TriangleMovedEffect, NestedPush, PushOps, StackPush,
    Calling
     DEF NestFit, Flags, RealOps, TofOps, LoadOps, TasOps, Lifts, TofLifts
<1>6. Typed(todo')
  BY <1>1, <1>2, <1>3, TriangleMovedEffect, TypedPush, StackPush, Calling
    DEF TypedCall, Arg
<1>7. Flags'
  BY <1>1, <1>2, <1>3, TriangleMovedEffect, PushOps, StackPush, Calling
     DEF NestFit, Flags, RealOps, TofOps, LoadOps, TasOps
<1>8. DataType' BY <1>1, TriangleMovedEffect DEF DataType
<1> QED BY <1>4, <1>5, <1>6, <1>7, <1>8 DEF Control

LEMMA EmitUpdateControl ==
  ASSUME Control, EmitUpdate PROVE Control'
<1> DEFINE h == Head(todo)
           O == Ops(Rest)
<1>1. IsStack(todo) /\ Typed(todo) /\ Flags /\ DataType BY DEF Control
<1>2. IsStack(Rest) /\ todo = Push(h, Rest) BY <1>1, EmitUpdateEffect
<1>3. NestFit(h, O) /\ Nested(Rest) /\ TypedCall(h) /\ Typed(Rest)
      /\ Ops(todo) = {h.op} \cup O
  BY <1>2, HeadFacts
<1>4. IsStack(todo') BY <1>1, <1>2, EmitUpdateEffect, StackPush
<1>5. Nested(todo')
  BY <1>1, <1>2, <1>3, EmitUpdateEffect, NestedPush, PushOps, StackPush,
    Calling
     DEF NestFit, Flags, RealOps, TofOps, LoadOps, TasOps, Lifts, TofLifts
<1>6. Typed(todo')
  <2> DEFINE A == TriangleAngles
  <2>1. DOMAIN A = Angles /\ \A x \in Angles : A[x] \in AngleValues(x)
        BY <1>1, AnglesTyped
  <2> HIDE DEF A
  <2>2. /\ TypedCall(CallWith("RealTriangleChanged", A))
        /\ TypedCall(CallWith("TofTriangleChanged", A))
    BY <2>1, Calling DEF TypedCall, AngleNames
  <2> QED BY <1>1, <1>2, <1>3, <2>2, EmitUpdateEffect, TypedPush, StackPush
      DEF A
<1>7. Flags'
  BY <1>1, <1>2, <1>3, EmitUpdateEffect, PushOps, StackPush, Calling
     DEF NestFit, Flags, RealOps, TofOps, LoadOps, TasOps
<1>8. DataType' BY <1>1, EmitUpdateEffect DEF DataType
<1> QED BY <1>4, <1>5, <1>6, <1>7, <1>8 DEF Control

LEMMA EmitAllParamsControl ==
  ASSUME Control, EmitAllParams PROVE Control'
<1> DEFINE h == Head(todo)
           O == Ops(Rest)
<1>1. IsStack(todo) /\ Typed(todo) /\ Flags /\ DataType BY DEF Control
<1>2. IsStack(Rest) /\ todo = Push(h, Rest) BY <1>1, EmitAllParamsEffect
<1>3. NestFit(h, O) /\ Nested(Rest) /\ TypedCall(h) /\ Typed(Rest)
      /\ Ops(todo) = {h.op} \cup O
  BY <1>2, HeadFacts
<1>4. IsStack(todo') BY <1>1, <1>2, EmitAllParamsEffect, StackPush
<1>5. Nested(todo')
  BY <1>1, <1>2, <1>3, EmitAllParamsEffect, NestedPush, PushOps, StackPush,
    Calling
     DEF NestFit, Flags, RealOps, TofOps, LoadOps, TasOps, Lifts, TofLifts
<1>6. Typed(todo')
  BY <1>1, <1>2, <1>3, EmitAllParamsEffect, TypedPush, StackPush, Calling
    DEF TypedCall, Arg
<1>7. Flags'
  BY <1>1, <1>2, <1>3, EmitAllParamsEffect, PushOps, StackPush, Calling
     DEF NestFit, Flags, RealOps, TofOps, LoadOps, TasOps
<1>8. DataType' BY <1>1, EmitAllParamsEffect DEF DataType
<1> QED BY <1>4, <1>5, <1>6, <1>7, <1>8 DEF Control

LEMMA TasChangedControl ==
  ASSUME Control, TasChanged PROVE Control'
<1> DEFINE h == Head(todo)
           O == Ops(Rest)
           e == CallOf("TasChangedEnd")
           q0 == Push(e, Rest)
           q1 == Setting("Set", "kivec", Arg, q0)
           q2 == Setting("Set", "tt", Arg, q1)
           q3 == Setting("Set", "ana", Arg, q2)
           q4 == Setting("Set", "mono", Arg, q3)
<1>1. IsStack(todo) /\ Typed(todo) /\ Flags /\ DataType BY DEF Control
<1>2. IsStack(Rest) /\ todo = Push(h, Rest) /\ h.op = "TasChanged"
      /\ Arg = h.arg
  BY <1>1, TasChangedEffect DEF Arg
<1>3. NestFit(h, O) /\ Nested(Rest) /\ TypedCall(h) /\ Typed(Rest)
      /\ Ops(todo) = {h.op} \cup O
  BY <1>2, HeadFacts
<1>4. O \cap {"TasChangedEnd", "RealTriangleChangedEnd",
      "TofTriangleChangedEnd",
              "LoadEnd"} = {}
  BY <1>2, <1>3 DEF NestFit, RealOps, TofOps, LoadOps, TasOps
<1>5. \A x \in DOMAIN Arg : Arg[x] \in AngleValues(x)
  BY <1>2, <1>3 DEF TypedCall
<1>6. IsStack(q0) /\ Nested(q0) /\ Typed(q0)
      /\ Ops(q0) = {"TasChangedEnd"} \cup O
      /\ NestFit(CallOf("Set"), Ops(q0))
  <2>1. Ops(q0) = {"TasChangedEnd"} \cup O BY <1>2, PushOps, Calling
  <2>2. NestFit(e, O)
    BY <1>4, Calling DEF NestFit, RealOps, TofOps, LoadOps, TasOps
  <2>3. NestFit(CallOf("Set"), Ops(q0))
    BY <1>4, <2>1, Calling
       DEF NestFit, RealOps, TofOps, LoadOps, TasOps, Lifts, TofLifts
  <2>4. TypedCall(e) BY Calling DEF TypedCall
  <2> QED BY <1>2, <1>3, <2>1, <2>2, <2>3, <2>4, StackPush, NestedPush,
      TypedPush
<1>7. "Set" \in SetterOps BY DEF SetterOps
<1> HIDE DEF q0
<1>8. IsStack(q1) /\ Nested(q1) /\ Typed(q1)
      /\ NestFit(CallOf("Set"), Ops(q1))
      /\ \A m \in Markers : m \in Ops(q1) <=> m \in Ops(q0)
  <2>1. IsStack(q1) /\ \A m \in Markers : m \in Ops(q1) <=> m \in Ops(q0)
    BY <1>7, <1>6, SettingIs
  <2>2. Nested(q1) /\ NestFit(CallOf("Set"), Ops(q1))
        BY <1>7, <1>6, SettingNested
  <2>3. Typed(q1)
    <3> DEFINE x == "kivec"
    <3>1. x \in AngleNames /\ x # "th" BY DEF AngleNames, Angles
    <3> HIDE DEF x
    <3>2. Typed(Setting("Set", x, Arg, q0)) BY <3>1, <1>5, <1>6, SettingTyped
    <3> QED BY <3>2 DEF x
  <2> QED BY <2>1, <2>2, <2>3, <1>6
<1> HIDE DEF q1
<1>9. IsStack(q2) /\ Nested(q2) /\ Typed(q2)
      /\ NestFit(CallOf("Set"), Ops(q2))
      /\ \A m \in Markers : m \in Ops(q2) <=> m \in Ops(q0)
  <2>1. IsStack(q2) /\ \A m \in Markers : m \in Ops(q2) <=> m \in Ops(q1)
    BY <1>7, <1>8, SettingIs
  <2>2. Nested(q2) /\ NestFit(CallOf("Set"), Ops(q2))
        BY <1>7, <1>8, SettingNested
  <2>3. Typed(q2)
    <3> DEFINE x == "tt"
    <3>1. x \in AngleNames /\ x # "th" BY DEF AngleNames, Angles
    <3> HIDE DEF x
    <3>2. Typed(Setting("Set", x, Arg, q1)) BY <3>1, <1>5, <1>8, SettingTyped
    <3> QED BY <3>2 DEF x
  <2> QED BY <2>1, <2>2, <2>3, <1>8
<1> HIDE DEF q2
<1>10. IsStack(q3) /\ Nested(q3) /\ Typed(q3)
      /\ NestFit(CallOf("Set"), Ops(q3))
      /\ \A m \in Markers : m \in Ops(q3) <=> m \in Ops(q0)
  <2>1. IsStack(q3) /\ \A m \in Markers : m \in Ops(q3) <=> m \in Ops(q2)
    BY <1>7, <1>9, SettingIs
  <2>2. Nested(q3) /\ NestFit(CallOf("Set"), Ops(q3))
        BY <1>7, <1>9, SettingNested
  <2>3. Typed(q3)
    <3> DEFINE x == "ana"
    <3>1. x \in AngleNames /\ x # "th" BY DEF AngleNames, Angles
    <3> HIDE DEF x
    <3>2. Typed(Setting("Set", x, Arg, q2)) BY <3>1, <1>5, <1>9, SettingTyped
    <3> QED BY <3>2 DEF x
  <2> QED BY <2>1, <2>2, <2>3, <1>9
<1> HIDE DEF q3
<1>11. IsStack(q4) /\ Nested(q4) /\ Typed(q4)
      /\ NestFit(CallOf("Set"), Ops(q4))
      /\ \A m \in Markers : m \in Ops(q4) <=> m \in Ops(q0)
  <2>1. IsStack(q4) /\ \A m \in Markers : m \in Ops(q4) <=> m \in Ops(q3)
    BY <1>7, <1>10, SettingIs
  <2>2. Nested(q4) /\ NestFit(CallOf("Set"), Ops(q4))
        BY <1>7, <1>10, SettingNested
  <2>3. Typed(q4)
    <3> DEFINE x == "mono"
    <3>1. x \in AngleNames /\ x # "th" BY DEF AngleNames, Angles
    <3> HIDE DEF x
    <3>2. Typed(Setting("Set", x, Arg, q3)) BY <3>1, <1>5, <1>10, SettingTyped
    <3> QED BY <3>2 DEF x
  <2> QED BY <2>1, <2>2, <2>3, <1>10
<1> HIDE DEF q4
<1>12. ready.tri => todo' = q4 /\ dont' = [dont EXCEPT !.recip = TRUE]
  BY <1>1, TasChangedEffect DEF q0, q1, q2, q3, q4
<1>13. ~ready.tri => todo' = Rest /\ dont' = dont
  BY <1>1, TasChangedEffect
<1>14. IsStack(todo') /\ Nested(todo') /\ Typed(todo')
  BY <1>2, <1>3, <1>11, <1>12, <1>13
<1>15. Flags'
  <2>1. UNCHANGED <<busy, ready>> BY <1>1, TasChangedEffect
  <2>2. CASE ready.tri
    <3>1. \A m \in Markers : m \in Ops(todo')
          <=> m \in {"TasChangedEnd"} \cup O
      BY <1>6, <1>11, <1>12, <2>2
    <3> QED BY <1>1, <1>2, <1>3, <1>4, <1>12, <2>1, <2>2, <3>1 DEF Flags,
        Markers
  <2>3. CASE ~ready.tri BY <1>1, <1>2, <1>3, <1>13, <2>1, <2>3 DEF Flags
  <2> QED BY <2>2, <2>3
<1>16. DataType' BY <1>1, TasChangedEffect DEF DataType
<1> QED BY <1>14, <1>15, <1>16 DEF Control

LEMMA TasChangedEndControl ==
  ASSUME Control, TasChangedEnd PROVE Control'
<1> DEFINE h == Head(todo)
           O == Ops(Rest)
<1>1. IsStack(todo) /\ Typed(todo) /\ Flags /\ DataType BY DEF Control
<1>2. IsStack(Rest) /\ todo = Push(h, Rest) BY <1>1, TasChangedEndEffect
<1>3. NestFit(h, O) /\ Nested(Rest) /\ TypedCall(h) /\ Typed(Rest)
      /\ Ops(todo) = {h.op} \cup O
  BY <1>2, HeadFacts
<1>4. IsStack(todo') BY <1>1, <1>2, TasChangedEndEffect, StackPush
<1>5. Nested(todo')
  BY <1>1, <1>2, <1>3, TasChangedEndEffect, NestedPush, PushOps, StackPush,
    Calling
     DEF NestFit, Flags, RealOps, TofOps, LoadOps, TasOps, Lifts, TofLifts
<1>6. Typed(todo')
  BY <1>1, <1>2, <1>3, TasChangedEndEffect, TypedPush, StackPush, Calling
    DEF TypedCall, Arg
<1>7. Flags'
  <2>1. h.op = "TasChangedEnd" BY <1>1, TasChangedEndEffect
  <2>2. "TasChangedEnd" \notin O /\ "LoadEnd" \notin O
    BY <1>3, <2>1 DEF NestFit, RealOps, TofOps, LoadOps, TasOps
  <2>3. dont' = [dont EXCEPT !.recip = FALSE]
        /\ UNCHANGED <<busy, ready>>
    BY <1>1, TasChangedEndEffect
  <2>4. \A m : m # "TasChangedEnd" /\ m # "RealEmitAllParams"
        => (m \in Ops(todo') <=> m \in Ops(todo))
    BY <1>1, <1>2, <1>3, <2>1, TasChangedEndEffect, PushOps, Calling
  <2>5. "TasChangedEnd" \notin Ops(todo')
    BY <1>1, <1>2, <2>2, TasChangedEndEffect, PushOps, Calling
  <2>6. "LoadEnd" \in Ops(todo') <=> "LoadEnd" \in Ops(todo) BY <2>4
  <2>7. dont' \in [recip : BOOLEAN, real : BOOLEAN, tof : BOOLEAN]
        /\ ~dont'.recip /\ dont'.real = dont.real /\ dont'.tof = dont.tof
    BY <1>1, <2>3 DEF Flags
  <2> HIDE DEF O
  <2>8. "LoadEnd" \notin O => "LoadEnd" \notin Ops(todo') BY <1>3, <2>1, <2>6
  <2> QED BY <1>1, <2>2, <2>3, <2>4, <2>5, <2>6, <2>7, <2>8 DEF Flags
<1>8. DataType' BY <1>1, TasChangedEndEffect DEF DataType
<1> QED BY <1>4, <1>5, <1>6, <1>7, <1>8 DEF Control

LEMMA RealTriangleChangedControl ==
  ASSUME Control, RealTriangleChanged PROVE Control'
<1> DEFINE h == Head(todo)
           O == Ops(Rest)
           e == CallOf("RealTriangleChangedEnd")
           q0 == Push(e, Rest)
           q1 == Setting("RealSet", "tt", Arg, q0)
           q2 == Setting("RealSet", "th", Arg, q1)
           q3 == Setting("RealSet", "ana", Arg, q2)
           q4 == Setting("RealSet", "mono", Arg, q3)
<1>1. IsStack(todo) /\ Typed(todo) /\ Flags /\ DataType BY DEF Control
<1>2. IsStack(Rest) /\ todo = Push(h, Rest) /\ h.op = "RealTriangleChanged"
      /\ Arg = h.arg
  BY <1>1, RealTriangleChangedEffect DEF Arg
<1>3. NestFit(h, O) /\ Nested(Rest) /\ TypedCall(h) /\ Typed(Rest)
      /\ Ops(todo) = {h.op} \cup O
  BY <1>2, HeadFacts
<1>4. O \cap {"TasChangedEnd", "RealTriangleChangedEnd",
      "TofTriangleChangedEnd",
              "LoadEnd"} = {}
  BY <1>2, <1>3 DEF NestFit, RealOps, TofOps, LoadOps, TasOps
<1>5. \A x \in DOMAIN Arg : Arg[x] \in AngleValues(x)
  BY <1>2, <1>3 DEF TypedCall
<1>6. IsStack(q0) /\ Nested(q0) /\ Typed(q0)
      /\ Ops(q0) = {"RealTriangleChangedEnd"} \cup O
      /\ NestFit(CallOf("RealSet"), Ops(q0))
  <2>1. Ops(q0) = {"RealTriangleChangedEnd"} \cup O BY <1>2, PushOps, Calling
  <2>2. NestFit(e, O)
    BY <1>4, Calling DEF NestFit, RealOps, TofOps, LoadOps, TasOps
  <2>3. NestFit(CallOf("RealSet"), Ops(q0))
    BY <1>4, <2>1, Calling
       DEF NestFit, RealOps, TofOps, LoadOps, TasOps, Lifts, TofLifts
  <2>4. TypedCall(e) BY Calling DEF TypedCall
  <2> QED BY <1>2, <1>3, <2>1, <2>2, <2>3, <2>4, StackPush, NestedPush,
      TypedPush
<1>7. "RealSet" \in SetterOps BY DEF SetterOps
<1> HIDE DEF q0
<1>8. IsStack(q1) /\ Nested(q1) /\ Typed(q1)
      /\ NestFit(CallOf("RealSet"), Ops(q1))
      /\ \A m \in Markers : m \in Ops(q1) <=> m \in Ops(q0)
  <2>1. IsStack(q1) /\ \A m \in Markers : m \in Ops(q1) <=> m \in Ops(q0)
    BY <1>7, <1>6, SettingIs
  <2>2. Nested(q1) /\ NestFit(CallOf("RealSet"), Ops(q1))
        BY <1>7, <1>6, SettingNested
  <2>3. Typed(q1)
    <3> DEFINE x == "tt"
    <3>1. x \in AngleNames /\ x # "kivec" BY DEF AngleNames, Angles
    <3> HIDE DEF x
    <3>2. Typed(Setting("RealSet", x, Arg, q0))
          BY <3>1, <1>5, <1>6, SettingTyped
    <3> QED BY <3>2 DEF x
  <2> QED BY <2>1, <2>2, <2>3, <1>6
<1> HIDE DEF q1
<1>9. IsStack(q2) /\ Nested(q2) /\ Typed(q2)
      /\ NestFit(CallOf("RealSet"), Ops(q2))
      /\ \A m \in Markers : m \in Ops(q2) <=> m \in Ops(q0)
  <2>1. IsStack(q2) /\ \A m \in Markers : m \in Ops(q2) <=> m \in Ops(q1)
    BY <1>7, <1>8, SettingIs
  <2>2. Nested(q2) /\ NestFit(CallOf("RealSet"), Ops(q2))
        BY <1>7, <1>8, SettingNested
  <2>3. Typed(q2)
    <3> DEFINE x == "th"
    <3>1. x \in AngleNames /\ x # "kivec" BY DEF AngleNames, Angles
    <3> HIDE DEF x
    <3>2. Typed(Setting("RealSet", x, Arg, q1))
          BY <3>1, <1>5, <1>8, SettingTyped
    <3> QED BY <3>2 DEF x
  <2> QED BY <2>1, <2>2, <2>3, <1>8
<1> HIDE DEF q2
<1>10. IsStack(q3) /\ Nested(q3) /\ Typed(q3)
      /\ NestFit(CallOf("RealSet"), Ops(q3))
      /\ \A m \in Markers : m \in Ops(q3) <=> m \in Ops(q0)
  <2>1. IsStack(q3) /\ \A m \in Markers : m \in Ops(q3) <=> m \in Ops(q2)
    BY <1>7, <1>9, SettingIs
  <2>2. Nested(q3) /\ NestFit(CallOf("RealSet"), Ops(q3))
        BY <1>7, <1>9, SettingNested
  <2>3. Typed(q3)
    <3> DEFINE x == "ana"
    <3>1. x \in AngleNames /\ x # "kivec" BY DEF AngleNames, Angles
    <3> HIDE DEF x
    <3>2. Typed(Setting("RealSet", x, Arg, q2))
          BY <3>1, <1>5, <1>9, SettingTyped
    <3> QED BY <3>2 DEF x
  <2> QED BY <2>1, <2>2, <2>3, <1>9
<1> HIDE DEF q3
<1>11. IsStack(q4) /\ Nested(q4) /\ Typed(q4)
      /\ NestFit(CallOf("RealSet"), Ops(q4))
      /\ \A m \in Markers : m \in Ops(q4) <=> m \in Ops(q0)
  <2>1. IsStack(q4) /\ \A m \in Markers : m \in Ops(q4) <=> m \in Ops(q3)
    BY <1>7, <1>10, SettingIs
  <2>2. Nested(q4) /\ NestFit(CallOf("RealSet"), Ops(q4))
        BY <1>7, <1>10, SettingNested
  <2>3. Typed(q4)
    <3> DEFINE x == "mono"
    <3>1. x \in AngleNames /\ x # "kivec" BY DEF AngleNames, Angles
    <3> HIDE DEF x
    <3>2. Typed(Setting("RealSet", x, Arg, q3))
          BY <3>1, <1>5, <1>10, SettingTyped
    <3> QED BY <3>2 DEF x
  <2> QED BY <2>1, <2>2, <2>3, <1>10
<1> HIDE DEF q4
<1>12. ready.real => todo' = q4 /\ dont' = [dont EXCEPT !.real = TRUE]
  BY <1>1, RealTriangleChangedEffect DEF q0, q1, q2, q3, q4
<1>13. ~ready.real => todo' = Rest /\ dont' = dont
  BY <1>1, RealTriangleChangedEffect
<1>14. IsStack(todo') /\ Nested(todo') /\ Typed(todo')
  BY <1>2, <1>3, <1>11, <1>12, <1>13
<1>15. Flags'
  <2>1. UNCHANGED <<busy, ready>> BY <1>1, RealTriangleChangedEffect
  <2>2. CASE ready.real
    <3>1. \A m \in Markers : m \in Ops(todo')
          <=> m \in {"RealTriangleChangedEnd"} \cup O
      BY <1>6, <1>11, <1>12, <2>2
    <3> QED BY <1>1, <1>2, <1>3, <1>4, <1>12, <2>1, <2>2, <3>1 DEF Flags,
        Markers
  <2>3. CASE ~ready.real BY <1>1, <1>2, <1>3, <1>13, <2>1, <2>3 DEF Flags
  <2> QED BY <2>2, <2>3
<1>16. DataType' BY <1>1, RealTriangleChangedEffect DEF DataType
<1> QED BY <1>14, <1>15, <1>16 DEF Control

LEMMA RealTriangleChangedEndControl ==
  ASSUME Control, RealTriangleChangedEnd PROVE Control'
<1> DEFINE h == Head(todo)
           O == Ops(Rest)
<1>1. IsStack(todo) /\ Typed(todo) /\ Flags /\ DataType BY DEF Control
<1>2. IsStack(Rest) /\ todo = Push(h, Rest)
      BY <1>1, RealTriangleChangedEndEffect
<1>3. NestFit(h, O) /\ Nested(Rest) /\ TypedCall(h) /\ Typed(Rest)
      /\ Ops(todo) = {h.op} \cup O
  BY <1>2, HeadFacts
<1>4. IsStack(todo') BY <1>1, <1>2, RealTriangleChangedEndEffect, StackPush
<1>5. Nested(todo')
  BY <1>1, <1>2, <1>3, RealTriangleChangedEndEffect, NestedPush, PushOps,
    StackPush, Calling
     DEF NestFit, Flags, RealOps, TofOps, LoadOps, TasOps, Lifts, TofLifts
<1>6. Typed(todo')
  BY <1>1, <1>2, <1>3, RealTriangleChangedEndEffect, TypedPush, StackPush,
    Calling DEF TypedCall, Arg
<1>7. Flags'
  <2>1. h.op = "RealTriangleChangedEnd" BY <1>1, RealTriangleChangedEndEffect
  <2>2. "RealTriangleChangedEnd" \notin O /\ "LoadEnd" \notin O
    BY <1>3, <2>1 DEF NestFit, RealOps, TofOps, LoadOps, TasOps
  <2>3. dont' = [dont EXCEPT !.real = FALSE]
        /\ UNCHANGED <<busy, ready>>
    BY <1>1, RealTriangleChangedEndEffect
  <2>4. \A m : m # "RealTriangleChangedEnd" /\ m # "RealEmitAllParams"
        => (m \in Ops(todo') <=> m \in Ops(todo))
    BY <1>1, <1>2, <1>3, <2>1, RealTriangleChangedEndEffect, PushOps, Calling
  <2>5. "RealTriangleChangedEnd" \notin Ops(todo')
    BY <1>1, <1>2, <2>2, RealTriangleChangedEndEffect, PushOps, Calling
  <2>6. "LoadEnd" \in Ops(todo') <=> "LoadEnd" \in Ops(todo) BY <2>4
  <2>7. dont' \in [recip : BOOLEAN, real : BOOLEAN, tof : BOOLEAN]
        /\ ~dont'.real /\ dont'.recip = dont.recip /\ dont'.tof = dont.tof
    BY <1>1, <2>3 DEF Flags
  <2> HIDE DEF O
  <2>8. "LoadEnd" \notin O => "LoadEnd" \notin Ops(todo') BY <1>3, <2>1, <2>6
  <2> QED BY <1>1, <2>2, <2>3, <2>4, <2>5, <2>6, <2>7, <2>8 DEF Flags
<1>8. DataType' BY <1>1, RealTriangleChangedEndEffect DEF DataType
<1> QED BY <1>4, <1>5, <1>6, <1>7, <1>8 DEF Control

LEMMA RealAngleKiQControl ==
  ASSUME Control, RealAngleKiQ PROVE Control'
<1> DEFINE h == Head(todo)
           O == Ops(Rest)
<1>1. IsStack(todo) /\ Typed(todo) /\ Flags /\ DataType BY DEF Control
<1>2. IsStack(Rest) /\ todo = Push(h, Rest) BY <1>1, RealAngleKiQEffect
<1>3. NestFit(h, O) /\ Nested(Rest) /\ TypedCall(h) /\ Typed(Rest)
      /\ Ops(todo) = {h.op} \cup O
  BY <1>2, HeadFacts
<1>4. IsStack(todo') BY <1>1, <1>2, RealAngleKiQEffect, StackPush
<1>5. Nested(todo')
  BY <1>1, <1>2, <1>3, RealAngleKiQEffect, NestedPush, PushOps, StackPush,
    Calling
     DEF NestFit, Flags, RealOps, TofOps, LoadOps, TasOps, Lifts, TofLifts
<1>6. Typed(todo')
  BY <1>1, <1>2, <1>3, RealAngleKiQEffect, TypedPush, StackPush, Calling
    DEF TypedCall, Arg
<1>7. Flags'
  BY <1>1, <1>2, <1>3, RealAngleKiQEffect, PushOps, StackPush, Calling
     DEF NestFit, Flags, RealOps, TofOps, LoadOps, TasOps
<1>8. DataType'
  <2>1. real' = [real EXCEPT !["kiq"] = Arg] BY <1>1, RealAngleKiQEffect
  <2>2. DOMAIN real' = Angles \cup {"kiq"} BY <1>1, <2>1 DEF DataType
  <2>3. \A x \in Angles : real'[x] = real[x] BY <1>1, <2>1 DEF DataType, Angles
  <2> QED BY <1>1, RealAngleKiQEffect, <2>2, <2>3 DEF DataType
<1> QED BY <1>4, <1>5, <1>6, <1>7, <1>8 DEF Control

LEMMA RealMovedControl ==
  ASSUME Control, RealMoved PROVE Control'
<1> DEFINE h == Head(todo)
           O == Ops(Rest)
           e == CallWith("RealMovedEnd", At("RealMoved"))
<1>1. IsStack(todo) /\ Typed(todo) /\ Flags /\ DataType BY DEF Control
<1>2. /\ IsStack(Rest) /\ todo = Push(h, Rest) /\ Arg = h.arg
      /\ h.op \in {"RealMoved", "RealMovedFirst"}
  BY <1>1, RealMovedEffect DEF Arg
<1>3. NestFit(h, O) /\ Nested(Rest) /\ TypedCall(h) /\ Typed(Rest)
      /\ Ops(todo) = {h.op} \cup O
  BY <1>2, HeadFacts
<1>4. DataType' BY <1>1, RealMovedEffect DEF DataType
<1>5. CASE ~ready.real \/ busy.real
  <2>1. busy' = busy /\ todo' = Rest /\ UNCHANGED <<ready, dont>>
    BY <1>1, <1>5, RealMovedEffect
  <2>2. Flags' BY <1>1, <1>2, <1>3, <2>1 DEF Flags
  <2> QED BY <1>2, <1>3, <1>4, <2>1, <2>2 DEF Control
<1>6. CASE ready.real /\ ~busy.real
  <2>1. /\ busy' = [busy EXCEPT !.real = TRUE]
        /\ \/ Arg \notin {"sample", "ana", "det"} /\ todo' = Push(e, Rest)
           \/ \E x \in {"mono", "tt", "ana"} :
                /\ Arg = Mover[x]
                /\ todo' = Push(CallWith("RealEmit", Only(x, real[x])),
                     Push(e, Rest))
    BY <1>1, <1>6, RealMovedCases
  <2>2. e.op = "RealMovedEnd" BY Calling
  <2> HIDE DEF e
  <2>3. "LoadEnd" \notin O /\ "RealMovedEnd" \notin O
        /\ "TofTriangleChangedEnd" \notin O
    BY <1>1, <1>2, <1>3, <1>6 DEF Flags, NestFit, TofOps
  <2>4. NestFit(e, O)
    BY <1>2, <1>3, <2>2, <2>3
       DEF NestFit, RealOps, TofOps, LoadOps, TasOps, Lifts, TofLifts
  <2> DEFINE p == Push(e, Rest)
  <2>5. /\ IsStack(p) /\ Nested(p) /\ Typed(p)
             /\ Ops(p) = {"RealMovedEnd"} \cup O
    <3>1. TypedCall(e) BY <2>2 DEF TypedCall
    <3> QED BY <1>2, <1>3, <2>2, <2>4, <3>1, StackPush, NestedPush, TypedPush,
        PushOps
  <2> HIDE DEF p
  <2>6. UNCHANGED <<ready, dont>> BY <1>1, RealMovedEffect
  <2>7. CASE todo' = p
    <3>1. Flags'
      BY <1>1, <1>2, <1>3, <2>1, <2>5, <2>6, <2>7 DEF Flags
    <3> QED BY <1>4, <2>5, <2>7, <3>1 DEF Control
  <2>8. ASSUME NEW x \in {"mono", "tt", "ana"}, Arg = Mover[x],
               todo' = Push(CallWith("RealEmit", Only(x, real[x])), p)
        PROVE Control'
    <3> DEFINE f == CallWith("RealEmit", Only(x, real[x]))
    <3>1. f.op = "RealEmit" /\ f.arg = Only(x, real[x]) BY Calling
    <3>2. real[x] \in AngleValues(x) /\ x \in AngleNames \ {"th"}
      BY <1>1, <2>8 DEF DataType, Angles, AngleNames
    <3> HIDE DEF f
    <3>3. TypedCall(f)
      <4>1. DOMAIN f.arg = {x} /\ f.arg[x] = real[x] BY <3>1, OnlyIs
      <4> QED BY <3>1, <3>2, <4>1 DEF TypedCall
    <3>4. Arg \in {"sample", "ana", "det"} BY <2>8 DEF Mover
    <3>5. "TasChangedEnd" \notin O
      BY <1>2, <1>3, <3>4 DEF NestFit, Lifts
    <3>6. NestFit(f, Ops(p))
      BY <2>3, <2>5, <3>1, <3>5
         DEF NestFit, RealOps, TofOps, LoadOps, TasOps
    <3>7. todo' = Push(f, p) BY <2>8 DEF f
    <3>8. IsStack(todo') /\ Nested(todo') /\ Typed(todo')
          /\ Ops(todo') = {"RealEmit", "RealMovedEnd"} \cup O
      BY <2>5, <3>1, <3>3, <3>6, <3>7, StackPush, NestedPush, TypedPush,
        PushOps
    <3>9. Flags'
      BY <1>1, <1>2, <1>3, <2>1, <2>6, <3>8 DEF Flags
    <3> QED BY <1>4, <3>8, <3>9 DEF Control
  <2> QED BY <2>1, <2>7, <2>8 DEF p
<1> QED BY <1>5, <1>6

LEMMA RealMovedEndControl ==
  ASSUME Control, RealMovedEnd PROVE Control'
<1> DEFINE h == Head(todo)
           O == Ops(Rest)
<1>1. IsStack(todo) /\ Typed(todo) /\ Flags /\ DataType BY DEF Control
<1>2. IsStack(Rest) /\ todo = Push(h, Rest) BY <1>1, RealMovedEndEffect
<1>3. NestFit(h, O) /\ Nested(Rest) /\ TypedCall(h) /\ Typed(Rest)
      /\ Ops(todo) = {h.op} \cup O
  BY <1>2, HeadFacts
<1>4. IsStack(todo') BY <1>1, <1>2, RealMovedEndEffect, StackPush
<1>5. Nested(todo')
  BY <1>1, <1>2, <1>3, RealMovedEndEffect, NestedPush, PushOps, StackPush,
    Calling
     DEF NestFit, Flags, RealOps, TofOps, LoadOps, TasOps, Lifts, TofLifts
<1>6. Typed(todo')
  BY <1>1, <1>2, <1>3, RealMovedEndEffect, TypedPush, StackPush, Calling
    DEF TypedCall, Arg
<1>7. Flags'
  <2>1. h.op = "RealMovedEnd" BY <1>1, RealMovedEndEffect
  <2>2. "RealMovedEnd" \notin O 
    BY <1>3, <2>1 DEF NestFit, RealOps, TofOps, LoadOps, TasOps
  <2>3. busy' = [busy EXCEPT !.real = FALSE]
        /\ UNCHANGED <<dont, ready>>
    BY <1>1, RealMovedEndEffect
  <2>4. \A m : m # "RealMovedEnd" /\ m # "RealEmitAllParams"
        => (m \in Ops(todo') <=> m \in Ops(todo))
    BY <1>1, <1>2, <1>3, <2>1, RealMovedEndEffect, PushOps, Calling
  <2>5. "RealMovedEnd" \notin Ops(todo')
    BY <1>1, <1>2, <2>2, RealMovedEndEffect, PushOps, Calling
  <2>6. "LoadEnd" \in Ops(todo') <=> "LoadEnd" \in Ops(todo) BY <2>4
  <2>7. busy' \in [real : BOOLEAN, tof : BOOLEAN]
        /\ ~busy'.real /\ busy'.tof = busy.tof
    BY <1>1, <2>3 DEF Flags
  <2> HIDE DEF O
  <2>8. "LoadEnd" \notin O => "LoadEnd" \notin Ops(todo') BY <1>3, <2>1, <2>6
  <2> QED BY <1>1, <2>2, <2>3, <2>4, <2>5, <2>6, <2>7, <2>8 DEF Flags
<1>8. DataType' BY <1>1, RealMovedEndEffect DEF DataType
<1> QED BY <1>4, <1>5, <1>6, <1>7, <1>8 DEF Control

LEMMA RealEmitControl ==
  ASSUME Control, RealEmit PROVE Control'
<1> DEFINE h == Head(todo)
           O == Ops(Rest)
<1>1. IsStack(todo) /\ Typed(todo) /\ Flags /\ DataType BY DEF Control
<1>2. IsStack(Rest) /\ todo = Push(h, Rest) BY <1>1, RealEmitEffect
<1>3. NestFit(h, O) /\ Nested(Rest) /\ TypedCall(h) /\ Typed(Rest)
      /\ Ops(todo) = {h.op} \cup O
  BY <1>2, HeadFacts
<1>4. IsStack(todo') BY <1>1, <1>2, RealEmitEffect, StackPush
<1>5. Nested(todo')
  BY <1>1, <1>2, <1>3, RealEmitEffect, NestedPush, PushOps, StackPush, Calling
     DEF NestFit, Flags, RealOps, TofOps, LoadOps, TasOps, Lifts, TofLifts
<1>6. Typed(todo')
  BY <1>1, <1>2, <1>3, RealEmitEffect, TypedPush, StackPush, Calling
    DEF TypedCall, Arg
<1>7. Flags'
  BY <1>1, <1>2, <1>3, RealEmitEffect, PushOps, StackPush, Calling
     DEF NestFit, Flags, RealOps, TofOps, LoadOps, TasOps
<1>8. DataType' BY <1>1, RealEmitEffect DEF DataType
<1> QED BY <1>4, <1>5, <1>6, <1>7, <1>8 DEF Control

LEMMA RealEmitAllParamsControl ==
  ASSUME Control, RealEmitAllParams PROVE Control'
<1> DEFINE h == Head(todo)
           O == Ops(Rest)
<1>1. IsStack(todo) /\ Typed(todo) /\ Flags /\ DataType BY DEF Control
<1>2. IsStack(Rest) /\ todo = Push(h, Rest) BY <1>1, RealEmitAllParamsEffect
<1>3. NestFit(h, O) /\ Nested(Rest) /\ TypedCall(h) /\ Typed(Rest)
      /\ Ops(todo) = {h.op} \cup O
  BY <1>2, HeadFacts
<1>4. IsStack(todo') BY <1>1, <1>2, RealEmitAllParamsEffect, StackPush
<1>5. Nested(todo')
  BY <1>1, <1>2, <1>3, RealEmitAllParamsEffect, NestedPush, PushOps,
    StackPush, Calling
     DEF NestFit, Flags, RealOps, TofOps, LoadOps, TasOps, Lifts, TofLifts
<1>6. Typed(todo')
  BY <1>1, <1>2, <1>3, RealEmitAllParamsEffect, TypedPush, StackPush, Calling
    DEF TypedCall, Arg
<1>7. Flags'
  BY <1>1, <1>2, <1>3, RealEmitAllParamsEffect, PushOps, StackPush, Calling
     DEF NestFit, Flags, RealOps, TofOps, LoadOps, TasOps
<1>8. DataType' BY <1>1, RealEmitAllParamsEffect DEF DataType
<1> QED BY <1>4, <1>5, <1>6, <1>7, <1>8 DEF Control

LEMMA TofTriangleChangedControl ==
  ASSUME Control, TofTriangleChanged PROVE Control'
<1> DEFINE h == Head(todo)
           O == Ops(Rest)
           e == CallOf("TofTriangleChangedEnd")
           q0 == Push(e, Rest)
           q1 == Setting("TofSet", "tt", Arg, q0)
           q2 == Setting("TofSet", "th", Arg, q1)
<1>1. IsStack(todo) /\ Typed(todo) /\ Flags /\ DataType BY DEF Control
<1>2. IsStack(Rest) /\ todo = Push(h, Rest) /\ h.op = "TofTriangleChanged"
      /\ Arg = h.arg
  BY <1>1, TofTriangleChangedEffect DEF Arg
<1>3. NestFit(h, O) /\ Nested(Rest) /\ TypedCall(h) /\ Typed(Rest)
      /\ Ops(todo) = {h.op} \cup O
  BY <1>2, HeadFacts
<1>4. O \cap {"TasChangedEnd", "RealTriangleChangedEnd",
      "TofTriangleChangedEnd",
              "LoadEnd"} = {}
  BY <1>2, <1>3 DEF NestFit, RealOps, TofOps, LoadOps, TasOps
<1>5. \A x \in DOMAIN Arg : Arg[x] \in AngleValues(x)
  BY <1>2, <1>3 DEF TypedCall
<1>6. IsStack(q0) /\ Nested(q0) /\ Typed(q0)
      /\ Ops(q0) = {"TofTriangleChangedEnd"} \cup O
      /\ NestFit(CallOf("TofSet"), Ops(q0))
  <2>1. Ops(q0) = {"TofTriangleChangedEnd"} \cup O BY <1>2, PushOps, Calling
  <2>2. NestFit(e, O)
    BY <1>4, Calling DEF NestFit, RealOps, TofOps, LoadOps, TasOps
  <2>3. NestFit(CallOf("TofSet"), Ops(q0))
    BY <1>4, <2>1, Calling
       DEF NestFit, RealOps, TofOps, LoadOps, TasOps, Lifts, TofLifts
  <2>4. TypedCall(e) BY Calling DEF TypedCall
  <2> QED BY <1>2, <1>3, <2>1, <2>2, <2>3, <2>4, StackPush, NestedPush,
      TypedPush
<1>7. "TofSet" \in SetterOps BY DEF SetterOps
<1> HIDE DEF q0
<1>8. IsStack(q1) /\ Nested(q1) /\ Typed(q1)
      /\ NestFit(CallOf("TofSet"), Ops(q1))
      /\ \A m \in Markers : m \in Ops(q1) <=> m \in Ops(q0)
  <2>1. IsStack(q1) /\ \A m \in Markers : m \in Ops(q1) <=> m \in Ops(q0)
    BY <1>7, <1>6, SettingIs
  <2>2. Nested(q1) /\ NestFit(CallOf("TofSet"), Ops(q1))
        BY <1>7, <1>6, SettingNested
  <2>3. Typed(q1)
    <3> DEFINE x == "tt"
    <3>1. x \in AngleNames /\ x \in {"tt", "th"} BY DEF AngleNames, Angles
    <3> HIDE DEF x
    <3>2. Typed(Setting("TofSet", x, Arg, q0))
          BY <3>1, <1>5, <1>6, SettingTyped
    <3> QED BY <3>2 DEF x
  <2> QED BY <2>1, <2>2, <2>3, <1>6
<1> HIDE DEF q1
<1>9. IsStack(q2) /\ Nested(q2) /\ Typed(q2)
      /\ NestFit(CallOf("TofSet"), Ops(q2))
      /\ \A m \in Markers : m \in Ops(q2) <=> m \in Ops(q0)
  <2>1. IsStack(q2) /\ \A m \in Markers : m \in Ops(q2) <=> m \in Ops(q1)
    BY <1>7, <1>8, SettingIs
  <2>2. Nested(q2) /\ NestFit(CallOf("TofSet"), Ops(q2))
        BY <1>7, <1>8, SettingNested
  <2>3. Typed(q2)
    <3> DEFINE x == "th"
    <3>1. x \in AngleNames /\ x \in {"tt", "th"} BY DEF AngleNames, Angles
    <3> HIDE DEF x
    <3>2. Typed(Setting("TofSet", x, Arg, q1))
          BY <3>1, <1>5, <1>8, SettingTyped
    <3> QED BY <3>2 DEF x
  <2> QED BY <2>1, <2>2, <2>3, <1>8
<1> HIDE DEF q2
<1>10. TRUE => todo' = q2 /\ dont' = [dont EXCEPT !.tof = TRUE]
  BY <1>1, TofTriangleChangedEffect DEF q0, q1, q2
<1>11. ~TRUE => todo' = Rest /\ dont' = dont
  BY <1>1, TofTriangleChangedEffect
<1>12. IsStack(todo') /\ Nested(todo') /\ Typed(todo')
  BY <1>2, <1>3, <1>9, <1>10, <1>11
<1>13. Flags'
  <2>1. UNCHANGED <<busy, ready>> BY <1>1, TofTriangleChangedEffect
  <2>2. CASE TRUE
    <3>1. \A m \in Markers : m \in Ops(todo')
          <=> m \in {"TofTriangleChangedEnd"} \cup O
      BY <1>6, <1>9, <1>10, <2>2
    <3> QED BY <1>1, <1>2, <1>3, <1>4, <1>10, <2>1, <2>2, <3>1 DEF Flags,
        Markers
  <2>3. CASE ~TRUE BY <1>1, <1>2, <1>3, <1>11, <2>1, <2>3 DEF Flags
  <2> QED BY <2>2, <2>3
<1>14. DataType' BY <1>1, TofTriangleChangedEffect DEF DataType
<1> QED BY <1>12, <1>13, <1>14 DEF Control

LEMMA TofTriangleChangedEndControl ==
  ASSUME Control, TofTriangleChangedEnd PROVE Control'
<1> DEFINE h == Head(todo)
           O == Ops(Rest)
<1>1. IsStack(todo) /\ Typed(todo) /\ Flags /\ DataType BY DEF Control
<1>2. IsStack(Rest) /\ todo = Push(h, Rest)
      BY <1>1, TofTriangleChangedEndEffect
<1>3. NestFit(h, O) /\ Nested(Rest) /\ TypedCall(h) /\ Typed(Rest)
      /\ Ops(todo) = {h.op} \cup O
  BY <1>2, HeadFacts
<1>4. IsStack(todo') BY <1>1, <1>2, TofTriangleChangedEndEffect, StackPush
<1>5. Nested(todo')
  BY <1>1, <1>2, <1>3, TofTriangleChangedEndEffect, NestedPush, PushOps,
    StackPush, Calling
     DEF NestFit, Flags, RealOps, TofOps, LoadOps, TasOps, Lifts, TofLifts
<1>6. Typed(todo')
  BY <1>1, <1>2, <1>3, TofTriangleChangedEndEffect, TypedPush, StackPush,
    Calling DEF TypedCall, Arg
<1>7. Flags'
  <2>1. h.op = "TofTriangleChangedEnd" BY <1>1, TofTriangleChangedEndEffect
  <2>2. "TofTriangleChangedEnd" \notin O /\ "LoadEnd" \notin O
    BY <1>3, <2>1 DEF NestFit, RealOps, TofOps, LoadOps, TasOps
  <2>3. dont' = [dont EXCEPT !.tof = FALSE]
        /\ UNCHANGED <<busy, ready>>
    BY <1>1, TofTriangleChangedEndEffect
  <2>4. \A m : m # "TofTriangleChangedEnd" /\ m # "RealEmitAllParams"
        => (m \in Ops(todo') <=> m \in Ops(todo))
    BY <1>1, <1>2, <1>3, <2>1, TofTriangleChangedEndEffect, PushOps, Calling
  <2>5. "TofTriangleChangedEnd" \notin Ops(todo')
    BY <1>1, <1>2, <2>2, TofTriangleChangedEndEffect, PushOps, Calling
  <2>6. "LoadEnd" \in Ops(todo') <=> "LoadEnd" \in Ops(todo) BY <2>4
  <2>7. dont' \in [recip : BOOLEAN, real : BOOLEAN, tof : BOOLEAN]
        /\ ~dont'.tof /\ dont'.recip = dont.recip /\ dont'.real = dont.real
    BY <1>1, <2>3 DEF Flags
  <2> HIDE DEF O
  <2>8. "LoadEnd" \notin O => "LoadEnd" \notin Ops(todo') BY <1>3, <2>1, <2>6
  <2> QED BY <1>1, <2>2, <2>3, <2>4, <2>5, <2>6, <2>7, <2>8 DEF Flags
<1>8. DataType' BY <1>1, TofTriangleChangedEndEffect DEF DataType
<1> QED BY <1>4, <1>5, <1>6, <1>7, <1>8 DEF Control

LEMMA TofAngleKiQControl ==
  ASSUME Control, TofAngleKiQ PROVE Control'
<1> DEFINE h == Head(todo)
           O == Ops(Rest)
<1>1. IsStack(todo) /\ Typed(todo) /\ Flags /\ DataType BY DEF Control
<1>2. IsStack(Rest) /\ todo = Push(h, Rest) BY <1>1, TofAngleKiQEffect
<1>3. NestFit(h, O) /\ Nested(Rest) /\ TypedCall(h) /\ Typed(Rest)
      /\ Ops(todo) = {h.op} \cup O
  BY <1>2, HeadFacts
<1>4. IsStack(todo') BY <1>1, <1>2, TofAngleKiQEffect, StackPush
<1>5. Nested(todo')
  BY <1>1, <1>2, <1>3, TofAngleKiQEffect, NestedPush, PushOps, StackPush,
    Calling
     DEF NestFit, Flags, RealOps, TofOps, LoadOps, TasOps, Lifts, TofLifts
<1>6. Typed(todo')
  BY <1>1, <1>2, <1>3, TofAngleKiQEffect, TypedPush, StackPush, Calling
    DEF TypedCall, Arg
<1>7. Flags'
  BY <1>1, <1>2, <1>3, TofAngleKiQEffect, PushOps, StackPush, Calling
     DEF NestFit, Flags, RealOps, TofOps, LoadOps, TasOps
<1>8. DataType' BY <1>1, TofAngleKiQEffect DEF DataType
<1> QED BY <1>4, <1>5, <1>6, <1>7, <1>8 DEF Control

LEMMA TofMovedControl ==
  ASSUME Control, TofMoved PROVE Control'
<1> DEFINE h == Head(todo)
           O == Ops(Rest)
           e == CallOf("TofMovedEnd")
<1>1. IsStack(todo) /\ Typed(todo) /\ Flags /\ DataType BY DEF Control
<1>2. /\ IsStack(Rest) /\ todo = Push(h, Rest) /\ Arg = h.arg
      /\ h.op = "TofMoved"
  BY <1>1, TofMovedEffect DEF Arg
<1>3. NestFit(h, O) /\ Nested(Rest) /\ TypedCall(h) /\ Typed(Rest)
      /\ Ops(todo) = {h.op} \cup O
  BY <1>2, HeadFacts
<1>4. DataType' BY <1>1, TofMovedEffect DEF DataType
<1>5. CASE busy.tof
  <2>1. busy' = busy /\ todo' = Rest /\ UNCHANGED <<ready, dont>>
    BY <1>1, <1>5, TofMovedEffect
  <2>2. Flags' BY <1>1, <1>2, <1>3, <2>1 DEF Flags
  <2> QED BY <1>2, <1>3, <1>4, <2>1, <2>2 DEF Control
<1>6. CASE ~busy.tof
  <2> DEFINE p == Push(e, Rest)
             f == CallWith("TofEmit", Only("tt", tof.tt))
  <2>1. /\ busy' = [busy EXCEPT !.tof = TRUE]
        /\ todo' = IF Arg \in {"sample", "det"} THEN Push(f, p) ELSE p
    BY <1>1, <1>6, TofMovedEffect
  <2>2. e.op = "TofMovedEnd" BY Calling
  <2>3. f.op = "TofEmit" /\ f.arg = Only("tt", tof.tt) BY Calling
  <2> HIDE DEF e, f
  <2>4. "LoadEnd" \notin O /\ "TofMovedEnd" \notin O
        /\ "RealTriangleChangedEnd" \notin O
    BY <1>1, <1>2, <1>3, <1>6 DEF Flags, NestFit, LoadOps, RealOps
  <2>5. NestFit(e, O)
    BY <1>2, <1>3, <2>2, <2>4
       DEF NestFit, RealOps, TofOps, LoadOps, TasOps, Lifts, TofLifts
  <2>6. /\ IsStack(p) /\ Nested(p) /\ Typed(p)
             /\ Ops(p) = {"TofMovedEnd"} \cup O
    <3>1. TypedCall(e) BY <2>2 DEF TypedCall
    <3> QED BY <1>2, <1>3, <2>2, <2>5, <3>1, StackPush, NestedPush, TypedPush,
        PushOps
  <2> HIDE DEF p
  <2>7. UNCHANGED <<ready, dont>> BY <1>1, TofMovedEffect
  <2>8. CASE todo' = p
    <3>1. Flags'
      BY <1>1, <1>2, <1>3, <2>1, <2>6, <2>7, <2>8 DEF Flags
    <3> QED BY <1>4, <2>6, <2>8, <3>1 DEF Control
  <2>9. CASE todo' = Push(f, p) /\ Arg \in {"sample", "det"}
    <3>1. tof.tt \in Turns BY <1>1 DEF DataType
    <3>2. TypedCall(f)
      <4>1. DOMAIN f.arg = {"tt"} /\ f.arg["tt"] = tof.tt BY <2>3, OnlyIs
      <4> QED BY <2>3, <3>1, <4>1
             DEF TypedCall, AngleNames, Angles, AngleValues, Crystals
    <3>3. "TasChangedEnd" \notin O
      BY <1>2, <1>3, <2>9 DEF NestFit, TofLifts
    <3>4. NestFit(f, Ops(p))
      BY <2>3, <2>4, <2>6, <3>3
         DEF NestFit, RealOps, TofOps, LoadOps, TasOps
    <3>a. IsStack(todo') BY <2>6, <2>9, StackPush
    <3>b. Nested(todo') BY <2>6, <2>9, <3>4, NestedPush
    <3>c. Typed(todo') BY <2>6, <2>9, <3>2, TypedPush
    <3>d. Ops(todo') = {f.op} \cup Ops(p) BY <2>6, <2>9, PushOps
    <3>e. Ops(todo') = {"TofEmit", "TofMovedEnd"} \cup O
      BY <2>3, <2>6, <3>d
    <3>5. IsStack(todo') /\ Nested(todo') /\ Typed(todo')
          /\ Ops(todo') = {"TofEmit", "TofMovedEnd"} \cup O
      BY <3>a, <3>b, <3>c, <3>e
    <3>6. Flags'
      BY <1>1, <1>2, <1>3, <2>1, <2>7, <3>5 DEF Flags
    <3> QED BY <1>4, <3>5, <3>6 DEF Control
  <2> QED BY <2>1, <2>8, <2>9
<1> QED BY <1>5, <1>6

LEMMA TofMovedEndControl ==
  ASSUME Control, TofMovedEnd PROVE Control'
<1> DEFINE h == Head(todo)
           O == Ops(Rest)
<1>1. IsStack(todo) /\ Typed(todo) /\ Flags /\ DataType BY DEF Control
<1>2. IsStack(Rest) /\ todo = Push(h, Rest) BY <1>1, TofMovedEndEffect
<1>3. NestFit(h, O) /\ Nested(Rest) /\ TypedCall(h) /\ Typed(Rest)
      /\ Ops(todo) = {h.op} \cup O
  BY <1>2, HeadFacts
<1>4. IsStack(todo') BY <1>1, <1>2, TofMovedEndEffect, StackPush
<1>5. Nested(todo')
  BY <1>1, <1>2, <1>3, TofMovedEndEffect, NestedPush, PushOps, StackPush,
    Calling
     DEF NestFit, Flags, RealOps, TofOps, LoadOps, TasOps, Lifts, TofLifts
<1>6. Typed(todo')
  BY <1>1, <1>2, <1>3, TofMovedEndEffect, TypedPush, StackPush, Calling
    DEF TypedCall, Arg
<1>7. Flags'
  <2>1. h.op = "TofMovedEnd" BY <1>1, TofMovedEndEffect
  <2>2. "TofMovedEnd" \notin O 
    BY <1>3, <2>1 DEF NestFit, RealOps, TofOps, LoadOps, TasOps
  <2>3. busy' = [busy EXCEPT !.tof = FALSE]
        /\ UNCHANGED <<dont, ready>>
    BY <1>1, TofMovedEndEffect
  <2>4. \A m : m # "TofMovedEnd" /\ m # "RealEmitAllParams"
        => (m \in Ops(todo') <=> m \in Ops(todo))
    BY <1>1, <1>2, <1>3, <2>1, TofMovedEndEffect, PushOps, Calling
  <2>5. "TofMovedEnd" \notin Ops(todo')
    BY <1>1, <1>2, <2>2, TofMovedEndEffect, PushOps, Calling
  <2>6. "LoadEnd" \in Ops(todo') <=> "LoadEnd" \in Ops(todo) BY <2>4
  <2>7. busy' \in [real : BOOLEAN, tof : BOOLEAN]
        /\ ~busy'.tof /\ busy'.real = busy.real
    BY <1>1, <2>3 DEF Flags
  <2> HIDE DEF O
  <2>8. "LoadEnd" \notin O => "LoadEnd" \notin Ops(todo') BY <1>3, <2>1, <2>6
  <2> QED BY <1>1, <2>2, <2>3, <2>4, <2>5, <2>6, <2>7, <2>8 DEF Flags
<1>8. DataType' BY <1>1, TofMovedEndEffect DEF DataType
<1> QED BY <1>4, <1>5, <1>6, <1>7, <1>8 DEF Control

LEMMA TofEmitControl ==
  ASSUME Control, TofEmit PROVE Control'
<1> DEFINE h == Head(todo)
           O == Ops(Rest)
<1>1. IsStack(todo) /\ Typed(todo) /\ Flags /\ DataType BY DEF Control
<1>2. IsStack(Rest) /\ todo = Push(h, Rest) BY <1>1, TofEmitEffect
<1>3. NestFit(h, O) /\ Nested(Rest) /\ TypedCall(h) /\ Typed(Rest)
      /\ Ops(todo) = {h.op} \cup O
  BY <1>2, HeadFacts
<1>4. IsStack(todo') BY <1>1, <1>2, TofEmitEffect, StackPush
<1>5. Nested(todo')
  BY <1>1, <1>2, <1>3, TofEmitEffect, NestedPush, PushOps, StackPush, Calling
     DEF NestFit, Flags, RealOps, TofOps, LoadOps, TasOps, Lifts, TofLifts
<1>6. Typed(todo')
  BY <1>1, <1>2, <1>3, TofEmitEffect, TypedPush, StackPush, Calling
    DEF TypedCall, Arg
<1>7. Flags'
  BY <1>1, <1>2, <1>3, TofEmitEffect, PushOps, StackPush, Calling
     DEF NestFit, Flags, RealOps, TofOps, LoadOps, TasOps
<1>8. DataType' BY <1>1, TofEmitEffect DEF DataType
<1> QED BY <1>4, <1>5, <1>6, <1>7, <1>8 DEF Control

LEMMA RecipDialogsControl ==
  ASSUME Control, RecipDialogs PROVE Control'
<1> DEFINE h == Head(todo)
           O == Ops(Rest)
<1>1. IsStack(todo) /\ Typed(todo) /\ Flags /\ DataType BY DEF Control
<1>2. IsStack(Rest) /\ todo = Push(h, Rest) BY <1>1, RecipDialogsEffect
<1>3. NestFit(h, O) /\ Nested(Rest) /\ TypedCall(h) /\ Typed(Rest)
      /\ Ops(todo) = {h.op} \cup O
  BY <1>2, HeadFacts
<1>4. IsStack(todo') BY <1>1, <1>2, RecipDialogsEffect, StackPush
<1>5. Nested(todo')
  BY <1>1, <1>2, <1>3, RecipDialogsEffect, NestedPush, PushOps, StackPush,
    Calling
     DEF NestFit, Flags, RealOps, TofOps, LoadOps, TasOps, Lifts, TofLifts
<1>6. Typed(todo')
  BY <1>1, <1>2, <1>3, RecipDialogsEffect, TypedPush, StackPush, Calling
    DEF TypedCall, Arg
<1>7. Flags'
  BY <1>1, <1>2, <1>3, RecipDialogsEffect, PushOps, StackPush, Calling
     DEF NestFit, Flags, RealOps, TofOps, LoadOps, TasOps
<1>8. DataType' BY <1>1, RecipDialogsEffect DEF DataType
<1> QED BY <1>4, <1>5, <1>6, <1>7, <1>8 DEF Control

LEMMA ResoRecipControl ==
  ASSUME Control, ResoRecip PROVE Control'
<1> DEFINE h == Head(todo)
           O == Ops(Rest)
<1>1. IsStack(todo) /\ Typed(todo) /\ Flags /\ DataType BY DEF Control
<1>2. IsStack(Rest) /\ todo = Push(h, Rest) BY <1>1, ResoRecipEffect
<1>3. NestFit(h, O) /\ Nested(Rest) /\ TypedCall(h) /\ Typed(Rest)
      /\ Ops(todo) = {h.op} \cup O
  BY <1>2, HeadFacts
<1>4. IsStack(todo') BY <1>1, <1>2, ResoRecipEffect, StackPush
<1>5. Nested(todo')
  BY <1>1, <1>2, <1>3, ResoRecipEffect, NestedPush, PushOps, StackPush, Calling
     DEF NestFit, Flags, RealOps, TofOps, LoadOps, TasOps, Lifts, TofLifts
<1>6. Typed(todo')
  BY <1>1, <1>2, <1>3, ResoRecipEffect, TypedPush, StackPush, Calling
    DEF TypedCall, Arg
<1>7. Flags'
  BY <1>1, <1>2, <1>3, ResoRecipEffect, PushOps, StackPush, Calling
     DEF NestFit, Flags, RealOps, TofOps, LoadOps, TasOps
<1>8. DataType' BY <1>1, ResoRecipEffect DEF DataType
<1> QED BY <1>4, <1>5, <1>6, <1>7, <1>8 DEF Control

LEMMA ResoRealControl ==
  ASSUME Control, ResoReal PROVE Control'
<1> DEFINE h == Head(todo)
           O == Ops(Rest)
<1>1. IsStack(todo) /\ Typed(todo) /\ Flags /\ DataType BY DEF Control
<1>2. IsStack(Rest) /\ todo = Push(h, Rest) BY <1>1, ResoRealEffect
<1>3. NestFit(h, O) /\ Nested(Rest) /\ TypedCall(h) /\ Typed(Rest)
      /\ Ops(todo) = {h.op} \cup O
  BY <1>2, HeadFacts
<1>4. IsStack(todo') BY <1>1, <1>2, ResoRealEffect, StackPush
<1>5. Nested(todo')
  BY <1>1, <1>2, <1>3, ResoRealEffect, NestedPush, PushOps, StackPush, Calling
     DEF NestFit, Flags, RealOps, TofOps, LoadOps, TasOps, Lifts, TofLifts
<1>6. Typed(todo')
  BY <1>1, <1>2, <1>3, ResoRealEffect, TypedPush, StackPush, Calling
    DEF TypedCall, Arg
<1>7. Flags'
  BY <1>1, <1>2, <1>3, ResoRealEffect, PushOps, StackPush, Calling
     DEF NestFit, Flags, RealOps, TofOps, LoadOps, TasOps
<1>8. DataType' BY <1>1, ResoRealEffect DEF DataType
<1> QED BY <1>4, <1>5, <1>6, <1>7, <1>8 DEF Control

LEMMA ResoParsControl ==
  ASSUME Control, ResoPars PROVE Control'
<1> DEFINE h == Head(todo)
           O == Ops(Rest)
<1>1. IsStack(todo) /\ Typed(todo) /\ Flags /\ DataType BY DEF Control
<1>2. IsStack(Rest) /\ todo = Push(h, Rest) BY <1>1, ResoParsEffect
<1>3. NestFit(h, O) /\ Nested(Rest) /\ TypedCall(h) /\ Typed(Rest)
      /\ Ops(todo) = {h.op} \cup O
  BY <1>2, HeadFacts
<1>4. IsStack(todo') BY <1>1, <1>2, ResoParsEffect, StackPush
<1>5. Nested(todo')
  BY <1>1, <1>2, <1>3, ResoParsEffect, NestedPush, PushOps, StackPush, Calling
     DEF NestFit, Flags, RealOps, TofOps, LoadOps, TasOps, Lifts, TofLifts
<1>6. Typed(todo')
  BY <1>1, <1>2, <1>3, ResoParsEffect, TypedPush, StackPush, Calling
    DEF TypedCall, Arg
<1>7. Flags'
  BY <1>1, <1>2, <1>3, ResoParsEffect, PushOps, StackPush, Calling
     DEF NestFit, Flags, RealOps, TofOps, LoadOps, TasOps
<1>8. DataType' BY <1>1, ResoParsEffect DEF DataType
<1> QED BY <1>4, <1>5, <1>6, <1>7, <1>8 DEF Control

LEMMA ResoSenseControl ==
  ASSUME Control, ResoSense PROVE Control'
<1> DEFINE h == Head(todo)
           O == Ops(Rest)
<1>1. IsStack(todo) /\ Typed(todo) /\ Flags /\ DataType BY DEF Control
<1>2. IsStack(Rest) /\ todo = Push(h, Rest) BY <1>1, ResoSenseEffect
<1>3. NestFit(h, O) /\ Nested(Rest) /\ TypedCall(h) /\ Typed(Rest)
      /\ Ops(todo) = {h.op} \cup O
  BY <1>2, HeadFacts
<1>4. IsStack(todo') BY <1>1, <1>2, ResoSenseEffect, StackPush
<1>5. Nested(todo')
  BY <1>1, <1>2, <1>3, ResoSenseEffect, NestedPush, PushOps, StackPush, Calling
     DEF NestFit, Flags, RealOps, TofOps, LoadOps, TasOps, Lifts, TofLifts
<1>6. Typed(todo')
  BY <1>1, <1>2, <1>3, ResoSenseEffect, TypedPush, StackPush, Calling
    DEF TypedCall, Arg
<1>7. Flags'
  BY <1>1, <1>2, <1>3, ResoSenseEffect, PushOps, StackPush, Calling
     DEF NestFit, Flags, RealOps, TofOps, LoadOps, TasOps
<1>8. DataType' BY <1>1, ResoSenseEffect DEF DataType
<1> QED BY <1>4, <1>5, <1>6, <1>7, <1>8 DEF Control

LEMMA ResoLoadControl ==
  ASSUME Control, ResoLoad PROVE Control'
<1> DEFINE h == Head(todo)
           O == Ops(Rest)
<1>1. IsStack(todo) /\ Typed(todo) /\ Flags /\ DataType BY DEF Control
<1>2. IsStack(Rest) /\ todo = Push(h, Rest) BY <1>1, ResoLoadEffect
<1>3. NestFit(h, O) /\ Nested(Rest) /\ TypedCall(h) /\ Typed(Rest)
      /\ Ops(todo) = {h.op} \cup O
  BY <1>2, HeadFacts
<1>4. IsStack(todo') BY <1>1, <1>2, ResoLoadEffect, StackPush
<1>5. Nested(todo')
  BY <1>1, <1>2, <1>3, ResoLoadEffect, NestedPush, PushOps, StackPush, Calling
     DEF NestFit, Flags, RealOps, TofOps, LoadOps, TasOps, Lifts, TofLifts
<1>6. Typed(todo')
  BY <1>1, <1>2, <1>3, ResoLoadEffect, TypedPush, StackPush, Calling
    DEF TypedCall, Arg
<1>7. Flags'
  BY <1>1, <1>2, <1>3, ResoLoadEffect, PushOps, StackPush, Calling
     DEF NestFit, Flags, RealOps, TofOps, LoadOps, TasOps
<1>8. DataType' BY <1>1, ResoLoadEffect DEF DataType
<1> QED BY <1>4, <1>5, <1>6, <1>7, <1>8 DEF Control

LEMMA ResoUpdateOnControl ==
  ASSUME Control, ResoUpdateOn PROVE Control'
<1> DEFINE h == Head(todo)
           O == Ops(Rest)
<1>1. IsStack(todo) /\ Typed(todo) /\ Flags /\ DataType BY DEF Control
<1>2. IsStack(Rest) /\ todo = Push(h, Rest) BY <1>1, ResoUpdateOnEffect
<1>3. NestFit(h, O) /\ Nested(Rest) /\ TypedCall(h) /\ Typed(Rest)
      /\ Ops(todo) = {h.op} \cup O
  BY <1>2, HeadFacts
<1>4. IsStack(todo') BY <1>1, <1>2, ResoUpdateOnEffect, StackPush
<1>5. Nested(todo')
  BY <1>1, <1>2, <1>3, ResoUpdateOnEffect, NestedPush, PushOps, StackPush,
    Calling
     DEF NestFit, Flags, RealOps, TofOps, LoadOps, TasOps, Lifts, TofLifts
<1>6. Typed(todo')
  BY <1>1, <1>2, <1>3, ResoUpdateOnEffect, TypedPush, StackPush, Calling
    DEF TypedCall, Arg
<1>7. Flags'
  BY <1>1, <1>2, <1>3, ResoUpdateOnEffect, PushOps, StackPush, Calling
     DEF NestFit, Flags, RealOps, TofOps, LoadOps, TasOps
<1>8. DataType' BY <1>1, ResoUpdateOnEffect DEF DataType
<1> QED BY <1>4, <1>5, <1>6, <1>7, <1>8 DEF Control

LEMMA UpdateDsControl ==
  ASSUME Control, UpdateDs PROVE Control'
<1> DEFINE h == Head(todo)
           O == Ops(Rest)
<1>1. IsStack(todo) /\ Typed(todo) /\ Flags /\ DataType BY DEF Control
<1>2. IsStack(Rest) /\ todo = Push(h, Rest) BY <1>1, UpdateDsEffect
<1>3. NestFit(h, O) /\ Nested(Rest) /\ TypedCall(h) /\ Typed(Rest)
      /\ Ops(todo) = {h.op} \cup O
  BY <1>2, HeadFacts
<1>4. IsStack(todo') BY <1>1, <1>2, UpdateDsEffect, StackPush
<1>5. Nested(todo')
  BY <1>1, <1>2, <1>3, UpdateDsEffect, NestedPush, PushOps, StackPush, Calling
     DEF NestFit, Flags, RealOps, TofOps, LoadOps, TasOps, Lifts, TofLifts
<1>6. Typed(todo')
  BY <1>1, <1>2, <1>3, UpdateDsEffect, TypedPush, StackPush, Calling
    DEF TypedCall, Arg
<1>7. Flags'
  BY <1>1, <1>2, <1>3, UpdateDsEffect, PushOps, StackPush, Calling
     DEF NestFit, Flags, RealOps, TofOps, LoadOps, TasOps
<1>8. DataType' BY <1>1, UpdateDsEffect DEF DataType
<1> QED BY <1>4, <1>5, <1>6, <1>7, <1>8 DEF Control

LEMMA CalcPeaksControl ==
  ASSUME Control, CalcPeaks PROVE Control'
<1> DEFINE h == Head(todo)
           O == Ops(Rest)
<1>1. IsStack(todo) /\ Typed(todo) /\ Flags /\ DataType BY DEF Control
<1>2. IsStack(Rest) /\ todo = Push(h, Rest) BY <1>1, CalcPeaksEffect
<1>3. NestFit(h, O) /\ Nested(Rest) /\ TypedCall(h) /\ Typed(Rest)
      /\ Ops(todo) = {h.op} \cup O
  BY <1>2, HeadFacts
<1>4. IsStack(todo') BY <1>1, <1>2, CalcPeaksEffect, StackPush
<1>5. Nested(todo')
  BY <1>1, <1>2, <1>3, CalcPeaksEffect, NestedPush, PushOps, StackPush, Calling
     DEF NestFit, Flags, RealOps, TofOps, LoadOps, TasOps, Lifts, TofLifts
<1>6. Typed(todo')
  BY <1>1, <1>2, <1>3, CalcPeaksEffect, TypedPush, StackPush, Calling
    DEF TypedCall, Arg
<1>7. Flags'
  BY <1>1, <1>2, <1>3, CalcPeaksEffect, PushOps, StackPush, Calling
     DEF NestFit, Flags, RealOps, TofOps, LoadOps, TasOps
<1>8. DataType' BY <1>1, CalcPeaksEffect DEF DataType
<1> QED BY <1>4, <1>5, <1>6, <1>7, <1>8 DEF Control

LEMMA SnapToPeakControl ==
  ASSUME Control, SnapToPeak PROVE Control'
<1> DEFINE h == Head(todo)
           O == Ops(Rest)
<1>1. IsStack(todo) /\ Typed(todo) /\ Flags /\ DataType BY DEF Control
<1>2. IsStack(Rest) /\ todo = Push(h, Rest) BY <1>1, SnapToPeakEffect
<1>3. NestFit(h, O) /\ Nested(Rest) /\ TypedCall(h) /\ Typed(Rest)
      /\ Ops(todo) = {h.op} \cup O
  BY <1>2, HeadFacts
<1>4. IsStack(todo') BY <1>1, <1>2, SnapToPeakEffect, StackPush
<1>5. Nested(todo')
  BY <1>1, <1>2, <1>3, SnapToPeakEffect, NestedPush, PushOps, StackPush, Calling
     DEF NestFit, Flags, RealOps, TofOps, LoadOps, TasOps, Lifts, TofLifts
<1>6. Typed(todo')
  BY <1>1, <1>2, <1>3, SnapToPeakEffect, TypedPush, StackPush, Calling
    DEF TypedCall, Arg
<1>7. Flags'
  BY <1>1, <1>2, <1>3, SnapToPeakEffect, PushOps, StackPush, Calling
     DEF NestFit, Flags, RealOps, TofOps, LoadOps, TasOps
<1>8. DataType' BY <1>1, SnapToPeakEffect DEF DataType
<1> QED BY <1>4, <1>5, <1>6, <1>7, <1>8 DEF Control

LEMMA LoadEndControl ==
  ASSUME Control, LoadEnd PROVE Control'
<1> DEFINE h == Head(todo)
           O == Ops(Rest)
<1>1. IsStack(todo) /\ Typed(todo) /\ Flags /\ DataType BY DEF Control
<1>2. IsStack(Rest) /\ todo = Push(h, Rest) BY <1>1, LoadEndEffect
<1>3. NestFit(h, O) /\ Nested(Rest) /\ TypedCall(h) /\ Typed(Rest)
      /\ Ops(todo) = {h.op} \cup O
  BY <1>2, HeadFacts
<1>4. IsStack(todo') BY <1>1, <1>2, LoadEndEffect, StackPush
<1>5. Nested(todo')
  BY <1>1, <1>2, <1>3, LoadEndEffect, NestedPush, PushOps, StackPush, Calling
     DEF NestFit, Flags, RealOps, TofOps, LoadOps, TasOps, Lifts, TofLifts
<1>6. Typed(todo')
  BY <1>1, <1>2, <1>3, LoadEndEffect, TypedPush, StackPush, Calling
    DEF TypedCall, Arg
<1>7. Flags'
  <2>1. h.op = "LoadEnd" /\ O = {} BY <1>1, <1>3, LoadEndEffect DEF NestFit
  <2> DEFINE q == IF reso.open THEN Push(CallOf("ResoUpdateOn"),
      Push(CallOf("EmitAllParams"), Rest)) ELSE Rest
  <2>2. IsStack(q) /\ Ops(q) \subseteq {"ResoUpdateOn", "EmitAllParams"}
    <3>1. IsStack(Push(CallOf("EmitAllParams"), Rest)) BY <1>2, StackPush
    <3>2. Ops(Push(CallOf("EmitAllParams"), Rest)) = {"EmitAllParams"}
      BY <1>2, <2>1, PushOps, Calling
    <3>3. IsStack(Push(CallOf("ResoUpdateOn"), Push(CallOf("EmitAllParams"),
          Rest))) BY <3>1, StackPush
    <3>4. Ops(Push(CallOf("ResoUpdateOn"), Push(CallOf("EmitAllParams"),
          Rest))) = {"ResoUpdateOn", "EmitAllParams"}
      BY <3>1, <3>2, PushOps, Calling
    <3> QED BY <1>2, <2>1, <3>3, <3>4
  <2>3. todo' = Push(CallOf("CalcPeaks"), Push(CallOf("EmitUpdate"), q))
        BY <1>1, LoadEndEffect
  <2> HIDE DEF q
  <2>4. Ops(todo') \subseteq {"ResoUpdateOn", "EmitAllParams", "CalcPeaks",
        "EmitUpdate"}
    BY <2>2, <2>3, PushOps, StackPush, Calling
  <2>5. ready' = [tri |-> TRUE, real |-> TRUE] /\ busy' = busy
        /\ dont' = [dont EXCEPT !.recip = FALSE, !.real = FALSE]
    BY <1>1, LoadEndEffect
  <2>6. Ops(todo) = {"LoadEnd"} BY <1>3, <2>1
  <2>7. /\ ~dont'.recip /\ ~dont'.real /\ dont'.tof = dont.tof
        /\ dont' \in [recip : BOOLEAN, real : BOOLEAN, tof : BOOLEAN]
    BY <1>1, <2>5 DEF Flags
  <2> HIDE DEF O
  <2> QED BY <1>1, <2>4, <2>5, <2>6, <2>7 DEF Flags
<1>8. DataType' BY <1>1, LoadEndEffect DEF DataType
<1> QED BY <1>4, <1>5, <1>6, <1>7, <1>8 DEF Control

LEMMA SetControl ==
  ASSUME Control, Set PROVE Control'
<1> DEFINE h == Head(todo)
           O == Ops(Rest)
<1>1. IsStack(todo) /\ Typed(todo) /\ Flags /\ DataType BY DEF Control
<1>2. IsStack(Rest) /\ todo = Push(h, Rest) BY <1>1, SetEffect
<1>3. NestFit(h, O) /\ Nested(Rest) /\ TypedCall(h) /\ Typed(Rest)
      /\ Ops(todo) = {h.op} \cup O
  BY <1>2, HeadFacts
<1>4. IsStack(todo') BY <1>1, <1>2, SetEffect, StackPush
<1>5. Nested(todo')
  BY <1>1, <1>2, <1>3, SetEffect, NestedPush, PushOps, StackPush, Calling
     DEF NestFit, Flags, RealOps, TofOps, LoadOps, TasOps, Lifts, TofLifts
<1>6. Typed(todo')
  BY <1>1, <1>2, <1>3, SetEffect, TypedPush, StackPush, Calling DEF TypedCall,
    Arg
<1>7. Flags'
  BY <1>1, <1>2, <1>3, SetEffect, PushOps, StackPush, Calling
     DEF NestFit, Flags, RealOps, TofOps, LoadOps, TasOps
<1>8. DataType'
  <2>1. PICK x \in AngleNames \ {"th"}, v \in SignedAngles \cup Turns :
          v \in AngleValues(x) /\ tri' = SetTri(x, v)
    BY <1>1, SetEffect
  <2>2. /\ x \in Crystals => v \in SignedAngles
        /\ x \notin Crystals => v \in Turns
    BY <2>1 DEF AngleValues
  <2>3. ds.mono \in Spacings /\ ds.ana \in Spacings /\ sense.sample \in BOOLEAN
        /\ tri \in [ki : Waves, kf : Waves, tt : Turns, th : Turns]
    BY <1>1 DEF DataType
  <2>4. x \in Crystals => /\ Wavenumber(Abs(v), ds.mono) \in Waves
                          /\ Wavenumber(Abs(v), ds.ana) \in Waves
    BY <2>2, <2>3, AbsType, WavenumberOf
  <2>5. x \notin Crystals => Turn(v, sense.sample) \in Turns
        /\ Turn(v, FALSE) \in Turns
    BY <2>2, <2>3, TurnTwice
  <2>6. tri' \in [ki : Waves, kf : Waves, tt : Turns, th : Turns]
    <3>1. CASE x = "mono"
      <4>1. tri' = [tri EXCEPT !.ki = Wavenumber(Abs(v), ds.mono)]
            BY <2>1, <3>1 DEF SetTri
      <4> QED BY <2>3, <2>4, <3>1, <4>1 DEF Crystals
    <3>2. CASE x = "ana"
      <4>1. tri' = [tri EXCEPT !.kf = Wavenumber(Abs(v), ds.ana)]
            BY <2>1, <3>2 DEF SetTri
      <4> QED BY <2>3, <2>4, <3>2, <4>1 DEF Crystals
    <3>3. CASE x = "tt"
      <4>1. tri' = [tri EXCEPT !.tt = Turn(v, sense.sample)]
            BY <2>1, <3>3 DEF SetTri
      <4> QED BY <2>3, <2>5, <3>3, <4>1 DEF Crystals
    <3>4. CASE x = "kivec"
      <4>1. tri' = [tri EXCEPT !.th = Turn(v, FALSE)] BY <2>1, <3>4 DEF SetTri
      <4> QED BY <2>3, <2>5, <3>4, <4>1 DEF Crystals
    <3> QED BY <3>1, <3>2, <3>3, <3>4 DEF AngleNames, Angles
  <2> QED BY <1>1, SetEffect, <2>6 DEF DataType
<1> QED BY <1>4, <1>5, <1>6, <1>7, <1>8 DEF Control

LEMMA RealSetControl ==
  ASSUME Control, RealSet PROVE Control'
<1> DEFINE h == Head(todo)
           O == Ops(Rest)
<1>1. IsStack(todo) /\ Typed(todo) /\ Flags /\ DataType BY DEF Control
<1>2. IsStack(Rest) /\ todo = Push(h, Rest) BY <1>1, RealSetEffect
<1>3. NestFit(h, O) /\ Nested(Rest) /\ TypedCall(h) /\ Typed(Rest)
      /\ Ops(todo) = {h.op} \cup O
  BY <1>2, HeadFacts
<1>4. IsStack(todo') BY <1>1, <1>2, RealSetEffect, StackPush
<1>5. Nested(todo')
  BY <1>1, <1>2, <1>3, RealSetEffect, NestedPush, PushOps, StackPush, Calling
     DEF NestFit, Flags, RealOps, TofOps, LoadOps, TasOps, Lifts, TofLifts
<1>6. Typed(todo')
  BY <1>1, <1>2, <1>3, RealSetEffect, TypedPush, StackPush, Calling
    DEF TypedCall, Arg
<1>7. Flags'
  BY <1>1, <1>2, <1>3, RealSetEffect, PushOps, StackPush, Calling
     DEF NestFit, Flags, RealOps, TofOps, LoadOps, TasOps
<1>8. DataType' BY <1>1, RealSetEffect DEF DataType
<1> QED BY <1>4, <1>5, <1>6, <1>7, <1>8 DEF Control

LEMMA TofSetControl ==
  ASSUME Control, TofSet PROVE Control'
<1> DEFINE h == Head(todo)
           O == Ops(Rest)
<1>1. IsStack(todo) /\ Typed(todo) /\ Flags /\ DataType BY DEF Control
<1>2. IsStack(Rest) /\ todo = Push(h, Rest) BY <1>1, TofSetEffect
<1>3. NestFit(h, O) /\ Nested(Rest) /\ TypedCall(h) /\ Typed(Rest)
      /\ Ops(todo) = {h.op} \cup O
  BY <1>2, HeadFacts
<1>4. IsStack(todo') BY <1>1, <1>2, TofSetEffect, StackPush
<1>5. Nested(todo')
  BY <1>1, <1>2, <1>3, TofSetEffect, NestedPush, PushOps, StackPush, Calling
     DEF NestFit, Flags, RealOps, TofOps, LoadOps, TasOps, Lifts, TofLifts
<1>6. Typed(todo')
  BY <1>1, <1>2, <1>3, TofSetEffect, TypedPush, StackPush, Calling
    DEF TypedCall, Arg
<1>7. Flags'
  BY <1>1, <1>2, <1>3, TofSetEffect, PushOps, StackPush, Calling
     DEF NestFit, Flags, RealOps, TofOps, LoadOps, TasOps
<1>8. DataType' BY <1>1, TofSetEffect DEF DataType
<1> QED BY <1>4, <1>5, <1>6, <1>7, <1>8 DEF Control

LEMMA SetSenseControl ==
  ASSUME Control, SetSense PROVE Control'
<1> DEFINE h == Head(todo)
           O == Ops(Rest)
<1>1. IsStack(todo) /\ Typed(todo) /\ Flags /\ DataType BY DEF Control
<1>2. IsStack(Rest) /\ todo = Push(h, Rest) BY <1>1, SetSenseEffect
<1>3. NestFit(h, O) /\ Nested(Rest) /\ TypedCall(h) /\ Typed(Rest)
      /\ Ops(todo) = {h.op} \cup O
  BY <1>2, HeadFacts
<1>4. IsStack(todo') BY <1>1, <1>2, SetSenseEffect, StackPush
<1>5. Nested(todo')
  BY <1>1, <1>2, <1>3, SetSenseEffect, NestedPush, PushOps, StackPush, Calling
     DEF NestFit, Flags, RealOps, TofOps, LoadOps, TasOps, Lifts, TofLifts
<1>6. Typed(todo')
  BY <1>1, <1>2, <1>3, SetSenseEffect, TypedPush, StackPush, Calling
    DEF TypedCall, Arg
<1>7. Flags'
  BY <1>1, <1>2, <1>3, SetSenseEffect, PushOps, StackPush, Calling
     DEF NestFit, Flags, RealOps, TofOps, LoadOps, TasOps
<1>8. DataType' BY <1>1, SetSenseEffect DEF DataType
<1> QED BY <1>4, <1>5, <1>6, <1>7, <1>8 DEF Control

\* Longer sequences of calls, and calls joined by five.
LEMMA Five ==
  \A f, g, h, k, l : <<f, g, h, k, l>> = Push(f,
    Push(g, Push(h, Push(k, Push(l, <<>>)))))
<1> SUFFICES ASSUME NEW f, NEW g, NEW h, NEW k, NEW l
             PROVE <<f, g, h, k, l>> = Push(f,
                    Push(g, Push(h, Push(k, Push(l, <<>>)))))
  OBVIOUS
<1>1. Push(g, Push(h, Push(k, Push(l, <<>>)))) = <<g, h, k, l>> BY Four
<1>2. Push(f, <<g, h, k, l>>) = <<f, g, h, k, l>>
  <2> DEFINE S == {f, g, h, k, l}
             a == <<f>>
             b == <<g, h, k, l>>
             c == <<f, g, h, k, l>>
  <2>1. a \in Seq(S) /\ b \in Seq(S) /\ c \in Seq(S) OBVIOUS
  <2>2. Len(a \o b) = 5 /\ Len(c) = 5 /\ \A i \in 1 .. 5 : (a \o b)[i] = c[i]
    OBVIOUS
  <2> HIDE DEF S, a, b, c
  <2>3. a \o b \in Seq(S) BY <2>1
  <2> DEFINE d == a \o b
  <2> HIDE DEF d
  <2>4. d \in Seq(S) /\ Len(d) = 5 /\ Len(c) = 5 /\ \A i \in 1 .. 5 : d[i]
        = c[i]
    BY <2>2, <2>3 DEF d
  <2>5. d = [i \in 1 .. 5 |-> d[i]] /\ c = [i \in 1 .. 5 |-> c[i]]
    BY <2>1, <2>4
  <2>6. d = c BY <2>4, <2>5
  <2> QED BY <2>6 DEF Push, a, b, c, d
<1> QED BY <1>1, <1>2

LEMMA Six ==
  \A f, g, h, k, l, m : <<f, g, h, k, l, m>> = Push(f,
    Push(g, Push(h, Push(k, Push(l, Push(m, <<>>))))))
<1> SUFFICES ASSUME NEW f, NEW g, NEW h, NEW k, NEW l, NEW m
             PROVE <<f, g, h, k, l, m>> = Push(f,
                    Push(g, Push(h, Push(k, Push(l, Push(m, <<>>))))))
  OBVIOUS
<1>1. Push(g, Push(h, Push(k, Push(l, Push(m, <<>>))))) = <<g, h, k, l, m>>
      BY Five
<1>2. Push(f, <<g, h, k, l, m>>) = <<f, g, h, k, l, m>>
  <2> DEFINE S == {f, g, h, k, l, m}
             a == <<f>>
             b == <<g, h, k, l, m>>
             c == <<f, g, h, k, l, m>>
  <2>1. a \in Seq(S) /\ b \in Seq(S) /\ c \in Seq(S) OBVIOUS
  <2>2. Len(a \o b) = 6 /\ Len(c) = 6 /\ \A i \in 1 .. 6 : (a \o b)[i] = c[i]
    OBVIOUS
  <2> HIDE DEF S, a, b, c
  <2>3. a \o b \in Seq(S) BY <2>1
  <2> DEFINE d == a \o b
  <2> HIDE DEF d
  <2>4. d \in Seq(S) /\ Len(d) = 6 /\ Len(c) = 6 /\ \A i \in 1 .. 6 : d[i]
        = c[i]
    BY <2>2, <2>3 DEF d
  <2>5. d = [i \in 1 .. 6 |-> d[i]] /\ c = [i \in 1 .. 6 |-> c[i]]
    BY <2>1, <2>4
  <2>6. d = c BY <2>4, <2>5
  <2> QED BY <2>6 DEF Push, a, b, c, d
<1> QED BY <1>1, <1>2

\* What a longer call pushes.
LEMMA UnfoldFive ==
  \A f, g, h, k, l, q : IsStack(q) =>
    <<f, g, h, k, l>> \o q = Push(f, Push(g, Push(h, Push(k, Push(l, q)))))
<1> SUFFICES ASSUME NEW f, NEW g, NEW h, NEW k, NEW l, NEW q, IsStack(q)
             PROVE <<f, g, h, k, l>> \o q
                   = Push(f, Push(g, Push(h, Push(k, Push(l, q)))))
  OBVIOUS
<1> DEFINE a == Push(g, Push(h, Push(k, Push(l, <<>>))))
           b == <<g, h, k, l>>
           c == <<f, g, h, k, l>>
<1>1. c = Push(f, a) /\ a = b BY Four, Five
<1>2. b \o q = Push(g, Push(h, Push(k, Push(l, q)))) BY Unfold
<1>3. IsStack(a) BY EmptyStack, StackPush
<1> HIDE DEF a, b, c
<1>4. Push(f, a) \o q = Push(f, a \o q) BY <1>3, JoinPush
<1> QED BY <1>1, <1>2, <1>4 DEF c

LEMMA UnfoldSix ==
  \A f, g, h, k, l, m, q : IsStack(q) =>
    <<f, g, h, k, l, m>> \o q
    = Push(f, Push(g, Push(h, Push(k, Push(l, Push(m, q))))))
<1> SUFFICES ASSUME NEW f, NEW g, NEW h, NEW k, NEW l, NEW m, NEW q, IsStack(q)
             PROVE <<f, g, h, k, l, m>> \o q
                   = Push(f, Push(g, Push(h, Push(k, Push(l, Push(m, q))))))
  OBVIOUS
<1> DEFINE a == Push(g, Push(h, Push(k, Push(l, Push(m, <<>>)))))
           b == <<g, h, k, l, m>>
           c == <<f, g, h, k, l, m>>
<1>1. c = Push(f, a) /\ a = b BY Five, Six
<1>2. b \o q = Push(g, Push(h, Push(k, Push(l, Push(m, q))))) BY UnfoldFive
<1>3. IsStack(a) BY EmptyStack, StackPush
<1> HIDE DEF a, b, c
<1>4. Push(f, a) \o q = Push(f, a \o q) BY <1>3, JoinPush
<1> QED BY <1>1, <1>2, <1>4 DEF c

Join5(a, b, c, d, e) == a \o b \o c \o d \o e
Chain5(a, b, c, d, e) == a \o (b \o (c \o (d \o e)))

LEMMA JoinFive ==
  \A a, b, c, d, e :
    IsStack(a) /\ IsStack(b) /\ IsStack(c) /\ IsStack(d) /\ IsStack(e) =>
    Join5(a, b, c, d, e) = Chain5(a, b, c, d, e)
<1> SUFFICES ASSUME NEW a, NEW b, NEW c, NEW d, NEW e,
                    IsStack(a), IsStack(b), IsStack(c), IsStack(d), IsStack(e)
             PROVE Join5(a, b, c, d, e) = Chain5(a, b, c, d, e)
  OBVIOUS

<1> DEFINE u == a \o b
           v == u \o c
           w == d \o e
           x == c \o w
<1>1. IsStack(u) BY JoinStack
<1>2. IsStack(w) BY JoinStack
<1> HIDE DEF u, w
<1>3. IsStack(v) BY <1>1, JoinStack
<1>4. IsStack(x) BY <1>2, JoinStack
<1> HIDE DEF v, x
<1>5. (v \o d) \o e = v \o (d \o e)
      BY ONLY <1>3, IsStack(d), IsStack(e), JoinAssoc
<1>6. (u \o c) \o w = u \o (c \o w) BY ONLY <1>1, <1>2, IsStack(c), JoinAssoc
<1>7. (a \o b) \o x = a \o (b \o x)
      BY ONLY <1>4, IsStack(a), IsStack(b), JoinAssoc
<1> USE DEF u, v, w, x
<1> QED BY <1>5, <1>6, <1>7 DEF Join5, Chain5

-----------------------------------------------------------------------------
(* Control holds in every event, and in the initial state.                 *)

\* Calls that are made by an event, and those that Load() makes.
Free(q) == IsStack(q) /\ Nested(q) /\ Typed(q) /\ Ops(q) \cap Markers = {}
Filed(q) ==
  /\ IsStack(q) /\ Nested(q) /\ Typed(q) /\ Fixed(q)
  /\ "LoadEnd" \in Ops(q) /\ Ops(q) \subseteq LoadOps \cup {"LoadEnd"}

LEMMA FreeEmpty == Free(<<>>)
<1>1. Nested(<<>>) /\ Typed(<<>>) BY EmptyStack DEF Nested, Typed
<1> QED BY <1>1, EmptyStack DEF Free

LEMMA FreePush ==
  \A f, q : Free(q) /\ f.op \notin Markers /\ TypedCall(f) => Free(Push(f, q))
<1> SUFFICES ASSUME NEW f, NEW q, Free(q), f.op \notin Markers, TypedCall(f)
             PROVE Free(Push(f, q))
  OBVIOUS
<1>1. IsStack(q) /\ Nested(q) /\ Typed(q) /\ Ops(q) \cap Markers = {}
      BY DEF Free
<1>2. NestFit(f, Ops(q)) BY <1>1 DEF NestFit, Markers
<1>3. IsStack(Push(f, q)) BY <1>1, StackPush
<1>4. Nested(Push(f, q)) BY <1>1, <1>2, NestedPush
<1>5. Typed(Push(f, q)) BY <1>1, TypedPush
<1>6. Ops(Push(f, q)) = {f.op} \cup Ops(q) BY <1>1, PushOps
<1> QED BY <1>1, <1>3, <1>4, <1>5, <1>6 DEF Free

LEMMA FiledPush ==
  \A f, q : Filed(q) /\ f.op \in LoadOps /\ TypedCall(f) => Filed(Push(f, q))
<1> SUFFICES ASSUME NEW f, NEW q, Filed(q), f.op \in LoadOps, TypedCall(f)
             PROVE Filed(Push(f, q))
  OBVIOUS
<1>1. /\ IsStack(q) /\ Nested(q) /\ Typed(q) /\ Fixed(q)
      /\ "LoadEnd" \in Ops(q) /\ Ops(q) \subseteq LoadOps \cup {"LoadEnd"}
  BY DEF Filed
<1>2. NestFit(f, Ops(q)) BY <1>1 DEF NestFit, LoadOps
<1>3. IsStack(Push(f, q)) BY <1>1, StackPush
<1>4. Nested(Push(f, q)) BY <1>1, <1>2, NestedPush
<1>5. Typed(Push(f, q)) BY <1>1, TypedPush
<1>6. Ops(Push(f, q)) = {f.op} \cup Ops(q) BY <1>1, PushOps
<1>7. Fixed(Push(f, q)) BY <1>1, FixedPush
<1> QED BY <1>1, <1>3, <1>4, <1>5, <1>6, <1>7 DEF Filed

LEMMA FiledEnd == Filed(Push(CallOf("LoadEnd"), <<>>))
<1> DEFINE f == CallOf("LoadEnd")
           p == Push(f, <<>>)
<1>1. f.op = "LoadEnd" BY Calling
<1>2. Free(<<>>) BY FreeEmpty
<1>3. NestFit(f, Ops(<<>>)) BY <1>1, EmptyStack DEF NestFit
<1>4. TypedCall(f) BY <1>1 DEF TypedCall
<1> HIDE DEF f
<1>5. IsStack(p) BY <1>2, StackPush DEF Free
<1>6. Nested(p) BY <1>2, <1>3, NestedPush DEF Free
<1>7. Typed(p) BY <1>2, <1>4, TypedPush DEF Free
<1>8. Ops(p) = {f.op} \cup Ops(<<>>) BY <1>2, PushOps DEF Free
<1>9. Fixed(p) BY <1>1, <1>2, EmptyStack, FixedPush DEF Free, Fixers
<1> QED BY <1>1, <1>5, <1>6, <1>7, <1>8, <1>9, EmptyStack DEF Filed, f

\* The calls of the main window carry what they need.
LEMMA PlainCalls ==
  /\ \A o : o \notin {"RealTriangleChanged", "TofTriangleChanged",
       "TasChanged",
                      "RealEmit", "TofEmit", "Set", "RealSet", "TofSet",
                      "SetSense"} =>
       TypedCall(CallOf(o)) /\ \A a : TypedCall(CallWith(o, a))
  /\ \A x \in {"mono", "sample", "ana"}, b \in BOOLEAN :
       TypedCall(CallWith("SetSense", Only(x, b)))
BY Calling DEF TypedCall

\* InitReso() on top of other calls.
InitPush(q) ==
  Push(CallOf("UpdateDs"),
  Push(CallWith("SetSense", Only("mono", sense.mono)),
  Push(CallWith("SetSense", Only("sample", sense.sample)),
  Push(CallWith("SetSense", Only("ana", sense.ana)),
  Push(CallOf("EmitAllParams"), Push(CallOf("RealEmitAllParams"), q))))))

LEMMA InitResoIs ==
  ASSUME DataType, NEW q, IsStack(q)
  PROVE /\ InitReso \o q = InitPush(q)
        /\ Free(q) => Free(InitPush(q)) 
        /\ Free(q) /\ Ops(q) = {} => Fixed(InitPush(q))
        /\ Filed(q) => Filed(InitPush(q))
<1>1. InitReso \o q = InitPush(q) BY UnfoldSix DEF InitReso, InitPush
<1> DEFINE u == CallOf("UpdateDs")
           a == CallWith("SetSense", Only("mono", sense.mono))
           b == CallWith("SetSense", Only("sample", sense.sample))
           c == CallWith("SetSense", Only("ana", sense.ana))
           d == CallOf("EmitAllParams")
           e == CallOf("RealEmitAllParams")
<1>2. /\ u.op = "UpdateDs" /\ a.op = "SetSense" /\ b.op = "SetSense"
      /\ c.op = "SetSense" /\ d.op = "EmitAllParams"
           /\ e.op = "RealEmitAllParams"
  BY Calling
<1>3. sense.mono \in BOOLEAN /\ sense.sample \in BOOLEAN
      /\ sense.ana \in BOOLEAN
  BY DEF DataType
<1>4. /\ TypedCall(u) /\ TypedCall(d) /\ TypedCall(e)
  BY PlainCalls
<1>5. TypedCall(a) /\ TypedCall(b) /\ TypedCall(c)
  BY <1>3, PlainCalls
<1> HIDE DEF u, a, b, c, d, e
<1> DEFINE p == Push(c, Push(d, Push(e, q)))
<1>6. InitPush(q) = Push(u, Push(a, Push(b, p)))
      BY DEF InitPush, p, u, a, b, c, d, e
<1>7. ASSUME Free(q) PROVE Free(Push(u, Push(a, Push(b, p))))
  <2>1. Free(Push(d, Push(e, q))) BY <1>2, <1>4, <1>7, FreePush DEF Markers
  <2>2. Free(Push(b, p)) BY <1>2, <1>5, <2>1, FreePush DEF Markers
  <2> HIDE DEF p
  <2> QED BY <1>2, <1>4, <1>5, <2>2, FreePush DEF Markers
<1>8. ASSUME Filed(q) PROVE Filed(Push(u, Push(a, Push(b, p))))
  <2>1. Filed(Push(d, Push(e, q))) BY <1>2, <1>4, <1>8, FiledPush DEF LoadOps
  <2>2. Filed(Push(b, p)) BY <1>2, <1>5, <2>1, FiledPush DEF LoadOps
  <2> HIDE DEF p
  <2> QED BY <1>2, <1>4, <1>5, <2>2, FiledPush DEF LoadOps
<1>9. ASSUME Ops(q) = {} PROVE Fixed(Push(u, Push(a, Push(b, p))))
  <2> DEFINE r == Push(d, Push(e, q))
  <2>1. IsStack(Push(e, q)) /\ IsStack(r) BY StackPush
  <2>2. Ops(r) = {"EmitAllParams", "RealEmitAllParams"}
    BY <1>2, <1>9, <2>1, PushOps
  <2> HIDE DEF r
  <2>3. Fixed(Push(c, r)) /\ IsStack(Push(c, r))
    BY <1>2, <2>1, <2>2, FixedPush, StackPush DEF Fixers, Quiets
  <2>4. p = Push(c, r) BY DEF r
  <2> HIDE DEF p
  <2>5. Fixed(Push(b, p)) /\ IsStack(Push(b, p))
    BY <2>3, <2>4, FixedPush, StackPush
  <2>6. Fixed(Push(a, Push(b, p))) /\ IsStack(Push(a, Push(b, p)))
    BY <2>5, FixedPush, StackPush
  <2> QED BY <2>6, FixedPush
<1> QED BY <1>1, <1>6, <1>7, <1>8, <1>9

LEMMA InitStack == IsStack(InitReso)
<1>1. \A f, g, h, k, l, m :
        <<f, g, h, k, l, m>> = Push(f,
          Push(g, Push(h, Push(k, Push(l, Push(m, <<>>))))))
  BY Six
<1>2. InitReso = InitPush(<<>>) BY <1>1 DEF InitReso, InitPush
<1>3. IsStack(InitPush(<<>>)) BY EmptyStack, StackPush DEF InitPush
<1> QED BY <1>2, <1>3
\* What an event calls.
Starts == Free(todo') /\ Fixed(todo') /\ DataType'
  /\ UNCHANGED <<ready, dont, busy>>

LEMMA IdleFacts ==
  ASSUME Control, Idle
  PROVE /\ todo = <<>> /\ IsStack(<<>>) /\ Free(<<>>) /\ Ops(<<>>) = {}
        /\ DataType /\ Flags
BY EmptyStack, FreeEmpty DEF Control, Idle

LEMMA OneStarts ==
  ASSUME NEW f, f.op \in Fixers, f.op # "LoadEnd", TypedCall(f)
  PROVE Free(Push(f, <<>>)) /\ Fixed(Push(f, <<>>)) /\ <<f>> = Push(f, <<>>)
<1>1. Free(<<>>) /\ IsStack(<<>>) /\ Ops(<<>>) = {} BY EmptyStack, FreeEmpty
<1>2. f.op \notin Markers BY DEF Fixers, Markers
<1>3. Free(Push(f, <<>>)) BY <1>1, <1>2, FreePush
<1>4. Fixed(Push(f, <<>>)) BY <1>1, FixedPush
<1> QED BY <1>3, <1>4, One

LEMMA DragTriangleStarts ==
  ASSUME Control, DragKiKf \/ DragKfQ \/ DragGq
  PROVE Starts
<1>1. Idle BY DEF DragKiKf, DragKfQ, DragGq, Event
<1>2. DataType BY <1>1, IdleFacts
<1>3. /\ UNCHANGED <<ready, dont, busy>>
      /\ UNCHANGED <<ds, edits, sense, filed, real, tof>>
  BY DEF DragKiKf, DragKfQ, DragGq, optics, settings, layouts, flags
<1>4. tri' \in [ki : Waves, kf : Waves, tt : Turns, th : Turns]
  <2>1. tri \in [ki : Waves, kf : Waves, tt : Turns, th : Turns]
        BY <1>2 DEF DataType
  <2>2. CASE DragKiKf BY <2>2 DEF DragKiKf
  <2>3. CASE DragKfQ BY <2>1, <2>3 DEF DragKfQ
  <2>4. CASE DragGq BY <2>1, <2>4 DEF DragGq
  <2> QED BY <2>2, <2>3, <2>4
<1>5. DataType' BY <1>2, <1>3, <1>4 DEF DataType
<1>6. PICK s : todo' = <<CallWith("TriangleMoved", s)>>
  BY DEF DragKiKf, DragKfQ, DragGq
<1> DEFINE f == CallWith("TriangleMoved", s)
<1>7. f.op = "TriangleMoved" /\ TypedCall(f) BY Calling, PlainCalls
<1>8. todo' = <<f>> BY <1>6
<1> HIDE DEF f
<1>9. Free(<<f>>) /\ Fixed(<<f>>) BY <1>7, OneStarts DEF Fixers
<1> QED BY <1>3, <1>5, <1>8, <1>9 DEF Starts

LEMMA CheckSenseStarts ==
  ASSUME Control, CheckSense
  PROVE Starts
<1>1. Idle BY DEF CheckSense, Event
<1>2. DataType BY <1>1, IdleFacts
<1>3. /\ UNCHANGED <<ready, dont, busy>>
      /\ UNCHANGED <<tri, ds, edits, sense, filed, real, tof>>
  BY DEF CheckSense, optics, settings, layouts, flags, nodes
<1>4. DataType' BY <1>2, <1>3 DEF DataType
<1>5. PICK x \in DOMAIN sense : todo'
      = <<CallWith("SetSense", Only(x, ~sense[x]))>>
  BY DEF CheckSense
<1> DEFINE f == CallWith("SetSense", Only(x, ~sense[x]))
<1>6. x \in {"mono", "sample", "ana"} BY <1>2, <1>5 DEF DataType
<1>7. f.op = "SetSense" /\ TypedCall(f) BY <1>6, Calling, PlainCalls
<1>8. todo' = <<f>> BY <1>5
<1> HIDE DEF f
<1>9. Free(<<f>>) /\ Fixed(<<f>>) BY <1>7, OneStarts DEF Fixers
<1> QED BY <1>3, <1>4, <1>8, <1>9 DEF Starts

LEMMA EditStarts ==
  ASSUME Control, EditSpacing \/ EditCrystal
  PROVE Starts
<1>1. Idle BY DEF EditSpacing, EditCrystal, Event
<1>2. DataType BY <1>1, IdleFacts
<1>3. /\ UNCHANGED <<ready, dont, busy>>
      /\ UNCHANGED <<tri, ds, sense, filed, real, tof>>
  BY DEF EditSpacing, EditCrystal, optics, settings, layouts, flags, nodes
<1>4. edits' \in [mono : Spacings, ana : Spacings]
  <2>1. edits \in [mono : Spacings, ana : Spacings] BY <1>2 DEF DataType
  <2>2. CASE EditSpacing BY <2>1, <2>2 DEF EditSpacing, Crystals
  <2>3. CASE EditCrystal BY <2>1, <2>3 DEF EditCrystal, settings
  <2> QED BY <2>2, <2>3
<1>5. DataType' BY <1>2, <1>3, <1>4 DEF DataType
<1>6. PICK o \in {"UpdateDs", "CalcPeaks"} : todo' = <<CallOf(o)>>
  BY DEF EditSpacing, EditCrystal
<1> DEFINE f == CallOf(o)
<1>7. f.op = o /\ TypedCall(f) BY <1>6, Calling, PlainCalls
<1>8. todo' = <<f>> BY <1>6
<1> HIDE DEF f
<1>9. Free(<<f>>) /\ Fixed(<<f>>) BY <1>6, <1>7, OneStarts DEF Fixers
<1> QED BY <1>3, <1>5, <1>8, <1>9 DEF Starts

\* What an event leaves when it calls nothing.
Rests ==
  /\ todo = <<>> /\ todo' = <<>>
  /\ UNCHANGED <<tri, ds, edits, sense, filed, real, tof, ready, dont, busy>>

LEMMA ToggleSnapStarts ==
  ASSUME Control, ToggleSnap
  PROVE Starts \/ Rests
<1>1. Idle BY DEF ToggleSnap, Event
<1>2. DataType /\ todo = <<>> BY <1>1, IdleFacts
<1>3. UNCHANGED <<tri, ds, edits, sense, filed, real, tof, ready, dont, busy>>
  BY DEF ToggleSnap, optics, layouts, flags
<1>4. DataType' BY <1>2, <1>3 DEF DataType
<1> DEFINE f == CallWith("TriangleMoved", "Gq")
<1>5. todo' = <<f>> \/ todo' = <<>> BY DEF ToggleSnap
<1>6. f.op = "TriangleMoved" /\ TypedCall(f) BY Calling, PlainCalls
<1> HIDE DEF f
<1>7. Free(<<f>>) /\ Fixed(<<f>>) BY <1>6, OneStarts DEF Fixers
<1> QED BY <1>2, <1>3, <1>4, <1>5, <1>7 DEF Starts, Rests

LEMMA QuietEvents ==
  ASSUME Control, (\E s \in {"recip", "real", "tof"} : Press(s)) \/ Release
    \/ ToggleKeep
  PROVE Rests
<1>1. Idle BY DEF Press, Release, ToggleKeep, Event
<1>2. todo = <<>> BY <1>1, IdleFacts
<1>3. /\ todo' = todo
      /\ UNCHANGED <<tri, ds, edits, sense, filed, real, tof, ready, dont,
           busy>>
  BY DEF Press, Release, ToggleKeep, optics, settings, layouts, flags, nodes
<1> QED BY <1>2, <1>3 DEF Rests

LEMMA OpenResoStarts ==
  ASSUME Control, OpenReso
  PROVE Starts
<1>1. Idle BY DEF OpenReso, Event
<1>2. DataType /\ Free(<<>>) /\ IsStack(<<>>) /\ Ops(<<>>) = {}
      BY <1>1, IdleFacts
<1>3. /\ UNCHANGED <<ready, dont, busy>>
      /\ UNCHANGED <<tri, ds, edits, sense, filed, real, tof>>
  BY DEF OpenReso, optics, settings, layouts, flags, nodes
<1>4. DataType' BY <1>2, <1>3 DEF DataType
<1>5. /\ InitReso \o <<>> = InitPush(<<>>)
      /\ Free(InitPush(<<>>)) /\ Fixed(InitPush(<<>>))
  BY <1>2, InitResoIs
<1>6. IsStack(InitReso)
  BY <1>2, InitStack
<1>7. InitReso = InitPush(<<>>) BY <1>5, <1>6, EmptyJoin
<1> QED BY <1>3, <1>4, <1>5, <1>7 DEF Starts, OpenReso

LEMMA VarsTyped ==
  ASSUME DataType,
         NEW v \in [{"mono"} -> SignedAngles] \cup [{"ana"} -> SignedAngles]
                   \cup [{"tt"} -> Turns] \cup [{"tt", "kivec"} -> Turns]
  PROVE LET w == VarsOf(v) IN
        /\ DOMAIN w = DOMAIN v /\ DOMAIN w \subseteq AngleNames \ {"th"}
        /\ DOMAIN w # {}
        /\ \A x \in DOMAIN w : w[x] \in AngleValues(x)
<1>1. sense.sample \in BOOLEAN BY DEF DataType
<1>2. CASE v \in [{"mono"} -> SignedAngles] \cup [{"ana"} -> SignedAngles]
  BY <1>2 DEF VarsOf, AngleNames, Angles, AngleValues, Crystals
<1>3. CASE v \in [{"tt"} -> Turns] \cup [{"tt", "kivec"} -> Turns]
  <2> DEFINE t == Turn(v["tt"], sense.sample)
  <2>1. "tt" \in DOMAIN v /\ v["tt"] \in Turns BY <1>3
  <2>2. t \in Turns BY <1>1, <2>1, TurnTwice
  <2>3. VarsOf(v) = [v EXCEPT !["tt"] = t] BY <2>1 DEF VarsOf
  <2> HIDE DEF t
  <2>4. DOMAIN VarsOf(v) = DOMAIN v
        /\ \A x \in DOMAIN v : VarsOf(v)[x] \in Turns
    BY <1>3, <2>2, <2>3
  <2>5. DOMAIN v \subseteq {"tt", "kivec"} BY <1>3
  <2> QED BY <2>1, <2>4, <2>5 DEF AngleNames, Angles, AngleValues, Crystals
<1> QED BY <1>2, <1>3

LEMMA VarsChangedStarts ==
  ASSUME Control, VarsChanged
  PROVE Starts
<1>1. Idle BY DEF VarsChanged, Event
<1>2. DataType /\ Free(<<>>) /\ IsStack(<<>>) /\ Ops(<<>>) = {}
      BY <1>1, IdleFacts
<1>3. /\ UNCHANGED <<ready, dont, busy>>
      /\ UNCHANGED <<tri, ds, edits, sense, filed, real, tof>>
  BY DEF VarsChanged, optics, settings, layouts, flags, nodes
<1>4. DataType' BY <1>2, <1>3 DEF DataType
<1>5. PICK v \in [{"mono"} -> SignedAngles] \cup [{"ana"} -> SignedAngles]
                 \cup [{"tt"} -> Turns] \cup [{"tt", "kivec"} -> Turns] :
        todo' = <<CallWith("RealTriangleChanged", VarsOf(v)),
                  CallWith("RealEmit", VarsOf(v)),
                  CallWith("SetSense", Only("mono", sense.mono)),
                  CallWith("SetSense", Only("ana", sense.ana)),
                  CallWith("SetSense", Only("sample", sense.sample))>>
                \o IF "kivec" \in DOMAIN v
                   THEN <<CallWith("TasChanged", VarsOf(v)),
                     CallOf("EmitUpdate")>>
                   ELSE <<>>
  BY DEF VarsChanged
<1> DEFINE w == VarsOf(v)
           a == CallWith("RealTriangleChanged", w)
           b == CallWith("RealEmit", w)
           c == CallWith("SetSense", Only("mono", sense.mono))
           d == CallWith("SetSense", Only("ana", sense.ana))
           e == CallWith("SetSense", Only("sample", sense.sample))
           f == CallWith("TasChanged", w)
           g == CallOf("EmitUpdate")
           r == IF "kivec" \in DOMAIN v THEN <<f, g>> ELSE <<>>
<1>6. todo' = <<a, b, c, d, e>> \o r BY <1>5
<1>7. /\ DOMAIN w \subseteq AngleNames \ {"th"} /\ DOMAIN w # {}
      /\ \A x \in DOMAIN w : w[x] \in AngleValues(x)
  BY <1>2, <1>5, VarsTyped
<1>8. sense.mono \in BOOLEAN /\ sense.sample \in BOOLEAN
      /\ sense.ana \in BOOLEAN
  BY <1>2 DEF DataType
<1> HIDE DEF w
<1>9. TypedCall(a) /\ TypedCall(b) /\ TypedCall(f)
      BY <1>7, Calling DEF TypedCall
<1>10. TypedCall(c) /\ TypedCall(d) /\ TypedCall(e) /\ TypedCall(g)
  BY <1>8, PlainCalls
<1>11. /\ a.op = "RealTriangleChanged" /\ b.op = "RealEmit"
       /\ c.op = "SetSense" /\ d.op = "SetSense" /\ e.op = "SetSense"
       /\ f.op = "TasChanged" /\ g.op = "EmitUpdate"
  BY Calling
<1> HIDE DEF a, b, c, d, e, f, g
<1>12. Free(r) /\ IsStack(r) /\ (r = <<>> \/ Fixed(r))
  <2>1. CASE "kivec" \notin DOMAIN v BY <1>2, <2>1 DEF r
  <2>2. CASE "kivec" \in DOMAIN v
    <3>1. r = Push(f, Push(g, <<>>)) BY <2>2, Two DEF r
    <3>2. Free(Push(g, <<>>)) /\ Fixed(Push(g, <<>>))
      BY <1>10, <1>11, OneStarts DEF Fixers
    <3>3. IsStack(Push(g, <<>>)) BY <3>2 DEF Free
    <3>4. Free(Push(f, Push(g, <<>>)))
      BY <1>9, <1>11, <3>2, FreePush DEF Markers
    <3>5. Fixed(Push(f, Push(g, <<>>))) BY <3>2, <3>3, FixedPush
    <3> QED BY <3>1, <3>4, <3>5 DEF Free
  <2> QED BY <2>1, <2>2
<1> HIDE DEF r
<1>13. todo' = Push(a, Push(b, Push(c, Push(d, Push(e, r)))))
  BY <1>6, <1>12, UnfoldFive
<1>14. Free(Push(e, r)) BY <1>10, <1>11, <1>12, FreePush DEF Markers
<1>15. Fixed(Push(e, r))
  BY <1>2, <1>11, <1>12, FixedPush DEF Fixers
<1> DEFINE p == Push(e, r)
<1>16. IsStack(p) /\ Free(p) /\ Fixed(p) BY <1>14, <1>15 DEF Free
<1>17. todo' = Push(a, Push(b, Push(c, Push(d, p)))) BY <1>13
<1> HIDE DEF p
<1>18. Free(Push(d, p)) /\ Fixed(Push(d, p))
  BY <1>10, <1>11, <1>16, FreePush, FixedPush DEF Markers
<1> DEFINE q == Push(d, p)
<1>19. IsStack(q) /\ Free(q) /\ Fixed(q) BY <1>18 DEF Free
<1>20. todo' = Push(a, Push(b, Push(c, q))) BY <1>17
<1> HIDE DEF q
<1>21. Free(Push(c, q)) /\ Fixed(Push(c, q))
  BY <1>10, <1>11, <1>19, FreePush, FixedPush DEF Markers
<1> DEFINE s == Push(c, q)
<1>22. IsStack(s) /\ Free(s) /\ Fixed(s) BY <1>21 DEF Free
<1>23. todo' = Push(a, Push(b, s)) BY <1>20
<1> HIDE DEF s
<1>24. Free(Push(b, s)) /\ Fixed(Push(b, s)) /\ IsStack(Push(b, s))
  BY <1>9, <1>11, <1>22, FreePush, FixedPush, StackPush DEF Markers
<1>25. Free(Push(a, Push(b, s))) /\ Fixed(Push(a, Push(b, s)))
  BY <1>9, <1>11, <1>24, FreePush, FixedPush DEF Markers
<1> QED BY <1>3, <1>4, <1>23, <1>25 DEF Starts

\* What Load() calls.
Files ==
  /\ Filed(todo') /\ DataType' /\ UNCHANGED busy
  /\ ready' = [tri |-> FALSE, real |-> FALSE]
  /\ dont' = [dont EXCEPT !.recip = TRUE, !.real = TRUE]

LEMMA LoadFiles ==
  ASSUME Control, Load
  PROVE Files
<1>1. Idle BY DEF Load, Event
<1>2. DataType /\ IsStack(<<>>) BY <1>1, IdleFacts
<1>3. /\ UNCHANGED <<ds, sense, real, tof, busy>>
      /\ ready' = [tri |-> FALSE, real |-> FALSE]
      /\ dont' = [dont EXCEPT !.recip = TRUE, !.real = TRUE]
      /\ filed' = TRUE
  BY DEF Load, layouts
<1>4. 0 \in Spacings BY ScAssumption DEF Spacings
<1>5. PICK k \in Waves, t \in Turns, s \in BOOLEAN, withReso \in BOOLEAN,
           a \in Spacings :
        LET new == [ki |-> k, kf |-> k, tt |-> t, th |-> t]
            d == [mono |-> 0, ana |-> a]
        IN  /\ tri' = new
            /\ peak' = EndOfQ(new)
            /\ edits' = d /\ filed' = TRUE
            /\ reso' = [reso EXCEPT !.open = @ \/ withReso]
            /\ todo' =
                 (IF s # sense.sample
                   THEN <<CallWith("SetSense", Only("sample", s))>>
                                      ELSE <<>>)
                 \o <<CallWith("TriangleMoved", "KfQ"),
                      CallWith("RealMoved", "sample")>>
                 \o (IF withReso /\ ~reso.open THEN InitReso ELSE <<>>)
                 \o (IF withReso
                     THEN <<CallWith("ResoLoad",
                              [ki |-> k, kf |-> k, tt |-> FoldedTurn(t),
                               mono |-> BraggAngle(k, d.mono),
                               ana |-> BraggAngle(k, d.ana),
                               dm |-> d.mono, da |-> d.ana])>>
                     ELSE <<>>)
                 \o <<CallOf("LoadEnd")>>
  BY DEF Load
<1>6. DataType'
  <2>1. tri' \in [ki : Waves, kf : Waves, tt : Turns, th : Turns] BY <1>5
  <2>2. edits' \in [mono : Spacings, ana : Spacings] BY <1>4, <1>5
  <2> QED BY <1>2, <1>3, <2>1, <2>2 DEF DataType
<1> DEFINE d == [mono |-> 0, ana |-> a]
           u == [ki |-> k, kf |-> k, tt |-> FoldedTurn(t),
                 mono |-> BraggAngle(k, d.mono), ana |-> BraggAngle(k, d.ana),
                 dm |-> d.mono, da |-> d.ana]
           f == CallWith("SetSense", Only("sample", s))
           g == CallWith("TriangleMoved", "KfQ")
           h == CallWith("RealMoved", "sample")
           l == CallWith("ResoLoad", u)
           e == CallOf("LoadEnd")
           A == IF s # sense.sample THEN <<f>> ELSE <<>>
           B == <<g, h>>
           C == IF withReso /\ ~reso.open THEN InitReso ELSE <<>>
           D == IF withReso THEN <<l>> ELSE <<>>
           E == <<e>>
<1>7. todo' = A \o B \o C \o D \o E BY <1>5
<1>8. /\ f.op = "SetSense" /\ g.op = "TriangleMoved" /\ h.op = "RealMoved"
      /\ l.op = "ResoLoad"
  BY Calling
<1>9. TypedCall(f) /\ TypedCall(g) /\ TypedCall(h) /\ TypedCall(l)
  BY <1>5, PlainCalls
<1>10. Filed(Push(e, <<>>)) BY FiledEnd
<1> HIDE DEF f, g, h, l, e
<1>11. IsStack(A) /\ IsStack(D) /\ IsStack(E) BY <1>2, One DEF A, D, E
<1>12. IsStack(B) BY <1>2, Two, StackPush DEF B
<1>13. IsStack(C) BY <1>2, InitStack DEF C
<1>14. E = Push(e, <<>>) BY One DEF E
<1> HIDE DEF B, C, E
<1>15. Filed(D \o E)
  <2>1. Filed(E) /\ IsStack(E) BY <1>10, <1>14 DEF Filed
  <2>2. <<>> \o E = E /\ <<l>> \o E = Push(l, E) BY <2>1, Unfold
  <2>3. Filed(Push(l, E)) BY <1>8, <1>9, <2>1, FiledPush DEF LoadOps
  <2> QED BY <2>1, <2>2, <2>3 DEF D
<1> DEFINE p == D \o E
<1>16. Filed(p) /\ IsStack(p) BY <1>15 DEF Filed
<1> HIDE DEF D, p
<1>17. Filed(C \o p)
  <2>1. <<>> \o p = p BY <1>16, EmptyJoin
  <2>2. InitReso \o p = InitPush(p) /\ Filed(InitPush(p))
        BY <1>2, <1>16, InitResoIs
  <2> QED BY <1>16, <2>1, <2>2 DEF C
<1> DEFINE q == C \o p
<1>18. Filed(q) /\ IsStack(q) BY <1>17 DEF Filed
<1> HIDE DEF q
<1>19. Filed(B \o q)
  <2>1. B \o q = Push(g, Push(h, q)) BY <1>18, Unfold DEF B
  <2>2. Filed(Push(h, q)) BY <1>8, <1>9, <1>18, FiledPush DEF LoadOps
  <2>3. Filed(Push(g, Push(h, q))) BY <1>8, <1>9, <2>2, FiledPush DEF LoadOps
  <2> QED BY <2>1, <2>3
<1> DEFINE r == B \o q
<1>20. Filed(r) /\ IsStack(r) BY <1>19 DEF Filed
<1> HIDE DEF r
<1>21. Filed(A \o r)
  <2>1. <<>> \o r = r /\ <<f>> \o r = Push(f, r) BY <1>20, Unfold
  <2>2. Filed(Push(f, r)) BY <1>8, <1>9, <1>20, FiledPush DEF LoadOps
  <2> QED BY <1>20, <2>1, <2>2 DEF A
<1> HIDE DEF A
<1>22. A \o B \o C \o D \o E = A \o r
  <2>1. Join5(A, B, C, D, E) = Chain5(A, B, C, D, E)
    BY <1>11, <1>12, <1>13, JoinFive
  <2> QED BY <2>1 DEF p, q, r, Join5, Chain5
<1> QED BY <1>3, <1>6, <1>7, <1>21, <1>22 DEF Files

\* What the movement of a node of a layout calls.
LEMMA DragRealStarts ==
  ASSUME Control, DragReal
  PROVE /\ todo = <<>> /\ Free(todo') /\ DataType'
        /\ UNCHANGED <<tri, ds, sense, tof, ready, dont, busy>>
        /\ \E x \in {"mono", "ana", "tt"} :
             /\ todo' = <<CallWith("RealMoved", Mover[x])>>
             /\ \A y \in Angles \ {x} : real'[y] = real[y]
<1>1. Idle BY DEF DragReal, Event
<1>2. DataType /\ Free(<<>>) /\ todo = <<>> BY <1>1, IdleFacts
<1>3. UNCHANGED <<tri, ds, edits, sense, filed, tof, ready, dont, busy>>
  BY DEF DragReal, optics, settings, flags, nodes
<1>4. PICK x \in {"mono", "ana", "tt"} :
        /\ \E v \in AngleValues(x) : real' = [real EXCEPT ![x] = v]
        /\ todo' = <<CallWith("RealMoved", Mover[x])>>
  <2>1. CASE \E a \in SignedAngles :
               /\ real' = [real EXCEPT !["mono"] = a]
               /\ todo' = <<CallWith("RealMoved", "sample")>>
    <3>1. Mover["mono"] = "sample" BY DEF Mover
    <3> QED BY <2>1, <3>1 DEF AngleValues, Crystals
  <2>2. CASE \E a \in SignedAngles :
               /\ real' = [real EXCEPT !["ana"] = a]
               /\ todo' = <<CallWith("RealMoved", "det")>>
    <3>1. Mover["ana"] = "det" BY DEF Mover
    <3> QED BY <2>2, <3>1 DEF AngleValues, Crystals
  <2>3. CASE \E t \in Turns :
               /\ real' = [real EXCEPT !["tt"] = t]
               /\ todo' = <<CallWith("RealMoved", "ana")>>
    <3>1. Mover["tt"] = "ana" BY DEF Mover
    <3> QED BY <2>3, <3>1 DEF AngleValues, Crystals
  <2> QED BY <2>1, <2>2, <2>3 DEF DragReal
<1>5. /\ DOMAIN real' = Angles \cup {"kiq"}
      /\ \A y \in Angles : real'[y] \in AngleValues(y)
      /\ \A y \in Angles \ {x} : real'[y] = real[y]
  BY <1>2, <1>4 DEF DataType, Angles
<1>6. DataType' BY <1>2, <1>3, <1>5 DEF DataType
<1> DEFINE f == CallWith("RealMoved", Mover[x])
<1>7. f.op = "RealMoved" /\ TypedCall(f) BY Calling, PlainCalls
<1>8. todo' = <<f>> BY <1>4
<1>9. <<f>> = Push(f, <<>>) BY One
<1> HIDE DEF f
<1>10. Free(Push(f, <<>>)) BY <1>2, <1>7, FreePush DEF Markers
<1> QED BY <1>2, <1>3, <1>4, <1>5, <1>6, <1>8, <1>9, <1>10

LEMMA DragMonoStarts ==
  ASSUME Control, DragMono
  PROVE /\ todo = <<>> /\ Free(todo') /\ DataType'
        /\ UNCHANGED <<tri, ds, sense, real, tof, ready, dont, busy>>
        /\ todo' = <<CallWith("RealMoved", "mono")>>
<1>1. Idle BY DEF DragMono, Event
<1>2. DataType /\ Free(<<>>) /\ todo = <<>> BY <1>1, IdleFacts
<1>3. /\ UNCHANGED <<tri, ds, edits, sense, filed, real, tof, ready, dont,
           busy>>
      /\ todo' = <<CallWith("RealMoved", "mono")>>
  BY DEF DragMono, optics, settings, flags, nodes, layouts
<1>4. DataType' BY <1>2, <1>3 DEF DataType
<1> DEFINE f == CallWith("RealMoved", "mono")
<1>5. f.op = "RealMoved" /\ TypedCall(f) BY Calling, PlainCalls
<1>6. todo' = <<f>> BY <1>3
<1>7. <<f>> = Push(f, <<>>) BY One
<1> HIDE DEF f
<1>8. Free(Push(f, <<>>)) BY <1>2, <1>5, FreePush DEF Markers
<1> QED BY <1>2, <1>3, <1>4, <1>6, <1>7, <1>8

LEMMA DragTofStarts ==
  ASSUME Control, DragTof
  PROVE /\ todo = <<>> /\ Free(todo') /\ DataType'
        /\ UNCHANGED <<tri, ds, sense, real, ready, dont, busy>>
        /\ tof'.th = tof.th
        /\ \E s \in {"sample", "det"} : todo' = <<CallWith("TofMoved", s)>>
<1>1. Idle BY DEF DragTof, Event
<1>2. DataType /\ Free(<<>>) /\ todo = <<>> BY <1>1, IdleFacts
<1>3. UNCHANGED <<tri, ds, edits, sense, filed, real, ready, dont, busy>>
  BY DEF DragTof, optics, settings, flags, nodes
<1>4. PICK s \in {"sample", "det"} : todo' = <<CallWith("TofMoved", s)>>
  BY DEF DragTof
<1>5. DOMAIN tof' = {"tt", "th", "kiq"} /\ tof'.tt \in Turns
      /\ tof'.th = tof.th
  BY <1>2 DEF DragTof, DataType
<1>6. tof.th \in Turns BY <1>2 DEF DataType
<1>7. DataType' BY <1>2, <1>3, <1>5, <1>6 DEF DataType
<1> DEFINE f == CallWith("TofMoved", s)
<1>8. f.op = "TofMoved" /\ TypedCall(f) BY Calling, PlainCalls
<1>9. todo' = <<f>> BY <1>4
<1>10. <<f>> = Push(f, <<>>) BY One
<1> HIDE DEF f
<1>11. Free(Push(f, <<>>)) BY <1>2, <1>8, FreePush DEF Markers
<1> QED BY <1>2, <1>3, <1>4, <1>5, <1>7, <1>9, <1>10, <1>11

LEMMA FreeControl ==
  ASSUME Control, Idle, Free(todo'), DataType', UNCHANGED <<ready, dont, busy>>
  PROVE Control'
<1>1. Flags /\ Ops(todo) = {} BY IdleFacts
<1>2. /\ IsStack(todo') /\ Nested(todo') /\ Typed(todo')
      /\ Ops(todo') \cap Markers = {}
  BY DEF Free
<1>3. Flags' BY <1>1, <1>2 DEF Flags, Markers
<1> QED BY <1>2, <1>3 DEF Control

LEMMA FilesControl ==
  ASSUME Control, Idle, Files PROVE Control'
<1>1. Flags /\ Ops(todo) = {} BY IdleFacts
<1>2. /\ IsStack(todo') /\ Nested(todo') /\ Typed(todo')
      /\ "LoadEnd" \in Ops(todo')
           /\ Ops(todo') \subseteq LoadOps \cup {"LoadEnd"}
  BY DEF Files, Filed
<1>3. /\ busy' = busy /\ ready' = [tri |-> FALSE, real |-> FALSE]
      /\ dont' = [dont EXCEPT !.recip = TRUE, !.real = TRUE] /\ DataType'
  BY DEF Files
<1>4. Flags' BY <1>1, <1>2, <1>3 DEF Flags, LoadOps
<1> QED BY <1>2, <1>3, <1>4 DEF Control
\* The steps together.
LEMMA RunControl == ASSUME Control, Run PROVE Control'
<1>1. CASE TriangleMoved \/ EmitUpdate \/ EmitAllParams \/ TasChanged
           \/ TasChangedEnd \/ Set
  BY <1>1, TriangleMovedControl, EmitUpdateControl, EmitAllParamsControl,
     TasChangedControl, TasChangedEndControl, SetControl
<1>2. CASE RealLayout
  BY <1>2, RealTriangleChangedControl, RealTriangleChangedEndControl,
     RealSetControl, RealAngleKiQControl, RealMovedControl,
       RealMovedEndControl,
     RealEmitControl, RealEmitAllParamsControl
     DEF RealLayout
<1>3. CASE TofLayout
  BY <1>3, TofTriangleChangedControl, TofTriangleChangedEndControl,
     TofSetControl, TofAngleKiQControl, TofMovedControl, TofMovedEndControl,
     TofEmitControl
     DEF TofLayout
<1>4. CASE Dialogs
  BY <1>4, RecipDialogsControl, ResoRecipControl, ResoRealControl,
     ResoParsControl, ResoSenseControl, ResoLoadControl, ResoUpdateOnControl
     DEF Dialogs
<1>5. CASE MainWindow
  BY <1>5, UpdateDsControl, SetSenseControl, CalcPeaksControl,
     SnapToPeakControl, LoadEndControl
     DEF MainWindow
<1> QED BY <1>1, <1>2, <1>3, <1>4, <1>5 DEF Run

\* What the events do to the calls.
LEMMA UserCases ==
  ASSUME Control, User
  PROVE /\ Idle
        /\ \/ Starts \/ Rests \/ Files
           \/ DragReal \/ DragMono \/ DragTof
<1>1. Idle
  BY DEF User, Event, Press, Release, DragKiKf, DragKfQ, DragGq, DragReal,
         DragMono, DragTof, CheckSense, EditSpacing, EditCrystal, ToggleSnap,
         ToggleKeep, VarsChanged, OpenReso, Load
<1>2. CASE (\E s \in {"recip", "real", "tof"} : Press(s)) \/ Release
      \/ ToggleKeep
  BY <1>1, <1>2, QuietEvents
<1>3. CASE DragKiKf \/ DragKfQ \/ DragGq
  BY <1>1, <1>3, DragTriangleStarts
<1>4. CASE CheckSense \/ EditSpacing \/ EditCrystal \/ ToggleSnap
  BY <1>1, <1>4, CheckSenseStarts, EditStarts, ToggleSnapStarts
<1>5. CASE VarsChanged \/ OpenReso \/ Load
  BY <1>1, <1>5, VarsChangedStarts, OpenResoStarts, LoadFiles
<1>6. CASE DragReal \/ DragMono \/ DragTof BY <1>1, <1>6
<1> QED BY <1>2, <1>3, <1>4, <1>5, <1>6 DEF User

LEMMA UserControl == ASSUME Control, User PROVE Control'
<1>1. Idle BY UserCases
<1>2. CASE Starts BY <1>1, <1>2, FreeControl DEF Starts
<1>3. CASE Files BY <1>1, <1>3, FilesControl
<1>4. CASE Rests
  <2>1. /\ todo' = todo
        /\ UNCHANGED <<tri, ds, edits, sense, filed, real, tof, ready, dont,
             busy>>
    BY <1>4 DEF Rests
  <2> QED BY <2>1 DEF Control, Flags, DataType
<1>5. CASE DragReal BY <1>1, <1>5, DragRealStarts, FreeControl
<1>6. CASE DragMono BY <1>1, <1>6, DragMonoStarts, FreeControl
<1>7. CASE DragTof BY <1>1, <1>7, DragTofStarts, FreeControl
<1> QED BY <1>2, <1>3, <1>4, <1>5, <1>6, <1>7, UserCases

LEMMA StutterControl == ASSUME Control, UNCHANGED scvars PROVE Control'
BY DEF Control, Flags, DataType, scvars, nodes, settings, optics, layouts,
  flags

LEMMA InitTypes == ASSUME ScInit PROVE DataType
<1>1. /\ NWaves \in Nat \ {0} /\ NTurns \in Nat \ {0, 1}
           /\ NSpacings \in Nat \ {0}
  BY ScAssumption
<1>2. 0 \in Waves /\ 0 \in Spacings /\ 0 \in Turns /\ 1 \in Turns
  BY <1>1 DEF Waves, Spacings, Turns
<1>3. tri \in [ki : Waves, kf : Waves, tt : Turns, th : Turns]
  BY <1>2 DEF ScInit
<1>4. /\ ds \in [mono : Spacings, ana : Spacings] /\ edits = ds
      /\ DOMAIN ds = {"mono", "ana"}
  <2>1. ds = [x \in {"mono", "ana"} |-> 0] /\ edits = ds
        BY DEF ScInit, Crystals
  <2> QED BY <1>2, <2>1
<1>5. sense \in [mono : BOOLEAN, sample : BOOLEAN, ana : BOOLEAN]
      /\ filed \in BOOLEAN
  BY DEF ScInit
<1>6. /\ BraggAngle(tri.ki, ds.mono) \in Magnitudes
      /\ BraggAngle(tri.kf, ds.ana) \in Magnitudes
  BY <1>3, <1>4, BraggType
<1>7. TriangleAngles.mono \in SignedAngles
      /\ TriangleAngles.ana \in SignedAngles
  BY <1>5, <1>6, SignedAbs DEF TriangleAngles
<1>8. TriangleAngles.tt \in Turns /\ TriangleAngles.th \in Turns
  BY <1>3, <1>5, TurnTwice DEF TriangleAngles
<1> DEFINE A == TriangleAngles
<1>9. /\ DOMAIN real = Angles \cup {"kiq"} /\ real.mono = A.mono
           /\ real.ana = A.ana
      /\ real.tt = A.tt /\ real.th = A.th
      /\ DOMAIN tof = {"tt", "th", "kiq"} /\ tof.tt = A.tt /\ tof.th = A.th
  BY DEF ScInit, Angles
<1> HIDE DEF A
<1>10. \A x \in Angles : real[x] \in AngleValues(x)
  BY <1>7, <1>8, <1>9 DEF A, Angles, AngleValues, Crystals
<1> QED BY <1>3, <1>4, <1>5, <1>7, <1>8, <1>9, <1>10 DEF DataType, A

LEMMA InitControl == ScInit => Control
<1> SUFFICES ASSUME ScInit PROVE Control OBVIOUS
<1>1. DataType BY InitTypes
<1>2. todo = <<>> BY DEF ScInit
<1>3. IsStack(todo) /\ Nested(todo) /\ Typed(todo) /\ Ops(todo) = {}
  BY <1>2, FreeEmpty, EmptyStack DEF Free
<1>4. Flags BY <1>3 DEF Flags, ScInit
<1> QED BY <1>1, <1>3, <1>4 DEF Control

\* ControlInvariance: at any time the calls that are under way in the scenes
\* are properly nested and carry angles that the triangle can have, and each of
\* the flags m_bReady, m_bDontEmitChange and bAllowUpdate is set exactly while
\* the function that resets it is under way, whatever events have come
\* (scattering_triangle.cpp, tas_layout.cpp, tof_layout.cpp, taz.cpp).
THEOREM ControlInvariance == ScSpec => []Control
<1>1. Control /\ [ScNext]_scvars => Control'
  BY RunControl, UserControl, StutterControl DEF ScNext, Spent
<1> QED BY InitControl, <1>1, PTL DEF ScSpec
-----------------------------------------------------------------------------
(* What a step leaves.                                                     *)

\* The calls p are the calls q with others on top of them.
Over(p, q) ==
  /\ IsStack(p)
  /\ \A i \in DOMAIN q : \E j \in DOMAIN p :
       p[j] = q[i] /\ Below(p, j) = Below(q, i)

LEMMA OverSelf == \A q : IsStack(q) => Over(q, q)
BY DEF Over

LEMMA OverPush == \A f, p, q : Over(p, q) => Over(Push(f, p), q)
<1> SUFFICES ASSUME NEW f, NEW p, NEW q, Over(p, q) PROVE Over(Push(f, p), q)
  OBVIOUS
<1>1. IsStack(p) BY DEF Over
<1> DEFINE s == Push(f, p)
<1>2. \A j \in DOMAIN p : j + 1 \in DOMAIN s /\ s[j + 1] = p[j]
                          /\ Below(s, j + 1) = Below(p, j)
  BY <1>1, PushIndex
<1>3. IsStack(s) BY <1>1, StackPush
<1> HIDE DEF s
<1>4. Over(s, q) BY <1>2, <1>3 DEF Over
<1> QED BY <1>4 DEF s

LEMMA OverSetting ==
  \A o, x, a, p, q : Over(p, q) => Over(Setting(o, x, a, p), q)
BY OverPush DEF Setting

\* A step takes the first call away and puts others in its place.
LEMMA StepOver ==
  ASSUME Control, Run, IsStack(Rest) PROVE Over(todo', Rest)
<1>0. IsStack(todo) /\ Typed(todo) /\ Over(Rest, Rest) BY OverSelf DEF Control
<1>1. CASE TriangleMoved BY <1>0, <1>1, TriangleMovedEffect, OverPush
<1>2. CASE EmitUpdate BY <1>0, <1>2, EmitUpdateEffect, OverPush
<1>3. CASE EmitAllParams BY <1>0, <1>3, EmitAllParamsEffect, OverPush
<1>4. CASE TasChanged BY <1>0, <1>4, TasChangedEffect, OverPush, OverSetting
<1>5. CASE TasChangedEnd BY <1>0, <1>5, TasChangedEndEffect, OverPush
<1>6. CASE Set BY <1>0, <1>6, SetEffect, OverPush
<1>7. CASE RealTriangleChanged
      BY <1>0, <1>7, RealTriangleChangedEffect, OverPush, OverSetting
<1>8. CASE RealTriangleChangedEnd
      BY <1>0, <1>8, RealTriangleChangedEndEffect, OverPush
<1>9. CASE RealSet BY <1>0, <1>9, RealSetEffect, OverPush
<1>10. CASE RealAngleKiQ BY <1>0, <1>10, RealAngleKiQEffect, OverPush
<1>11. CASE RealMoved BY <1>0, <1>11, RealMovedEffect, OverPush
<1>12. CASE RealMovedEnd BY <1>0, <1>12, RealMovedEndEffect, OverPush
<1>13. CASE RealEmit BY <1>0, <1>13, RealEmitEffect, OverPush
<1>14. CASE RealEmitAllParams BY <1>0, <1>14, RealEmitAllParamsEffect, OverPush
<1>15. CASE TofTriangleChanged
       BY <1>0, <1>15, TofTriangleChangedEffect, OverPush, OverSetting
<1>16. CASE TofTriangleChangedEnd
       BY <1>0, <1>16, TofTriangleChangedEndEffect, OverPush
<1>17. CASE TofSet BY <1>0, <1>17, TofSetEffect, OverPush
<1>18. CASE TofAngleKiQ BY <1>0, <1>18, TofAngleKiQEffect, OverPush
<1>19. CASE TofMoved BY <1>0, <1>19, TofMovedEffect, OverPush
<1>20. CASE TofMovedEnd BY <1>0, <1>20, TofMovedEndEffect, OverPush
<1>21. CASE TofEmit BY <1>0, <1>21, TofEmitEffect, OverPush
<1>22. CASE RecipDialogs BY <1>0, <1>22, RecipDialogsEffect, OverPush
<1>23. CASE ResoRecip BY <1>0, <1>23, ResoRecipEffect, OverPush
<1>24. CASE ResoReal BY <1>0, <1>24, ResoRealEffect, OverPush
<1>25. CASE ResoPars BY <1>0, <1>25, ResoParsEffect, OverPush
<1>26. CASE ResoSense BY <1>0, <1>26, ResoSenseEffect, OverPush
<1>27. CASE ResoLoad BY <1>0, <1>27, ResoLoadEffect, OverPush
<1>28. CASE ResoUpdateOn BY <1>0, <1>28, ResoUpdateOnEffect, OverPush
<1>29. CASE UpdateDs BY <1>0, <1>29, UpdateDsEffect, OverPush
<1>30. CASE SetSense BY <1>0, <1>30, SetSenseEffect, OverPush
<1>31. CASE CalcPeaks BY <1>0, <1>31, CalcPeaksEffect, OverPush
<1>32. CASE LoadEnd BY <1>0, <1>32, LoadEndEffect, OverPush
<1>33. CASE SnapToPeak BY <1>0, <1>33, SnapToPeakEffect, OverPush
<1> QED
  BY <1>1, <1>2, <1>3, <1>4, <1>5, <1>6, <1>7, <1>8, <1>9, <1>10, <1>11,
    <1>12, <1>13, <1>14, <1>15, <1>16, <1>17, <1>18, <1>19, <1>20, <1>21,
      <1>22, <1>23, <1>24, <1>25, <1>26, <1>27, <1>28, <1>29, <1>30, <1>31,
        <1>32, <1>33
     DEF Run, RealLayout, TofLayout, Dialogs, MainWindow

-----------------------------------------------------------------------------
(* A call that will set the layouts right stays among the calls to be      *)
(* made.                                                                   *)

LEMMA FixedMore ==
  \A f, q : IsStack(q) /\ Fixed(q) => IsStack(Push(f, q)) /\ Fixed(Push(f, q))
BY FixedPush, StackPush

LEMMA FixedKept ==
  ASSUME Control, Run, Fixed(Rest), IsStack(Rest) PROVE Fixed(todo')
<1>1. Over(todo', Rest) BY StepOver
<1> QED BY <1>1 DEF Over, Fixed

\* What the call does that sets them right.
LEMMA FixerActs ==
  ASSUME Control, Run, IsStack(Rest), todo = Push(Head(todo), Rest),
         Head(todo).op \in Fixers, Ops(Rest) \subseteq Quiets
  PROVE TriangleMoved \/ EmitUpdate \/ UpdateDs \/ SetSense \/ CalcPeaks
         \/ LoadEnd
BY DEF Run, RealLayout, TofLayout, Dialogs, MainWindow, At, Fixers,
       EmitAllParams, TasChanged, TasChangedEnd, Set,
       RealTriangleChanged, RealTriangleChangedEnd, RealSet, RealAngleKiQ,
       RealMoved, RealMovedEnd, RealEmit, RealEmitAllParams,
       TofTriangleChanged, TofTriangleChangedEnd, TofSet, TofAngleKiQ,
       TofMoved, TofMovedEnd, TofEmit, RecipDialogs, ResoRecip, ResoReal,
       ResoPars, ResoSense, ResoLoad, ResoUpdateOn, SnapToPeak

LEMMA FixerFixes ==
  ASSUME Control, IsStack(Rest), todo = Push(Head(todo), Rest),
         Ops(Rest) \subseteq Quiets,
         TriangleMoved \/ UpdateDs \/ SetSense \/ CalcPeaks \/ LoadEnd
  PROVE Fixed(todo')
<1>1. IsStack(todo) /\ Typed(todo) /\ Flags BY DEF Control
<1> DEFINE e == CallOf("EmitUpdate")
           a == CallOf("EmitAllParams")
           s == CallOf("ResoSense")
           d == CallWith("ResoPars", edits)
           u == CallOf("ResoUpdateOn")
<1>2. /\ e.op = "EmitUpdate" /\ a.op = "EmitAllParams" /\ s.op = "ResoSense"
      /\ d.op = "ResoPars" /\ u.op = "ResoUpdateOn"
  BY Calling
<1> HIDE DEF e, a, s, d, u
<1>3. /\ IsStack(Push(a, Rest)) /\ Ops(Push(a, Rest)) \subseteq Quiets
      /\ IsStack(Push(d, Rest)) /\ Ops(Push(d, Rest)) \subseteq Quiets
  BY <1>2, PushOps, StackPush DEF Quiets
<1>4. /\ Fixed(Push(e, Rest)) /\ Fixed(Push(e, Push(a, Rest)))
      /\ Fixed(Push(e, Push(d, Rest)))
      /\ IsStack(Push(e, Rest)) /\ IsStack(Push(e, Push(a, Rest)))
  BY <1>2, <1>3, FixedPush, StackPush DEF Fixers
<1>5. CASE TriangleMoved
  <2>1. "LoadEnd" \notin Ops(todo)
    <3>1. Head(todo).op = "TriangleMoved" BY <1>1, <1>5, TriangleMovedEffect
    <3> QED BY <3>1, PushOps DEF Quiets
  <2>2. ready.tri BY <1>1, <2>1 DEF Flags
  <2> QED BY <1>1, <1>4, <1>5, <2>2, TriangleMovedEffect, FixedMore DEF e, a
<1>6. CASE UpdateDs BY <1>1, <1>4, <1>6, UpdateDsEffect DEF e, d
<1>7. CASE SetSense
  <2> DEFINE p == Push(e, Rest)
  <2>1. IsStack(Rest) /\ IsStack(p) /\ Fixed(p) BY <1>4
  <2>2. /\ IsStack(Push(s, Rest)) /\ Ops(Push(s, Rest)) \subseteq Quiets
    BY <1>2, PushOps, StackPush DEF Quiets
  <2>3. /\ IsStack(Push(a, Push(s, Rest)))
             /\ Ops(Push(a, Push(s, Rest))) \subseteq Quiets
    BY <1>2, <2>2, PushOps, StackPush DEF Quiets
  <2>4. Fixed(Push(e, Push(a, Push(s, Rest))))
    BY <1>2, <2>3, FixedPush DEF Fixers
  <2> HIDE DEF p
  <2>5. Fixed(Push(e, Push(a, Push(s, p))))
    BY <2>1, FixedMore
  <2> QED BY <1>1, <1>7, <2>4, <2>5, SetSenseEffect DEF e, a, s, p
<1>8. CASE CalcPeaks BY <1>1, <1>4, <1>8, CalcPeaksEffect, FixedMore DEF e
<1>9. CASE LoadEnd
  <2> DEFINE r == IF reso.open THEN Push(u, Push(a, Rest)) ELSE Rest
  <2>1. IsStack(r) /\ Ops(r) \subseteq Quiets
    BY <1>2, <1>3, PushOps, StackPush DEF Quiets
  <2> HIDE DEF r
  <2>2. Fixed(Push(e, r)) /\ IsStack(Push(e, r))
    BY <1>2, <2>1, FixedPush, StackPush DEF Fixers
  <2>3. todo' = Push(CallOf("CalcPeaks"), Push(e, r))
    BY <1>1, <1>9, LoadEndEffect DEF e, a, u, r
  <2> QED BY <2>2, <2>3, FixedMore
<1> QED BY <1>5, <1>6, <1>7, <1>8, <1>9
-----------------------------------------------------------------------------
(* What the layouts are told is what they then have.                       *)

\* Angles that are equal are the same; Abs does not see a sign.
LEMMA LikeSelf == \A x, v : Like(x, v, v)
BY DEF Like

LEMMA SameAngles ==
  ASSUME UNCHANGED <<tri, ds, sense>> PROVE TriangleAngles' = TriangleAngles
BY DEF TriangleAngles

\* The calls to be made, as Settled has them.
Told(q, A, r, t) ==
  /\ Calm(q) /\ Good(q, A)
  /\ \A x \in Angles : Like(x, r[x], A[x]) \/ RealPending(q, x)
  /\ \A x \in {"tt", "th"} : t[x] = A[x] \/ TofPending(q, x)

LEMMA SettledTold == Settled <=> Told(todo, TriangleAngles, real, tof)
BY DEF Settled, Told

\* Pushing a call to a stack that need not hold what it changes.
LEMMA ToldPush ==
  \A f, q, A, r, t :
    IsStack(q) /\ Told(q, A, r, t) /\ CalmFit(f, Ops(q)) /\ GoodCall(f, A) =>
    IsStack(Push(f, q)) /\ Told(Push(f, q), A, r, t)
<1> SUFFICES ASSUME NEW f, NEW q, NEW A, NEW r, NEW t, IsStack(q),
                    Told(q, A, r, t), CalmFit(f, Ops(q)), GoodCall(f, A)
             PROVE IsStack(Push(f, q)) /\ Told(Push(f, q), A, r, t)
  OBVIOUS
<1> DEFINE p == Push(f, q)
<1>1. IsStack(p) BY StackPush
<1>2. Calm(p) BY CalmPush DEF Told
<1>3. Good(p, A) BY GoodPush DEF Told
<1>4. \A x : RealPending(q, x) => RealPending(p, x) BY RealPendingPush
<1>5. \A x : TofPending(q, x) => TofPending(p, x) BY TofPendingPush
<1> HIDE DEF p
<1>6. Told(p, A, r, t) BY <1>2, <1>3, <1>4, <1>5 DEF Told
<1> QED BY <1>1, <1>6 DEF p

LEMMA ToldPop ==
  \A f, q, A, r, t :
    IsStack(q) /\ Told(Push(f, q), A, r, t) =>
    /\ CalmFit(f, Ops(q)) /\ GoodCall(f, A) /\ Calm(q) /\ Good(q, A)
    /\ ~Carries(f) => Told(q, A, r, t)
<1> SUFFICES ASSUME NEW f, NEW q, NEW A, NEW r, NEW t, IsStack(q),
                    Told(Push(f, q), A, r, t)
             PROVE /\ CalmFit(f, Ops(q)) /\ GoodCall(f, A) /\ Calm(q)
                      /\ Good(q, A)
                   /\ ~Carries(f) => Told(q, A, r, t)
  OBVIOUS
<1> DEFINE p == Push(f, q)
<1>1. CalmFit(f, Ops(q)) /\ Calm(q) BY CalmPush DEF Told
<1>2. GoodCall(f, A) /\ Good(q, A) BY GoodPush DEF Told
<1>3. ASSUME ~Carries(f) PROVE Told(q, A, r, t)
  <2>1. \A x : RealPending(p, x) => RealPending(q, x)
    BY <1>3, RealPendingPush DEF Carries
  <2>2. \A x : TofPending(p, x) => TofPending(q, x)
    BY <1>3, TofPendingPush DEF Carries
  <2>3. /\ \A x \in Angles : Like(x, r[x], A[x]) \/ RealPending(p, x)
        /\ \A x \in {"tt", "th"} : t[x] = A[x] \/ TofPending(p, x)
    BY DEF Told
  <2> HIDE DEF p
  <2> QED BY <1>1, <1>2, <2>1, <2>2, <2>3 DEF Told
<1> QED BY <1>1, <1>2, <1>3

\* emitUpdate() tells both layouts everything.
LEMMA EmitSettles ==
  ASSUME Control, EmitUpdate, IsStack(Rest), todo = Push(Head(todo), Rest),
         Ops(Rest) \subseteq Quiets
  PROVE Settled'
<1>1. IsStack(todo) /\ Flags /\ DataType BY DEF Control
<1>2. ready.tri /\ ~dont.recip
  <2>1. Head(todo).op = "EmitUpdate" BY <1>1, EmitUpdateEffect
  <2>2. Ops(todo) = {Head(todo).op} \cup Ops(Rest) BY PushOps
  <2> QED BY <1>1, <2>1, <2>2 DEF Flags, Quiets
<1> DEFINE A == TriangleAngles
           f == CallWith("RealTriangleChanged", A)
           g == CallWith("TofTriangleChanged", A)
           q == Push(g, Rest)
           p == Push(f, q)
<1>3. todo' = p /\ UNCHANGED <<tri, ds, sense, real, tof>>
  BY <1>1, <1>2, EmitUpdateEffect
<1>4. A' = A BY <1>3, SameAngles
<1>5. DOMAIN A = Angles BY <1>1, AnglesTyped
<1>6. /\ f.op = "RealTriangleChanged" /\ f.arg = A
      /\ g.op = "TofTriangleChanged" /\ g.arg = A
  BY Calling
<1> HIDE DEF A, f, g
<1>7. Calm(Rest) /\ Good(Rest, A)
  <2>1. \A i \in DOMAIN Rest : Rest[i].op \in Quiets BY DEF Ops
  <2>2. Calm(Rest)
    BY <2>1 DEF Calm, CalmFit, CalmOps, Quiets, Lifts, TofLifts
  <2>3. Good(Rest, A) BY <2>1 DEF Good, GoodCall, Carries, Quiets
  <2> QED BY <2>2, <2>3
<1>8. GoodCall(f, A) /\ GoodCall(g, A) BY <1>6, LikeSelf DEF GoodCall
<1>9. IsStack(q) /\ Calm(q) /\ Good(q, A)
  <2>1. CalmFit(g, Ops(Rest)) BY <1>6 DEF CalmFit, CalmOps, Lifts, TofLifts
  <2> QED BY <1>7, <1>8, <2>1, StackPush, CalmPush, GoodPush
<1>10. \A x \in {"tt", "th"} : TofPending(q, x)
  BY <1>5, <1>6, TofPendingPush DEF Angles
<1> HIDE DEF q
<1>11. Calm(p) /\ Good(p, A)
  <2>1. CalmFit(f, Ops(q)) BY <1>6 DEF CalmFit, CalmOps, Lifts, TofLifts
  <2> QED BY <1>8, <1>9, <2>1, CalmPush, GoodPush
<1>12. \A x \in Angles : RealPending(p, x)
  BY <1>5, <1>6, <1>9, RealPendingPush
<1>13. \A x \in {"tt", "th"} : TofPending(p, x)
  BY <1>9, <1>10, TofPendingPush
<1> HIDE DEF p
<1> QED BY <1>3, <1>4, <1>11, <1>12, <1>13 DEF Settled, A

\* The functions that change neither the triangle nor a layout.
Stills == CalmOps \ {"RealTriangleChanged", "TofTriangleChanged", "RealSet",
                     "TofSet", "RealMoved", "RealMovedFirst", "TofMoved",
                     "RealEmit", "TofEmit"}

LEMMA StillCalls ==
  \A f, A, O : f.op \in Stills => CalmFit(f, O) /\ GoodCall(f, A)
BY DEF Stills, CalmFit, GoodCall, Carries, Lifts, TofLifts

LEMMA SettledAgain ==
  ASSUME UNCHANGED <<tri, ds, sense>>, \A x \in Angles : real'[x] = real[x],
         \A x \in {"tt", "th"} : tof'[x] = tof[x],
         Told(todo', TriangleAngles, real, tof)
  PROVE Settled'
<1> DEFINE A == TriangleAngles
<1>1. A' = A BY SameAngles
<1> HIDE DEF A
<1>2. Told(todo', A, real, tof) BY DEF A
<1>3. (Settled <=> Told(todo, A, real, tof))' BY DEF Settled, Told, A
<1> QED BY <1>1, <1>2, <1>3 DEF Told

\* The call that is made, when it is none that changes a layout.
LEMMA SettledHead ==
  ASSUME Control, Settled, IsStack(Rest), todo = Push(Head(todo), Rest)
  PROVE /\ CalmFit(Head(todo), Ops(Rest))
           /\ GoodCall(Head(todo), TriangleAngles)
        /\ Calm(Rest) /\ Good(Rest, TriangleAngles)
        /\ ~Carries(Head(todo)) => Told(Rest, TriangleAngles, real, tof)
        /\ ready.tri /\ ready.real
<1> DEFINE h == Head(todo)
           A == TriangleAngles
<1>1. Told(Push(h, Rest), A, real, tof) BY SettledTold
<1>2. Flags /\ Calm(todo) BY DEF Control, Settled
<1>3. "LoadEnd" \notin Ops(todo) BY <1>2 DEF Calm, CalmFit, CalmOps, Ops
<1>4. ready.tri /\ ready.real BY <1>2, <1>3 DEF Flags
<1> HIDE DEF h, A
<1>5. /\ CalmFit(h, Ops(Rest)) /\ GoodCall(h, A) /\ Calm(Rest) /\ Good(Rest, A)
      /\ ~Carries(h) => Told(Rest, A, real, tof)
  BY <1>1, ToldPop
<1> QED BY <1>4, <1>5 DEF h, A

LEMMA StillSettled ==
  ASSUME Control, Settled, IsStack(Rest), todo = Push(Head(todo), Rest),
         \/ TriangleMoved \/ EmitAllParams \/ TasChangedEnd
         \/ RealTriangleChangedEnd \/ RealMovedEnd \/ RealEmitAllParams
         \/ TofTriangleChangedEnd \/ TofMovedEnd
         \/ RecipDialogs \/ ResoRecip \/ ResoReal \/ ResoPars \/ ResoSense
         \/ ResoUpdateOn
  PROVE Settled'
<1>1. IsStack(todo) /\ Typed(todo) /\ Flags BY DEF Control
<1> DEFINE h == Head(todo)
           A == TriangleAngles
           T(q) == IsStack(q) /\ Told(q, A, real, tof)
<1>2. h.op \in Stills
  BY DEF TriangleMoved, EmitAllParams, TasChangedEnd, RealTriangleChangedEnd,
         RealMovedEnd, RealEmitAllParams, TofTriangleChangedEnd, TofMovedEnd,
         RecipDialogs, ResoRecip, ResoReal, ResoPars, ResoSense, ResoUpdateOn,
         At, Stills, CalmOps
<1>3. Told(Rest, A, real, tof) /\ ready.tri /\ ready.real
  BY <1>2, SettledHead DEF Carries, Stills
<1>4. UNCHANGED <<tri, ds, sense, real, tof>>
  BY <1>1, TriangleMovedEffect, EmitAllParamsEffect, TasChangedEndEffect,
     RealTriangleChangedEndEffect, RealMovedEndEffect, RealEmitAllParamsEffect,
     TofTriangleChangedEndEffect, TofMovedEndEffect, RecipDialogsEffect,
     ResoRecipEffect, ResoRealEffect, ResoParsEffect, ResoSenseEffect,
     ResoUpdateOnEffect
<1> HIDE DEF A
<1>5. T(Rest) BY <1>3
<1>6. \A f, q : T(q) /\ f.op \in Stills => T(Push(f, q))
  BY StillCalls, ToldPush
<1> HIDE DEF T
<1>7. T(todo')
  <2>1. CASE TriangleMoved
    BY <1>1, <1>3, <1>5, <1>6, <2>1, TriangleMovedEffect, Calling DEF Stills,
      CalmOps
  <2>2. CASE EmitAllParams
    BY <1>1, <1>3, <1>5, <1>6, <2>2, EmitAllParamsEffect, Calling DEF Stills,
      CalmOps
  <2>3. CASE TasChangedEnd BY <1>1, <1>5, <2>3, TasChangedEndEffect
  <2>4. CASE RealTriangleChangedEnd
    BY <1>1, <1>5, <2>4, RealTriangleChangedEndEffect
  <2>5. CASE RealMovedEnd
    BY <1>1, <1>5, <1>6, <2>5, RealMovedEndEffect, Calling DEF Stills, CalmOps
  <2>6. CASE RealEmitAllParams
    BY <1>1, <1>5, <1>6, <2>6, RealEmitAllParamsEffect, Calling DEF Stills,
      CalmOps
  <2>7. CASE TofTriangleChangedEnd
    BY <1>1, <1>5, <2>7, TofTriangleChangedEndEffect
  <2>8. CASE TofMovedEnd BY <1>1, <1>5, <2>8, TofMovedEndEffect
  <2>9. CASE RecipDialogs
    BY <1>1, <1>5, <1>6, <2>9, RecipDialogsEffect, Calling DEF Stills, CalmOps
  <2>10. CASE ResoRecip \/ ResoReal \/ ResoPars \/ ResoSense \/ ResoUpdateOn
    BY <1>1, <1>5, <2>10, ResoRecipEffect, ResoRealEffect, ResoParsEffect,
       ResoSenseEffect, ResoUpdateOnEffect
  <2> QED
    BY <2>1, <2>2, <2>3, <2>4, <2>5, <2>6, <2>7, <2>8, <2>9, <2>10
<1>8. Told(todo', A, real, tof) BY <1>7 DEF T
<1> QED BY <1>4, <1>8, SettledAgain DEF A

LEMMA EmitUpdateSettled ==
  ASSUME Control, Settled, EmitUpdate, IsStack(Rest),
    todo = Push(Head(todo), Rest)
  PROVE Settled'
<1>1. IsStack(todo) /\ DataType BY DEF Control
<1> DEFINE h == Head(todo)
           A == TriangleAngles
           f == CallWith("RealTriangleChanged", A)
           g == CallWith("TofTriangleChanged", A)
<1>2. h.op = "EmitUpdate" BY <1>1, EmitUpdateEffect
<1>3. Told(Rest, A, real, tof) BY <1>2, SettledHead DEF Carries
<1>4. UNCHANGED <<tri, ds, sense, real, tof>> BY <1>1, EmitUpdateEffect
<1>5. todo' = Push(f, Push(g, Rest)) \/ todo' = Rest BY <1>1, EmitUpdateEffect
<1>6. /\ f.op = "RealTriangleChanged" /\ f.arg = A
      /\ g.op = "TofTriangleChanged" /\ g.arg = A
  BY Calling
<1> HIDE DEF A, f, g, h
<1>7. \A O : CalmFit(f, O) /\ GoodCall(f, A) /\ CalmFit(g, O) /\ GoodCall(g, A)
  BY <1>6, LikeSelf DEF GoodCall, CalmFit, CalmOps, Lifts, TofLifts
<1>8. IsStack(Push(g, Rest)) /\ Told(Push(g, Rest), A, real, tof)
  BY <1>3, <1>7, ToldPush
<1>9. Told(Push(f, Push(g, Rest)), A, real, tof) BY <1>7, <1>8, ToldPush
<1>10. Told(todo', A, real, tof) BY <1>3, <1>5, <1>9
<1> QED BY <1>4, <1>10, SettledAgain DEF A

LEMMA KiQSettled ==
  ASSUME Control, Settled, RealAngleKiQ \/ TofAngleKiQ,
         IsStack(Rest), todo = Push(Head(todo), Rest)
  PROVE Settled'
<1>1. IsStack(todo) /\ DataType BY DEF Control
<1> DEFINE h == Head(todo)
           A == TriangleAngles
           f == CallWith("RealMoved", "none")
           g == CallWith("TofMoved", "none")
<1>2. h.op \in {"RealAngleKiQ", "TofAngleKiQ"}
  BY <1>1, RealAngleKiQEffect, TofAngleKiQEffect
<1>3. Told(Rest, A, real, tof) BY <1>2, SettledHead DEF Carries
<1>4. /\ UNCHANGED <<tri, ds, sense>>
      /\ \A x \in Angles : real'[x] = real[x]
      /\ \A x \in {"tt", "th"} : tof'[x] = tof[x]
  BY <1>1, RealAngleKiQEffect, TofAngleKiQEffect DEF DataType, Angles
<1>5. todo' = Push(f, Rest) \/ todo' = Push(g, Rest)
  BY <1>1, RealAngleKiQEffect, TofAngleKiQEffect
<1>6. f.op = "RealMoved" /\ f.arg = "none" /\ g.op = "TofMoved"
      /\ g.arg = "none"
  BY Calling
<1> HIDE DEF A, f, g, h
<1>7. \A O : CalmFit(f, O) /\ GoodCall(f, A) /\ CalmFit(g, O) /\ GoodCall(g, A)
  BY <1>6 DEF GoodCall, Carries, CalmFit, CalmOps, Lifts, TofLifts
<1>8. Told(todo', A, real, tof) BY <1>3, <1>5, <1>7, ToldPush
<1> QED BY <1>4, <1>8, SettledAgain DEF A

LEMMA MovedSettled ==
  ASSUME Control, Settled, RealMoved \/ RealEmit \/ TofMoved \/ TofEmit,
         IsStack(Rest), todo = Push(Head(todo), Rest)
  PROVE Settled'
<1>1. IsStack(todo) /\ DataType /\ Flags BY DEF Control
<1> DEFINE h == Head(todo)
           A == TriangleAngles
           O == Ops(Rest)
<1>2. h.op \in {"RealMoved", "RealMovedFirst", "RealEmit", "TofMoved",
      "TofEmit"}
  BY <1>1, RealMovedEffect, RealEmitEffect, TofMovedEffect, TofEmitEffect
<1>3. Told(Rest, A, real, tof) /\ CalmFit(h, O) /\ ready.real
  BY <1>2, SettledHead DEF Carries
<1>4. UNCHANGED <<tri, ds, sense, real, tof>>
  BY <1>1, RealMovedEffect, RealEmitEffect, TofMovedEffect, TofEmitEffect
<1>5. Ops(todo) = {h.op} \cup O BY PushOps
<1>6. Told(todo', A, real, tof)
  <2>1. CASE RealMoved
    <3> DEFINE e == CallWith("RealMovedEnd", At("RealMoved"))
               p == Push(e, Rest)
    <3>1. CASE busy.real BY <1>1, <1>3, <2>1, <3>1, RealMovedEffect
    <3>2. CASE ~busy.real
      <4>1. e.op = "RealMovedEnd" BY Calling
      <4>2. IsStack(p) /\ Told(p, A, real, tof)
            /\ Ops(p) = {"RealMovedEnd"} \cup O
        <5> HIDE DEF e, A
        <5>1. e.op \in Stills BY <4>1 DEF Stills, CalmOps
        <5> QED BY <1>3, <4>1, <5>1, StillCalls, ToldPush, PushOps
      <4>3. \/ Arg \notin {"sample", "ana", "det"} /\ todo' = p
            \/ \E x \in {"mono", "tt", "ana"} :
                 /\ Arg = Mover[x]
                 /\ todo' = Push(CallWith("RealEmit", Only(x, real[x])), p)
        BY <1>1, <1>3, <2>1, <3>2, RealMovedCases
      <4> HIDE DEF p
      <4>4. CASE todo' = p BY <4>2, <4>4
      <4>5. ASSUME NEW x \in {"mono", "tt", "ana"}, Arg = Mover[x],
                   todo' = Push(CallWith("RealEmit", Only(x, real[x])), p)
            PROVE Told(todo', A, real, tof)
        <5> DEFINE f == CallWith("RealEmit", Only(x, real[x]))
        <5>1. f.op = "RealEmit" BY Calling
        <5>2. h.op \in {"RealMoved", "RealMovedFirst"}
              /\ h.arg \in {"sample", "ana", "det"}
          BY <1>1, <2>1, <4>5, RealMovedEffect DEF Mover, Arg
        <5>3. "RealTriangleChangedEnd" \in O BY <1>3, <5>2 DEF CalmFit, Lifts
        <5>4. todo' = Push(f, p) BY <4>5
        <5> HIDE DEF f, A
        <5>5. CalmFit(f, Ops(p)) /\ GoodCall(f, A)
          BY <4>2, <5>1, <5>3
             DEF CalmFit, CalmOps, Lifts, TofLifts, GoodCall, Carries
        <5> QED BY <4>2, <5>4, <5>5, ToldPush
      <4> QED BY <4>3, <4>4, <4>5
    <3> QED BY <3>1, <3>2
  <2>2. CASE RealEmit
    <3>1. h.op = "RealEmit" BY <1>1, <2>2, RealEmitEffect
    <3>2. "RealTriangleChangedEnd" \in O BY <1>3, <3>1 DEF CalmFit, Lifts
    <3>3. dont.real BY <1>1, <1>5, <3>2 DEF Flags
    <3> QED BY <1>1, <1>3, <2>2, <3>3, RealEmitEffect
  <2>3. CASE TofMoved
    <3> DEFINE e == CallOf("TofMovedEnd")
               p == Push(e, Rest)
               f == CallWith("TofEmit", Only("tt", tof.tt))
    <3>1. e.op = "TofMovedEnd" /\ f.op = "TofEmit" BY Calling
    <3>2. \/ todo' = Rest \/ todo' = p
          \/ todo' = Push(f, p) /\ h.op = "TofMoved"
               /\ h.arg \in {"sample", "det"}
      BY <1>1, <2>3, TofMovedEffect DEF Arg
    <3> HIDE DEF e, f, A, h
    <3>3. IsStack(p) /\ Told(p, A, real, tof)
          /\ Ops(p) = {"TofMovedEnd"} \cup O
      <4>1. e.op \in Stills BY <3>1 DEF Stills, CalmOps
      <4> QED BY <1>3, <3>1, <4>1, StillCalls, ToldPush, PushOps
    <3> HIDE DEF p
    <3>4. CASE todo' = Push(f, p) /\ h.op = "TofMoved"
          /\ h.arg \in {"sample", "det"}
      <4>1. "TofTriangleChangedEnd" \in O BY <1>3, <3>4 DEF CalmFit, TofLifts
      <4>2. CalmFit(f, Ops(p)) /\ GoodCall(f, A)
        BY <3>1, <3>3, <4>1
           DEF CalmFit, CalmOps, Lifts, TofLifts, GoodCall, Carries
      <4> QED BY <3>3, <3>4, <4>2, ToldPush
    <3> QED BY <1>3, <3>2, <3>3, <3>4
  <2>4. CASE TofEmit
    <3>1. h.op = "TofEmit" BY <1>1, <2>4, TofEmitEffect
    <3>2. "TofTriangleChangedEnd" \in O BY <1>3, <3>1 DEF CalmFit, TofLifts
    <3>3. dont.tof BY <1>1, <1>5, <3>2 DEF Flags
    <3> QED BY <1>1, <1>3, <2>4, <3>3, TofEmitEffect
  <2> QED BY <2>1, <2>2, <2>3, <2>4
<1> QED BY <1>4, <1>6, SettledAgain

\* Told, but for the angles in X and Y.
Near(q, A, r, t, X, Y) ==
  /\ Calm(q) /\ Good(q, A)
  /\ \A x \in Angles \ X : Like(x, r[x], A[x]) \/ RealPending(q, x)
  /\ \A x \in {"tt", "th"} \ Y : t[x] = A[x] \/ TofPending(q, x)

LEMMA NearPop ==
  \A f, q, A, r, t :
    IsStack(q) /\ Told(Push(f, q), A, r, t) =>
    /\ f.op \in {"RealTriangleChanged", "RealSet"} =>
         Near(q, A, r, t, DOMAIN f.arg, {})
    /\ f.op \in {"TofTriangleChanged", "TofSet"} =>
         Near(q, A, r, t, {}, DOMAIN f.arg)
<1> SUFFICES ASSUME NEW f, NEW q, NEW A, NEW r, NEW t, IsStack(q),
                    Told(Push(f, q), A, r, t)
             PROVE /\ f.op \in {"RealTriangleChanged", "RealSet"} =>
                        Near(q, A, r, t, DOMAIN f.arg, {})
                   /\ f.op \in {"TofTriangleChanged", "TofSet"} =>
                        Near(q, A, r, t, {}, DOMAIN f.arg)
  OBVIOUS
<1> DEFINE p == Push(f, q)
<1>1. Calm(q) /\ Good(q, A) BY ToldPop
<1>2. /\ \A x \in Angles : Like(x, r[x], A[x]) \/ RealPending(p, x)
      /\ \A x \in {"tt", "th"} : t[x] = A[x] \/ TofPending(p, x)
  BY DEF Told
<1>3. /\ \A x : RealPending(p, x) =>
             \/ f.op \in {"RealTriangleChanged", "RealSet"}
                  /\ x \in DOMAIN f.arg
             \/ RealPending(q, x)
      /\ \A x : TofPending(p, x) =>
             \/ f.op \in {"TofTriangleChanged", "TofSet"} /\ x \in DOMAIN f.arg
             \/ TofPending(q, x)
  BY RealPendingPush, TofPendingPush
<1> HIDE DEF p
<1> QED BY <1>1, <1>2, <1>3 DEF Near

LEMMA NearPush ==
  \A f, q, A, r, t, X, Y :
    IsStack(q) /\ Near(q, A, r, t, X, Y) /\ CalmFit(f, Ops(q))
      /\ GoodCall(f, A) =>
    IsStack(Push(f, q)) /\ Near(Push(f, q), A, r, t, X, Y)
<1> SUFFICES ASSUME NEW f, NEW q, NEW A, NEW r, NEW t, NEW X, NEW Y,
       IsStack(q),
                    Near(q, A, r, t, X, Y), CalmFit(f, Ops(q)), GoodCall(f, A)
             PROVE IsStack(Push(f, q)) /\ Near(Push(f, q), A, r, t, X, Y)
  OBVIOUS
<1> DEFINE p == Push(f, q)
<1>1. IsStack(p) BY StackPush
<1>2. Calm(p) BY CalmPush DEF Near
<1>3. Good(p, A) BY GoodPush DEF Near
<1>4. \A x : RealPending(q, x) => RealPending(p, x) BY RealPendingPush
<1>5. \A x : TofPending(q, x) => TofPending(p, x) BY TofPendingPush
<1> HIDE DEF p
<1>6. Near(p, A, r, t, X, Y) BY <1>2, <1>3, <1>4, <1>5 DEF Near
<1> QED BY <1>1, <1>6 DEF p

\* The setters of the layouts, one after the other.
RealGoes(q, A, r, t, a, X) ==
  /\ IsStack(q) /\ Near(q, A, r, t, X, {})
       /\ "RealTriangleChangedEnd" \in Ops(q)
  /\ X \subseteq DOMAIN a

LEMMA RealSetting ==
  \A q, A, r, t, a, X, x :
    /\ RealGoes(q, A, r, t, a, X) /\ x \in Angles
    /\ (x \in DOMAIN a => Like(x, a[x], A[x]))
    => RealGoes(Setting("RealSet", x, a, q), A, r, t, a, X \ {x})
<1> SUFFICES ASSUME NEW q, NEW A, NEW r, NEW t, NEW a, NEW X, NEW x,
                    RealGoes(q, A, r, t, a, X), x \in Angles,
                    x \in DOMAIN a => Like(x, a[x], A[x])
             PROVE RealGoes(Setting("RealSet", x, a, q), A, r, t, a, X \ {x})
  OBVIOUS
<1>1. /\ IsStack(q) /\ Near(q, A, r, t, X, {})
      /\ "RealTriangleChangedEnd" \in Ops(q) /\ X \subseteq DOMAIN a
  BY DEF RealGoes
<1>2. CASE x \notin DOMAIN a
  <2>1. X \ {x} = X BY <1>1, <1>2
  <2>2. Setting("RealSet", x, a, q) = q BY <1>2 DEF Setting
  <2> QED BY <2>1, <2>2
<1>3. CASE x \in DOMAIN a
  <2> DEFINE v == a[x]
             f == CallWith("RealSet", Only(x, v))
             p == Push(f, q)
  <2>1. f.op = "RealSet" /\ f.arg = Only(x, v) BY Calling
  <2>2. Setting("RealSet", x, a, q) = p BY <1>3 DEF Setting
  <2>3. Like(x, v, A[x]) BY <1>3
  <2> HIDE DEF f, v
  <2>4. DOMAIN f.arg = {x} /\ f.arg[x] = v BY <2>1, OnlyIs
  <2>5. CalmFit(f, Ops(q))
    BY <1>1, <2>1 DEF CalmFit, CalmOps, Lifts, TofLifts
  <2>6. GoodCall(f, A) BY <2>3, <2>4 DEF GoodCall
  <2>7. IsStack(p) /\ Near(p, A, r, t, X, {}) BY <1>1, <2>5, <2>6, NearPush
  <2>8. RealPending(p, x) BY <1>1, <2>1, <2>4, RealPendingPush
  <2>9. Ops(p) = {"RealSet"} \cup Ops(q) BY <1>1, <2>1, PushOps
  <2> HIDE DEF p
  <2>10. Near(p, A, r, t, X \ {x}, {}) BY <2>7, <2>8 DEF Near
  <2> QED BY <1>1, <2>2, <2>7, <2>9, <2>10 DEF RealGoes
<1> QED BY <1>2, <1>3

TofGoes(q, A, r, t, a, X) ==
  /\ IsStack(q) /\ Near(q, A, r, t, {}, X)
       /\ "TofTriangleChangedEnd" \in Ops(q)
  /\ X \subseteq DOMAIN a

LEMMA TofSetting ==
  \A q, A, r, t, a, X, x :
    /\ TofGoes(q, A, r, t, a, X) /\ x \in {"tt", "th"}
    /\ (x \in DOMAIN a => Like(x, a[x], A[x]))
    => TofGoes(Setting("TofSet", x, a, q), A, r, t, a, X \ {x})
<1> SUFFICES ASSUME NEW q, NEW A, NEW r, NEW t, NEW a, NEW X, NEW x,
                    TofGoes(q, A, r, t, a, X), x \in {"tt", "th"},
                    x \in DOMAIN a => Like(x, a[x], A[x])
             PROVE TofGoes(Setting("TofSet", x, a, q), A, r, t, a, X \ {x})
  OBVIOUS
<1>1. /\ IsStack(q) /\ Near(q, A, r, t, {}, X)
      /\ "TofTriangleChangedEnd" \in Ops(q) /\ X \subseteq DOMAIN a
  BY DEF TofGoes
<1>2. CASE x \notin DOMAIN a
  <2>1. X \ {x} = X BY <1>1, <1>2
  <2>2. Setting("TofSet", x, a, q) = q BY <1>2 DEF Setting
  <2> QED BY <2>1, <2>2
<1>3. CASE x \in DOMAIN a
  <2> DEFINE v == a[x]
             f == CallWith("TofSet", Only(x, v))
             p == Push(f, q)
  <2>1. f.op = "TofSet" /\ f.arg = Only(x, v) BY Calling
  <2>2. Setting("TofSet", x, a, q) = p BY <1>3 DEF Setting
  <2>3. Like(x, v, A[x]) BY <1>3
  <2> HIDE DEF f, v
  <2>4. DOMAIN f.arg = {x} /\ f.arg[x] = v BY <2>1, OnlyIs
  <2>5. CalmFit(f, Ops(q))
    BY <1>1, <2>1 DEF CalmFit, CalmOps, Lifts, TofLifts
  <2>6. GoodCall(f, A) BY <2>3, <2>4 DEF GoodCall
  <2>7. IsStack(p) /\ Near(p, A, r, t, {}, X) BY <1>1, <2>5, <2>6, NearPush
  <2>8. TofPending(p, x) BY <1>1, <2>1, <2>4, TofPendingPush
  <2>9. Ops(p) = {"TofSet"} \cup Ops(q) BY <1>1, <2>1, PushOps
  <2> HIDE DEF p
  <2>10. Near(p, A, r, t, {}, X \ {x}) BY <2>7, <2>8 DEF Near
  <2> QED BY <1>1, <2>2, <2>7, <2>9, <2>10 DEF TofGoes
<1> QED BY <1>2, <1>3

LEMMA SettledNow ==
  ASSUME UNCHANGED <<tri, ds, sense>>, Told(todo', TriangleAngles, real', tof')
  PROVE Settled'
<1> DEFINE A == TriangleAngles
<1>1. A' = A BY SameAngles
<1> HIDE DEF A
<1>2. Told(todo', A, real', tof') BY DEF A
<1>3. (Settled <=> Told(todo, A, real, tof))' BY DEF Settled, Told, A
<1> QED BY <1>1, <1>2, <1>3 DEF Told

LEMMA RealTriangleChangedSettled ==
  ASSUME Control, Settled, RealTriangleChanged,
         IsStack(Rest), todo = Push(Head(todo), Rest)
  PROVE Settled'
<1>1. IsStack(todo) /\ Typed(todo) BY DEF Control
<1> DEFINE h == Head(todo)
           A == TriangleAngles
           e == CallOf("RealTriangleChangedEnd")
           p == Push(e, Rest)
<1>2. h.op = "RealTriangleChanged" BY <1>1, RealTriangleChangedEffect
<1>3. GoodCall(h, A) /\ ready.real BY SettledHead
<1>4. Told(Push(h, Rest), A, real, tof) BY SettledTold
<1>5. Near(Rest, A, real, tof, DOMAIN h.arg, {}) BY <1>2, <1>4, NearPop
<1>6. UNCHANGED <<tri, ds, sense, real, tof>>
      BY <1>1, RealTriangleChangedEffect
<1>7. e.op = "RealTriangleChangedEnd" BY Calling
<1> DEFINE a == Arg
           q1 == Setting("RealSet", "tt", a, p)
           q2 == Setting("RealSet", "th", a, q1)
           q3 == Setting("RealSet", "ana", a, q2)
           q4 == Setting("RealSet", "mono", a, q3)
           X == DOMAIN a
<1>8. todo' = q4 BY <1>1, <1>3, RealTriangleChangedEffect
<1>9. a = h.arg BY DEF Arg
<1> HIDE DEF e, A, h, a
<1>10. \A x \in Angles : x \in DOMAIN a => Like(x, a[x], A[x])
  BY <1>2, <1>3, <1>9 DEF GoodCall, Carries, Angles
<1>11. RealGoes(p, A, real, tof, a, X)
  <2>1. CalmFit(e, Ops(Rest)) /\ GoodCall(e, A)
    BY <1>7 DEF CalmFit, CalmOps, Lifts, TofLifts, GoodCall, Carries
  <2>2. Near(Rest, A, real, tof, X, {}) BY <1>5, <1>9
  <2>3. IsStack(p) /\ Near(p, A, real, tof, X, {}) BY <2>1, <2>2, NearPush
  <2>4. "RealTriangleChangedEnd" \in Ops(p) BY <1>7, PushOps
  <2> QED BY <2>3, <2>4 DEF RealGoes
<1> HIDE DEF p, X
<1>13. RealGoes(q1, A, real, tof, a, X \ {"tt"})
  BY <1>10, <1>11, RealSetting DEF Angles
<1> HIDE DEF q1
<1>14. RealGoes(q2, A, real, tof, a, (X \ {"tt"}) \ {"th"})
  BY <1>10, <1>13, RealSetting DEF Angles
<1> HIDE DEF q2
<1>15. RealGoes(q3, A, real, tof, a, ((X \ {"tt"}) \ {"th"}) \ {"ana"})
  BY <1>10, <1>14, RealSetting DEF Angles
<1> HIDE DEF q3
<1>16. RealGoes(q4, A, real, tof, a,
       (((X \ {"tt"}) \ {"th"}) \ {"ana"}) \ {"mono"})
  BY <1>10, <1>15, RealSetting DEF Angles
<1> HIDE DEF q4
<1>17. Told(q4, A, real, tof) BY <1>16 DEF RealGoes, Near, Told, Angles
<1> QED BY <1>6, <1>8, <1>17, SettledNow DEF A

LEMMA TofTriangleChangedSettled ==
  ASSUME Control, Settled, TofTriangleChanged,
         IsStack(Rest), todo = Push(Head(todo), Rest)
  PROVE Settled'
<1>1. IsStack(todo) /\ Typed(todo) BY DEF Control
<1> DEFINE h == Head(todo)
           A == TriangleAngles
           e == CallOf("TofTriangleChangedEnd")
           p == Push(e, Rest)
<1>2. h.op = "TofTriangleChanged" BY <1>1, TofTriangleChangedEffect
<1>3. GoodCall(h, A) BY SettledHead
<1>4. Told(Push(h, Rest), A, real, tof) BY SettledTold
<1>5. Near(Rest, A, real, tof, {}, DOMAIN h.arg) BY <1>2, <1>4, NearPop
<1>6. UNCHANGED <<tri, ds, sense, real, tof>> BY <1>1, TofTriangleChangedEffect
<1>7. e.op = "TofTriangleChangedEnd" BY Calling
<1> DEFINE a == Arg
           q1 == Setting("TofSet", "tt", a, p)
           q2 == Setting("TofSet", "th", a, q1)
           Y == DOMAIN a
<1>8. todo' = q2 BY <1>1, <1>3, TofTriangleChangedEffect
<1>9. a = h.arg BY DEF Arg
<1> HIDE DEF e, A, h, a
<1>10. \A x \in {"tt", "th"} : x \in DOMAIN a => Like(x, a[x], A[x])
  BY <1>2, <1>3, <1>9 DEF GoodCall, Carries
<1>11. TofGoes(p, A, real, tof, a, Y)
  <2>1. CalmFit(e, Ops(Rest)) /\ GoodCall(e, A)
    BY <1>7 DEF CalmFit, CalmOps, Lifts, TofLifts, GoodCall, Carries
  <2>2. Near(Rest, A, real, tof, {}, Y) BY <1>5, <1>9
  <2>3. IsStack(p) /\ Near(p, A, real, tof, {}, Y) BY <2>1, <2>2, NearPush
  <2>4. "TofTriangleChangedEnd" \in Ops(p) BY <1>7, PushOps
  <2> QED BY <2>3, <2>4 DEF TofGoes
<1> HIDE DEF p, Y
<1>13. TofGoes(q1, A, real, tof, a, Y \ {"tt"})
  BY <1>10, <1>11, TofSetting
<1> HIDE DEF q1
<1>14. TofGoes(q2, A, real, tof, a, (Y \ {"tt"}) \ {"th"})
  BY <1>10, <1>13, TofSetting
<1> HIDE DEF q2
<1>15. Told(q2, A, real, tof) BY <1>14 DEF TofGoes, Near, Told
<1> QED BY <1>6, <1>8, <1>15, SettledNow DEF A

LEMMA RealSetSettled ==
  ASSUME Control, Settled, RealSet,
         IsStack(Rest), todo = Push(Head(todo), Rest)
  PROVE Settled'
<1>1. IsStack(todo) /\ Typed(todo) /\ DataType BY DEF Control
<1> DEFINE h == Head(todo)
           A == TriangleAngles
           O == Ops(Rest)
<1>2. h.op = "RealSet" BY <1>1, RealSetEffect
<1>3. GoodCall(h, A) /\ CalmFit(h, O) BY SettledHead
<1>4. Told(Push(h, Rest), A, real, tof) BY SettledTold
<1>5. Near(Rest, A, real, tof, DOMAIN h.arg, {}) BY <1>2, <1>4, NearPop
<1>6. UNCHANGED <<tri, ds, sense, tof>> BY <1>1, RealSetEffect
<1>7. PICK x \in Angles, v \in SignedAngles \cup Turns :
        /\ Arg = Only(x, v) /\ real' = [real EXCEPT ![x] = v]
        /\ x = "tt" => todo' = Push(CallWith("RealMovedFirst", "sample"),
                                    Push(CallWith("RealMoved", "ana"), Rest))
        /\ x # "tt" => \E s \in {"mono", "ana", "none"} :
             todo' = Push(CallWith("RealMoved", s), Rest)
  BY <1>1, RealSetEffect
<1>8. "RealTriangleChangedEnd" \in O BY <1>2, <1>3 DEF CalmFit
<1>9. h.arg = Only(x, v) BY <1>7 DEF Arg
<1> HIDE DEF A, h
<1>10. DOMAIN h.arg = {x} /\ Like(x, v, A[x])
  <2>1. DOMAIN h.arg = {x} /\ h.arg[x] = v BY <1>9, OnlyIs
  <2>2. x # "kivec" BY <1>7 DEF Angles
  <2> QED BY <1>2, <1>3, <2>1, <2>2 DEF GoodCall, Carries
<1>11. Told(Rest, A, real', tof)
  <2>1. /\ Like(x, real'[x], A[x])
        /\ \A y \in Angles \ {x} : real'[y] = real[y]
    BY <1>1, <1>7, <1>10 DEF DataType
  <2> QED BY <1>5, <1>10, <2>1 DEF Near, Told
<1>12. \A s : LET f == CallWith("RealMoved", s)
                  g == CallWith("RealMovedFirst", s)
              IN  /\ GoodCall(f, A) /\ GoodCall(g, A)
                  /\ \A P : O \subseteq P => CalmFit(f, P) /\ CalmFit(g, P)
  BY <1>8, Calling DEF GoodCall, Carries, CalmFit, CalmOps, Lifts, TofLifts
<1>13. \A s : LET p == Push(CallWith("RealMoved", s), Rest) IN
         IsStack(p) /\ Told(p, A, real', tof) /\ O \subseteq Ops(p)
  BY <1>11, <1>12, ToldPush, PushOps
<1>14. Told(todo', A, real', tof)
  <2>1. CASE x # "tt" BY <1>7, <1>13, <2>1
  <2>2. CASE x = "tt"
    <3> DEFINE p == Push(CallWith("RealMoved", "ana"), Rest)
               f == CallWith("RealMovedFirst", "sample")
    <3>1. IsStack(p) /\ Told(p, A, real', tof) /\ O \subseteq Ops(p) BY <1>13
    <3>2. todo' = Push(f, p) BY <1>7, <2>2
    <3> HIDE DEF p
    <3>3. GoodCall(f, A) /\ CalmFit(f, Ops(p)) BY <1>12, <3>1
    <3> HIDE DEF f
    <3> QED BY <3>1, <3>2, <3>3, ToldPush
  <2> QED BY <2>1, <2>2
<1> QED BY <1>6, <1>14, SettledNow DEF A

LEMMA TofSetSettled ==
  ASSUME Control, Settled, TofSet,
         IsStack(Rest), todo = Push(Head(todo), Rest)
  PROVE Settled'
<1>1. IsStack(todo) /\ Typed(todo) /\ DataType BY DEF Control
<1> DEFINE h == Head(todo)
           A == TriangleAngles
           O == Ops(Rest)
<1>2. h.op = "TofSet" BY <1>1, TofSetEffect
<1>3. GoodCall(h, A) /\ CalmFit(h, O) BY SettledHead
<1>4. Told(Push(h, Rest), A, real, tof) BY SettledTold
<1>5. Near(Rest, A, real, tof, {}, DOMAIN h.arg) BY <1>2, <1>4, NearPop
<1>6. UNCHANGED <<tri, ds, sense, real>> BY <1>1, TofSetEffect
<1>7. PICK x \in {"tt", "th"}, v \in Turns :
        /\ Arg = Only(x, v) /\ tof' = [tof EXCEPT ![x] = v]
        /\ \/ todo' = Push(CallWith("TofMoved", "sample"),
                          Push(CallWith("TofMoved", "det"), Rest))
           \/ todo' = Push(CallWith("TofMoved", "none"), Rest)
  BY <1>1, TofSetEffect
<1>8. "TofTriangleChangedEnd" \in O BY <1>2, <1>3 DEF CalmFit
<1>9. h.arg = Only(x, v) BY <1>7 DEF Arg
<1> HIDE DEF A, h
<1>10. DOMAIN h.arg = {x} /\ v = A[x]
  <2>1. DOMAIN h.arg = {x} /\ h.arg[x] = v BY <1>9, OnlyIs
  <2>2. x # "kivec" /\ x \notin Crystals BY <1>7 DEF Crystals
  <2> QED BY <1>2, <1>3, <2>1, <2>2 DEF GoodCall, Carries, Like
<1>11. Told(Rest, A, real, tof')
  <2>1. /\ tof'[x] = A[x]
        /\ \A y \in {"tt", "th"} \ {x} : tof'[y] = tof[y]
    BY <1>1, <1>7, <1>10 DEF DataType
  <2> QED BY <1>5, <1>10, <2>1 DEF Near, Told
<1>12. \A s : LET f == CallWith("TofMoved", s)
              IN  /\ GoodCall(f, A) /\ f.op = "TofMoved"
                  /\ \A P : O \subseteq P => CalmFit(f, P)
  BY <1>8, Calling DEF GoodCall, Carries, CalmFit, CalmOps, Lifts, TofLifts
<1>13. \A s, q : IsStack(q) /\ Told(q, A, real, tof') /\ O \subseteq Ops(q) =>
         LET p == Push(CallWith("TofMoved", s), q) IN
         IsStack(p) /\ Told(p, A, real, tof') /\ O \subseteq Ops(p)
  BY <1>12, ToldPush, PushOps
<1>14. Told(todo', A, real, tof') BY <1>7, <1>11, <1>13
<1> QED BY <1>6, <1>14, SettledNow DEF A

\* Whatever is called, the layouts stay as Settled has them.
LEMMA SettledRun ==
  ASSUME Control, Settled, Run, IsStack(Rest), todo = Push(Head(todo), Rest)
  PROVE Settled'
<1>1. Head(todo).op \in CalmOps BY SettledHead DEF CalmFit
<1>2. ~(TasChanged \/ Set \/ ResoLoad \/ MainWindow)
  BY <1>1 DEF TasChanged, Set, ResoLoad, MainWindow, UpdateDs, SetSense,
    CalcPeaks,
              SnapToPeak, LoadEnd, At, CalmOps
<1>3. CASE TriangleMoved \/ EmitAllParams \/ TasChangedEnd
  BY <1>3, StillSettled
<1>4. CASE EmitUpdate BY <1>4, EmitUpdateSettled
<1>5. CASE RealLayout
  BY <1>5, StillSettled, RealTriangleChangedSettled, RealSetSettled,
    KiQSettled,
     MovedSettled
     DEF RealLayout
<1>6. CASE TofLayout
  BY <1>6, StillSettled, TofTriangleChangedSettled, TofSetSettled, KiQSettled,
     MovedSettled
     DEF TofLayout
<1>7. CASE Dialogs BY <1>2, <1>7, StillSettled DEF Dialogs
<1> QED BY <1>2, <1>3, <1>4, <1>5, <1>6, <1>7 DEF Run

\* The call on top decides which step is taken.
LEMMA HeadActs ==
  ASSUME Run
  PROVE /\ At("RealMoved") => RealMoved
        /\ At("RealEmit") => RealEmit
        /\ At("TofMoved") => TofMoved
        /\ At("TofEmit") => TofEmit
        /\ At("TasChanged") => TasChanged
        /\ At("Set") => Set
BY DEF Run, RealLayout, TofLayout, Dialogs, MainWindow, At,
       TriangleMoved, EmitUpdate, EmitAllParams, TasChanged, TasChangedEnd,
         Set,
       RealTriangleChanged, RealTriangleChangedEnd, RealSet, RealAngleKiQ,
       RealMoved, RealMovedEnd, RealEmit, RealEmitAllParams,
       TofTriangleChanged, TofTriangleChangedEnd, TofSet, TofAngleKiQ,
       TofMoved, TofMovedEnd, TofEmit, RecipDialogs, ResoRecip, ResoReal,
       ResoPars, ResoSense, ResoLoad, ResoUpdateOn, UpdateDs, SetSense,
       CalcPeaks, SnapToPeak, LoadEnd

\* The setters of a single angle.
LEMMA OneSetter ==
  ASSUME NEW x \in {"mono", "ana", "tt"}, NEW v, NEW q, IsStack(q),
         NEW a, a = Only(x, v)
  PROVE Setting("Set", "mono", a,
         Setting("Set", "ana", a, Setting("Set", "tt", a,
          Setting("Set", "kivec", a, q))))
        = Push(CallWith("Set", Only(x, v)), q)
<1>1. DOMAIN a = {x} /\ a[x] = v BY OnlyIs
<1>2. CASE x = "mono" BY <1>1, <1>2 DEF Setting
<1>3. CASE x = "ana" BY <1>1, <1>3 DEF Setting
<1>4. CASE x = "tt" BY <1>1, <1>4 DEF Setting
<1> QED BY <1>2, <1>3, <1>4

\* The setter of an angle gives the triangle this angle, and no other.
LEMMA SetAngle ==
  ASSUME DataType, NEW x \in {"mono", "ana", "tt"}, NEW v,
    v \in AngleValues(x),
         tri' = SetTri(x, v), UNCHANGED <<ds, sense>>
  PROVE /\ Like(x, v, TriangleAngles'[x])
        /\ \A y \in Angles \ {x} : TriangleAngles'[y] = TriangleAngles[y]
<1>1. /\ tri \in [ki : Waves, kf : Waves, tt : Turns, th : Turns]
      /\ ds.mono \in Spacings /\ ds.ana \in Spacings
      /\ sense.mono \in BOOLEAN /\ sense.ana \in BOOLEAN
           /\ sense.sample \in BOOLEAN
  BY DEF DataType
<1> DEFINE A == TriangleAngles
           B == TriangleAngles'
<1>2. /\ A.mono = Signed(BraggAngle(tri.ki, ds.mono), sense.mono)
      /\ A.ana = Signed(BraggAngle(tri.kf, ds.ana), sense.ana)
      /\ A.tt = Turn(tri.tt, sense.sample) /\ A.th = Turn(tri.th, sense.sample)
  BY DEF TriangleAngles
<1>3. /\ B.mono = Signed(BraggAngle(tri'.ki, ds.mono), sense.mono)
      /\ B.ana = Signed(BraggAngle(tri'.kf, ds.ana), sense.ana)
      /\ B.tt = Turn(tri'.tt, sense.sample)
           /\ B.th = Turn(tri'.th, sense.sample)
  BY DEF TriangleAngles
<1> HIDE DEF A, B
<1>4. CASE x = "mono"
  <2> DEFINE k == Wavenumber(Abs(v), ds.mono)
  <2>1. v \in SignedAngles BY <1>4 DEF AngleValues, Crystals
  <2>2. Abs(v) \in Magnitudes BY <2>1, AbsType
  <2>3. BraggAngle(k, ds.mono) = Abs(v) BY <1>1, <2>2, WavenumberOf
  <2>4. tri' = [tri EXCEPT !.ki = k] BY <1>4 DEF SetTri
  <2> HIDE DEF k
  <2>5. tri'.ki = k /\ tri'.kf = tri.kf /\ tri'.tt = tri.tt /\ tri'.th = tri.th
    BY <1>1, <2>4
  <2>6. Abs(B.mono) = Abs(v) BY <1>1, <1>3, <2>2, <2>3, <2>5, SignedAbs
  <2>7. B.ana = A.ana /\ B.tt = A.tt /\ B.th = A.th BY <1>2, <1>3, <2>5
  <2> QED BY <1>4, <2>6, <2>7 DEF A, B, Like, Angles, Crystals
<1>5. CASE x = "ana"
  <2> DEFINE k == Wavenumber(Abs(v), ds.ana)
  <2>1. v \in SignedAngles BY <1>5 DEF AngleValues, Crystals
  <2>2. Abs(v) \in Magnitudes BY <2>1, AbsType
  <2>3. BraggAngle(k, ds.ana) = Abs(v) BY <1>1, <2>2, WavenumberOf
  <2>4. tri' = [tri EXCEPT !.kf = k] BY <1>5 DEF SetTri
  <2> HIDE DEF k
  <2>5. tri'.kf = k /\ tri'.ki = tri.ki /\ tri'.tt = tri.tt /\ tri'.th = tri.th
    BY <1>1, <2>4
  <2>6. Abs(B.ana) = Abs(v) BY <1>1, <1>3, <2>2, <2>3, <2>5, SignedAbs
  <2>7. B.mono = A.mono /\ B.tt = A.tt /\ B.th = A.th BY <1>2, <1>3, <2>5
  <2> QED BY <1>5, <2>6, <2>7 DEF A, B, Like, Angles, Crystals
<1>6. CASE x = "tt"
  <2> DEFINE t == Turn(v, sense.sample)
  <2>1. v \in Turns BY <1>6 DEF AngleValues, Crystals
  <2>2. Turn(t, sense.sample) = v BY <1>1, <2>1, TurnTwice
  <2>3. tri' = [tri EXCEPT !.tt = t] BY <1>6 DEF SetTri
  <2> HIDE DEF t
  <2>4. tri'.tt = t /\ tri'.ki = tri.ki /\ tri'.kf = tri.kf /\ tri'.th = tri.th
    BY <1>1, <2>3
  <2>5. B.tt = v BY <1>3, <2>2, <2>4
  <2>6. B.mono = A.mono /\ B.ana = A.ana /\ B.th = A.th BY <1>2, <1>3, <2>4
  <2> QED BY <1>6, <2>5, <2>6 DEF A, B, Like, Angles, Crystals
<1> QED BY <1>4, <1>5, <1>6

-----------------------------------------------------------------------------
(* An angle goes up from the triple-axis layout to the triangle.           *)

Others(x) ==
  /\ \A y \in Angles \ {x} : Like(y, real[y], TriangleAngles[y])
  /\ tof.th = TriangleAngles.th /\ (x = "tt" \/ tof.tt = TriangleAngles.tt)

LEMMA OthersKept ==
  ASSUME NEW x, Others(x), UNCHANGED <<tri, ds, sense, real, tof>>
  PROVE Others(x)'
<1>1. TriangleAngles' = TriangleAngles BY SameAngles
<1> QED BY <1>1 DEF Others

LEMMA RealUpMoved ==
  ASSUME Control, NEW x \in {"mono", "ana", "tt"}, Run, Others(x),
         todo = <<CallWith("RealMoved", Mover[x])>>
  PROVE RealUp(x)'
<1> DEFINE f == CallWith("RealMoved", Mover[x])
           v == Only(x, real[x])
           g == CallWith("RealEmit", v)
           e == CallWith("RealMovedEnd", TRUE)
<1>1. IsStack(todo) /\ Flags BY DEF Control
<1>2. f.op = "RealMoved" /\ f.arg = Mover[x] BY Calling
<1>3. todo = Push(f, <<>>) BY One
<1>4. Head(todo) = f /\ Tail(todo) = <<>> /\ todo # <<>> /\ IsStack(<<>>)
  BY <1>3, PushParts, EmptyStack
<1>5. At("RealMoved") /\ Arg = Mover[x] /\ Rest = <<>>
  BY <1>2, <1>4 DEF At, Arg, Rest
<1>6. Ops(todo) = {"RealMoved"} BY <1>2, <1>3, EmptyStack, PushOps
<1>7. ready.real /\ ~busy.real BY <1>1, <1>6 DEF Flags
<1>8. RealMoved BY <1>5, HeadActs
<1>9. todo' = Push(g, Push(e, <<>>))
  <2>1. PICK y \in {"mono", "tt", "ana"} :
          /\ Mover[x] = Mover[y]
          /\ todo' = Push(CallWith("RealEmit", Only(y, real[y])),
                          Push(CallWith("RealMovedEnd", At("RealMoved")),
                            Rest))
    BY <1>1, <1>5, <1>7, <1>8, RealMovedCases DEF Mover
  <2>2. x = y BY <2>1 DEF Mover
  <2>3. At("RealMoved") = TRUE BY <1>5 DEF At
  <2> QED BY <1>5, <2>1, <2>2, <2>3
<1>10. todo' = <<g, e>> BY <1>9, Two
<1>11. UNCHANGED <<tri, ds, sense, real, tof>> BY <1>1, <1>8, RealMovedEffect
<1>12. Others(x)' BY <1>11, OthersKept
<1> QED BY <1>10, <1>11, <1>12 DEF RealUp, Others

LEMMA RealUpEmit ==
  ASSUME Control, NEW x \in {"mono", "ana", "tt"}, Run, Others(x),
         todo = <<CallWith("RealEmit", Only(x, real[x])),
           CallWith("RealMovedEnd", TRUE)>>
  PROVE RealUp(x)'
<1> DEFINE v == Only(x, real[x])
           f == CallWith("RealEmit", v)
           e == CallWith("RealMovedEnd", TRUE)
           g == CallWith("TasChanged", v)
           h == CallWith("TofTriangleChanged", v)
           q == Push(e, <<>>)
<1>1. IsStack(todo) /\ Flags BY DEF Control
<1>2. f.op = "RealEmit" /\ f.arg = v /\ e.op = "RealMovedEnd" BY Calling
<1>3. todo = Push(f, q) /\ IsStack(q) BY Two, EmptyStack, StackPush
<1>4. Ops(q) = {"RealMovedEnd"}
  <2> HIDE DEF e
  <2>1. Ops(q) = {e.op} \cup Ops(<<>>) BY EmptyStack, PushOps
  <2> QED BY <1>2, <2>1, EmptyStack
<1> HIDE DEF q, f
<1>5. Head(todo) = f /\ Tail(todo) = q /\ todo # <<>>
  BY <1>3, PushParts
<1>6. At("RealEmit") /\ Arg = v /\ Rest = q
  BY <1>2, <1>5 DEF At, Arg, Rest
<1>7. Ops(todo) = {"RealEmit", "RealMovedEnd"}
  <2>1. Ops(todo) = {f.op} \cup Ops(q) BY <1>3, PushOps
  <2> QED BY <1>2, <1>4, <2>1
<1>8. ready.real /\ ~dont.real BY <1>1, <1>7 DEF Flags
<1>9. RealEmit BY <1>6, HeadActs
<1>10. todo' = Push(g, Push(h, q)) BY <1>1, <1>6, <1>8, <1>9, RealEmitEffect
<1>11. todo' = <<g, h, e>> BY <1>10, Three DEF q
<1>12. UNCHANGED <<tri, ds, sense, real, tof>> BY <1>1, <1>9, RealEmitEffect
<1>13. Others(x)' BY <1>12, OthersKept
<1> QED BY <1>11, <1>12, <1>13 DEF RealUp, Others

LEMMA RealUpTas ==
  ASSUME Control, NEW x \in {"mono", "ana", "tt"}, Run, Others(x),
         todo = <<CallWith("TasChanged", Only(x, real[x])),
                  CallWith("TofTriangleChanged", Only(x, real[x])),
                  CallWith("RealMovedEnd", TRUE)>>
  PROVE RealUp(x)'
<1> DEFINE v == Only(x, real[x])
           f == CallWith("TasChanged", v)
           h == CallWith("TofTriangleChanged", v)
           e == CallWith("RealMovedEnd", TRUE)
           g == CallWith("Set", v)
           i == CallOf("TasChangedEnd")
           q == Push(h, Push(e, <<>>))
<1>1. IsStack(todo) /\ Flags BY DEF Control
<1>2. /\ f.op = "TasChanged" /\ f.arg = v /\ e.op = "RealMovedEnd"
      /\ h.op = "TofTriangleChanged"
  BY Calling
<1>3. todo = Push(f, q) /\ IsStack(q) BY Three, EmptyStack, StackPush
<1>4. Ops(q) = {"TofTriangleChanged", "RealMovedEnd"}
  <2> HIDE DEF e, h
  <2>1. Ops(Push(e, <<>>)) = {e.op} \cup Ops(<<>>) BY EmptyStack, PushOps
  <2>2. Ops(q) = {h.op} \cup Ops(Push(e, <<>>))
        BY EmptyStack, StackPush, PushOps
  <2> QED BY <1>2, <2>1, <2>2, EmptyStack
<1> HIDE DEF q, f
<1>5. Head(todo) = f /\ Tail(todo) = q /\ todo # <<>>
  BY <1>3, PushParts
<1>6. At("TasChanged") /\ Arg = v /\ Rest = q
  BY <1>2, <1>5 DEF At, Arg, Rest
<1>7. Ops(todo) = {"TasChanged", "TofTriangleChanged", "RealMovedEnd"}
  <2>1. Ops(todo) = {f.op} \cup Ops(q) BY <1>3, PushOps
  <2> QED BY <1>2, <1>4, <2>1
<1>8. ready.tri BY <1>1, <1>7 DEF Flags
<1>9. TasChanged BY <1>6, HeadActs
<1>10. todo' = Push(g, Push(i, q))
  <2> DEFINE p == Push(i, q)
  <2>1. IsStack(p) BY <1>3, StackPush
  <2>2. todo' = Setting("Set", "mono", v, Setting("Set", "ana", v,
                  Setting("Set", "tt", v, Setting("Set", "kivec", v, p))))
    BY <1>1, <1>6, <1>8, <1>9, TasChangedEffect
  <2> HIDE DEF p
  <2> DEFINE w == v
             r == real[x]
  <2>3. w = Only(x, r) OBVIOUS
  <2> HIDE DEF w, r
  <2>4. Setting("Set", "mono", w, Setting("Set", "ana", w,
          Setting("Set", "tt", w, Setting("Set", "kivec", w, p))))
        = Push(CallWith("Set", Only(x, r)), p)
    BY <2>1, <2>3, OneSetter
  <2> QED BY <2>2, <2>4 DEF w, r, p
<1>11. todo' = <<g, i, h, e>> BY <1>10, Four DEF q
<1>12. UNCHANGED <<tri, ds, sense, real, tof>> BY <1>1, <1>9, TasChangedEffect
<1>13. Others(x)' BY <1>12, OthersKept
<1> QED BY <1>11, <1>12, <1>13 DEF RealUp, Others

LEMMA RealUpSet ==
  ASSUME Control, NEW x \in {"mono", "ana", "tt"}, Run, Others(x),
         todo = <<CallWith("Set", Only(x, real[x])), CallOf("TasChangedEnd"),
                  CallWith("TofTriangleChanged", Only(x, real[x])),
                  CallWith("RealMovedEnd", TRUE)>>
  PROVE Settled'
<1> DEFINE v == Only(x, real[x])
           f == CallWith("Set", v)
           i == CallOf("TasChangedEnd")
           h == CallWith("TofTriangleChanged", v)
           e == CallWith("RealMovedEnd", TRUE)
           m == CallWith("TriangleMoved", "KfQ")
           q == Push(i, Push(h, Push(e, <<>>)))
           B == TriangleAngles'
<1>1. IsStack(todo) /\ Typed(todo) /\ DataType BY DEF Control
<1>2. /\ f.op = "Set" /\ f.arg = v /\ e.op = "RealMovedEnd"
      /\ h.op = "TofTriangleChanged" /\ h.arg = v /\ i.op = "TasChangedEnd"
      /\ m.op = "TriangleMoved"
  BY Calling
<1>3. todo = Push(f, q) /\ IsStack(q) BY Four, EmptyStack, StackPush
<1>4. DOMAIN v = {x} /\ v[x] = real[x] BY OnlyIs
<1> HIDE DEF f
<1>5. Head(todo) = f /\ Tail(todo) = q /\ todo # <<>>
  <2> HIDE DEF q
  <2> QED BY <1>3, PushParts
<1>6. At("Set") /\ Arg = v /\ Rest = q
  BY <1>2, <1>5 DEF At, Arg, Rest
<1>7. Set BY <1>6, HeadActs
<1>8. /\ todo' = Push(m, q) /\ UNCHANGED <<ds, sense, real, tof>>
      /\ \E y \in AngleNames \ {"th"}, w \in SignedAngles \cup Turns :
           Arg = Only(y, w) /\ w \in AngleValues(y) /\ tri' = SetTri(y, w)
  <2> HIDE DEF q
  <2> QED BY <1>1, <1>6, <1>7, SetEffect
<1>9. tri' = SetTri(x, real[x]) /\ real[x] \in AngleValues(x)
  <2>1. PICK y \in AngleNames \ {"th"}, w \in SignedAngles \cup Turns :
          v = Only(y, w) /\ w \in AngleValues(y) /\ tri' = SetTri(y, w)
    BY <1>6, <1>8
  <2>2. DOMAIN v = {y} /\ v[y] = w BY <2>1, OnlyIs
  <2>3. y = x /\ w = real[x] BY <1>4, <2>2
  <2> QED BY <2>1, <2>3
<1>10. /\ Like(x, real[x], B[x])
       /\ \A y \in Angles \ {x} : B[y] = TriangleAngles[y]
  <2> DEFINE r == real[x]
  <2>1. tri' = SetTri(x, r) /\ r \in AngleValues(x) BY <1>9
  <2> HIDE DEF r
  <2>2. /\ Like(x, r, B[x])
        /\ \A y \in Angles \ {x} : B[y] = TriangleAngles[y]
    BY <1>1, <1>8, <2>1, SetAngle
  <2> QED BY <2>2 DEF r
<1> DEFINE P1 == Push(e, <<>>)
           P2 == Push(h, P1)
<1>11. IsStack(P1) /\ IsStack(P2) BY EmptyStack, StackPush
<1> HIDE DEF B, e, h, i, m, v
<1>12. /\ GoodCall(h, B) /\ GoodCall(e, B) /\ GoodCall(i, B) /\ GoodCall(m, B)
       /\ \A O : CalmFit(h, O) /\ CalmFit(e, O) /\ CalmFit(i, O)
            /\ CalmFit(m, O)
  BY <1>2, <1>4, <1>10 DEF GoodCall, Carries, CalmFit, CalmOps, Lifts, TofLifts
<1>13. Calm(<<>>) /\ Good(<<>>, B) BY EmptyStack DEF Calm, Good
<1>14. Calm(P1) /\ Good(P1, B) BY <1>12, <1>13, EmptyStack, CalmPush, GoodPush
<1> HIDE DEF P1
<1>15. Calm(P2) /\ Good(P2, B) BY <1>11, <1>12, <1>14, CalmPush, GoodPush
<1>16. x = "tt" => TofPending(P2, "tt") BY <1>2, <1>4, <1>11, TofPendingPush
<1> HIDE DEF P2
<1>17. Told(P2, B, real, tof)
  <2>1. \A y \in Angles : Like(y, real[y], B[y])
    BY <1>10 DEF Others
  <2>2. tof.th = B.th /\ (x = "tt" \/ tof.tt = B.tt)
    BY <1>10 DEF Others, Angles
  <2> QED BY <1>15, <1>16, <2>1, <2>2 DEF Told
<1>18. IsStack(q) /\ Told(q, B, real, tof)
  BY <1>11, <1>12, <1>17, ToldPush DEF P1, P2
<1> HIDE DEF q
<1>19. Told(todo', B, real', tof') BY <1>8, <1>12, <1>18, ToldPush
<1> QED BY <1>19 DEF Settled, Told, B

\* ... and from the time-of-flight layout, whose only one is 2theta.
TofOthers ==
  /\ \A y \in Angles \ {"tt"} : Like(y, real[y], TriangleAngles[y])
  /\ tof.th = TriangleAngles.th

LEMMA TofOthersKept ==
  ASSUME TofOthers, UNCHANGED <<tri, ds, sense, real, tof>>
  PROVE TofOthers'
<1>1. TriangleAngles' = TriangleAngles BY SameAngles
<1> QED BY <1>1 DEF TofOthers

LEMMA TofUpMoved ==
  ASSUME Control, NEW s \in {"sample", "det"}, Run, TofOthers,
         todo = <<CallWith("TofMoved", s)>>
  PROVE TofUp'
<1> DEFINE f == CallWith("TofMoved", s)
           v == Only("tt", tof.tt)
           g == CallWith("TofEmit", v)
           e == CallOf("TofMovedEnd")
<1>1. IsStack(todo) /\ Flags BY DEF Control
<1>2. f.op = "TofMoved" /\ f.arg = s BY Calling
<1>3. todo = Push(f, <<>>) BY One
<1>4. Head(todo) = f /\ Tail(todo) = <<>> /\ todo # <<>> /\ IsStack(<<>>)
  BY <1>3, PushParts, EmptyStack
<1>5. At("TofMoved") /\ Arg = s /\ Rest = <<>>
  BY <1>2, <1>4 DEF At, Arg, Rest
<1>6. Ops(todo) = {"TofMoved"} BY <1>2, <1>3, EmptyStack, PushOps
<1>7. ~busy.tof BY <1>1, <1>6 DEF Flags
<1>8. TofMoved BY <1>5, HeadActs
<1>9. todo' = Push(g, Push(e, <<>>))
  BY <1>1, <1>5, <1>7, <1>8, TofMovedEffect
<1>10. todo' = <<g, e>> BY <1>9, Two
<1>11. UNCHANGED <<tri, ds, sense, real, tof>> BY <1>1, <1>8, TofMovedEffect
<1>12. TofOthers' BY <1>11, TofOthersKept
<1> QED BY <1>10, <1>11, <1>12 DEF TofUp, TofOthers

LEMMA TofUpEmit ==
  ASSUME Control, Run, TofOthers,
         todo = <<CallWith("TofEmit", Only("tt", tof.tt)),
           CallOf("TofMovedEnd")>>
  PROVE TofUp'
<1> DEFINE v == Only("tt", tof.tt)
           f == CallWith("TofEmit", v)
           e == CallOf("TofMovedEnd")
           g == CallWith("TasChanged", v)
           h == CallWith("RealTriangleChanged", v)
           q == Push(e, <<>>)
<1>1. IsStack(todo) /\ Flags BY DEF Control
<1>2. f.op = "TofEmit" /\ f.arg = v /\ e.op = "TofMovedEnd" BY Calling
<1>3. todo = Push(f, q) /\ IsStack(q) BY Two, EmptyStack, StackPush
<1>4. Ops(q) = {"TofMovedEnd"}
  <2> HIDE DEF e
  <2>1. Ops(q) = {e.op} \cup Ops(<<>>) BY EmptyStack, PushOps
  <2> QED BY <1>2, <2>1, EmptyStack
<1> HIDE DEF q, f
<1>5. Head(todo) = f /\ Tail(todo) = q /\ todo # <<>>
  BY <1>3, PushParts
<1>6. At("TofEmit") /\ Arg = v /\ Rest = q
  BY <1>2, <1>5 DEF At, Arg, Rest
<1>7. Ops(todo) = {"TofEmit", "TofMovedEnd"}
  <2>1. Ops(todo) = {f.op} \cup Ops(q) BY <1>3, PushOps
  <2> QED BY <1>2, <1>4, <2>1
<1>8. ~dont.tof BY <1>1, <1>7 DEF Flags
<1>9. TofEmit BY <1>6, HeadActs
<1>10. todo' = Push(g, Push(h, q)) BY <1>1, <1>6, <1>8, <1>9, TofEmitEffect
<1>11. todo' = <<g, h, e>> BY <1>10, Three DEF q
<1>12. UNCHANGED <<tri, ds, sense, real, tof>> BY <1>1, <1>9, TofEmitEffect
<1>13. TofOthers' BY <1>12, TofOthersKept
<1> QED BY <1>11, <1>12, <1>13 DEF TofUp, TofOthers

LEMMA TofUpTas ==
  ASSUME Control, Run, TofOthers,
         todo = <<CallWith("TasChanged", Only("tt", tof.tt)),
                  CallWith("RealTriangleChanged", Only("tt", tof.tt)),
                  CallOf("TofMovedEnd")>>
  PROVE TofUp'
<1> DEFINE v == Only("tt", tof.tt)
           f == CallWith("TasChanged", v)
           h == CallWith("RealTriangleChanged", v)
           e == CallOf("TofMovedEnd")
           g == CallWith("Set", v)
           i == CallOf("TasChangedEnd")
           q == Push(h, Push(e, <<>>))
<1>1. IsStack(todo) /\ Flags BY DEF Control
<1>2. /\ f.op = "TasChanged" /\ f.arg = v /\ e.op = "TofMovedEnd"
      /\ h.op = "RealTriangleChanged"
  BY Calling
<1>3. todo = Push(f, q) /\ IsStack(q) BY Three, EmptyStack, StackPush
<1>4. Ops(q) = {"RealTriangleChanged", "TofMovedEnd"}
  <2> HIDE DEF e, h
  <2>1. Ops(Push(e, <<>>)) = {e.op} \cup Ops(<<>>) BY EmptyStack, PushOps
  <2>2. Ops(q) = {h.op} \cup Ops(Push(e, <<>>))
        BY EmptyStack, StackPush, PushOps
  <2> QED BY <1>2, <2>1, <2>2, EmptyStack
<1> HIDE DEF q, f
<1>5. Head(todo) = f /\ Tail(todo) = q /\ todo # <<>>
  BY <1>3, PushParts
<1>6. At("TasChanged") /\ Arg = v /\ Rest = q
  BY <1>2, <1>5 DEF At, Arg, Rest
<1>7. Ops(todo) = {"TasChanged", "RealTriangleChanged", "TofMovedEnd"}
  <2>1. Ops(todo) = {f.op} \cup Ops(q) BY <1>3, PushOps
  <2> QED BY <1>2, <1>4, <2>1
<1>8. ready.tri BY <1>1, <1>7 DEF Flags
<1>9. TasChanged BY <1>6, HeadActs
<1>10. todo' = Push(g, Push(i, q))
  <2> DEFINE p == Push(i, q)
             w == v
             r == tof.tt
             x == "tt"
  <2>1. IsStack(p) BY <1>3, StackPush
  <2>2. todo' = Setting("Set", "mono", w, Setting("Set", "ana", w,
                  Setting("Set", "tt", w, Setting("Set", "kivec", w, p))))
    BY <1>1, <1>6, <1>8, <1>9, TasChangedEffect
  <2> HIDE DEF p
  <2>3. w = Only(x, r) /\ x \in {"mono", "ana", "tt"} OBVIOUS
  <2> HIDE DEF w, r, x
  <2>4. Setting("Set", "mono", w, Setting("Set", "ana", w,
          Setting("Set", "tt", w, Setting("Set", "kivec", w, p))))
        = Push(CallWith("Set", Only(x, r)), p)
    BY <2>1, <2>3, OneSetter
  <2> QED BY <2>2, <2>4 DEF w, r, p, x
<1>11. todo' = <<g, i, h, e>> BY <1>10, Four DEF q
<1>12. UNCHANGED <<tri, ds, sense, real, tof>> BY <1>1, <1>9, TasChangedEffect
<1>13. TofOthers' BY <1>12, TofOthersKept
<1> QED BY <1>11, <1>12, <1>13 DEF TofUp, TofOthers

LEMMA TofUpSet ==
  ASSUME Control, Run, TofOthers,
         todo = <<CallWith("Set", Only("tt", tof.tt)), CallOf("TasChangedEnd"),
                  CallWith("RealTriangleChanged", Only("tt", tof.tt)),
                  CallOf("TofMovedEnd")>>
  PROVE Settled'
<1> DEFINE x == "tt"
           v == Only(x, tof.tt)
           f == CallWith("Set", v)
           i == CallOf("TasChangedEnd")
           h == CallWith("RealTriangleChanged", v)
           e == CallOf("TofMovedEnd")
           m == CallWith("TriangleMoved", "KfQ")
           q == Push(i, Push(h, Push(e, <<>>)))
           B == TriangleAngles'
<1>1. IsStack(todo) /\ Typed(todo) /\ DataType BY DEF Control
<1>2. /\ f.op = "Set" /\ f.arg = v /\ e.op = "TofMovedEnd"
      /\ h.op = "RealTriangleChanged" /\ h.arg = v /\ i.op = "TasChangedEnd"
      /\ m.op = "TriangleMoved"
  BY Calling
<1>3. todo = Push(f, q) /\ IsStack(q) BY Four, EmptyStack, StackPush
<1>4. DOMAIN v = {"tt"} /\ v["tt"] = tof.tt
  <2>1. x = "tt" OBVIOUS
  <2> HIDE DEF x
  <2> QED BY <2>1, OnlyIs
<1> HIDE DEF f
<1>5. Head(todo) = f /\ Tail(todo) = q /\ todo # <<>>
  <2> HIDE DEF q
  <2> QED BY <1>3, PushParts
<1>6. At("Set") /\ Arg = v /\ Rest = q
  BY <1>2, <1>5 DEF At, Arg, Rest
<1>7. Set BY <1>6, HeadActs
<1>8. /\ todo' = Push(m, q) /\ UNCHANGED <<ds, sense, real, tof>>
      /\ \E y \in AngleNames \ {"th"}, w \in SignedAngles \cup Turns :
           Arg = Only(y, w) /\ w \in AngleValues(y) /\ tri' = SetTri(y, w)
  <2> HIDE DEF q
  <2> QED BY <1>1, <1>6, <1>7, SetEffect
<1>9. tri' = SetTri("tt", tof.tt) /\ tof.tt \in AngleValues("tt")
  <2> HIDE DEF x, v
  <2>1. PICK y \in AngleNames \ {"th"}, w \in SignedAngles \cup Turns :
          v = Only(y, w) /\ w \in AngleValues(y) /\ tri' = SetTri(y, w)
    BY <1>6, <1>8
  <2>2. DOMAIN v = {y} /\ v[y] = w BY <2>1, OnlyIs
  <2>3. y = "tt" /\ w = tof.tt BY <1>4, <2>2
  <2> QED BY <2>1, <2>3
<1>10. /\ tof.tt = B.tt
       /\ \A y \in Angles \ {"tt"} : B[y] = TriangleAngles[y]
  <2> DEFINE r == tof.tt
  <2>1. tri' = SetTri(x, r) /\ r \in AngleValues(x)
        /\ x \in {"mono", "ana", "tt"}
    BY <1>9
  <2>2. x = "tt" /\ x \notin Crystals BY DEF Crystals
  <2> HIDE DEF r, x, B
  <2>3. /\ Like(x, r, B[x])
        /\ \A y \in Angles \ {x} : B[y] = TriangleAngles[y]
    BY <1>1, <1>8, <2>1, SetAngle DEF B
  <2> QED BY <2>2, <2>3 DEF r, Like
<1> DEFINE P1 == Push(e, <<>>)
           P2 == Push(h, P1)
<1>11. IsStack(P1) /\ IsStack(P2) BY EmptyStack, StackPush
<1> HIDE DEF B, e, h, i, m, v
<1>12. /\ GoodCall(h, B) /\ GoodCall(e, B) /\ GoodCall(i, B) /\ GoodCall(m, B)
       /\ \A O : CalmFit(h, O) /\ CalmFit(e, O) /\ CalmFit(i, O)
            /\ CalmFit(m, O)
  BY <1>2, <1>4, <1>10
     DEF GoodCall, Carries, CalmFit, CalmOps, Lifts, TofLifts, Like, Crystals
<1>13. Calm(<<>>) /\ Good(<<>>, B) BY EmptyStack DEF Calm, Good
<1>14. Calm(P1) /\ Good(P1, B) BY <1>12, <1>13, EmptyStack, CalmPush, GoodPush
<1> HIDE DEF P1
<1>15. Calm(P2) /\ Good(P2, B) BY <1>11, <1>12, <1>14, CalmPush, GoodPush
<1>16. RealPending(P2, "tt") BY <1>2, <1>4, <1>11, RealPendingPush
<1> HIDE DEF P2
<1>17. Told(P2, B, real, tof)
  <2>1. \A y \in Angles \ {"tt"} : Like(y, real[y], B[y])
    BY <1>10 DEF TofOthers
  <2>2. tof.th = B.th /\ tof.tt = B.tt
    BY <1>10 DEF TofOthers, Angles
  <2> QED BY <1>15, <1>16, <2>1, <2>2 DEF Told
<1>18. IsStack(q) /\ Told(q, B, real, tof)
  BY <1>11, <1>12, <1>17, ToldPush DEF P1, P2
<1> HIDE DEF q
<1>19. Told(todo', B, real', tof') BY <1>8, <1>12, <1>18, ToldPush
<1> QED BY <1>19 DEF Settled, Told, B

\* Whichever angle goes up, and wherever it is, the next call takes it on or it
\* has arrived.
LEMMA UpRun ==
  ASSUME Control, Run, (\E x \in {"mono", "ana", "tt"} : RealUp(x)) \/ TofUp
  PROVE LayoutInv'
<1>1. ASSUME NEW x \in {"mono", "ana", "tt"}, RealUp(x)
      PROVE RealUp(x)' \/ Settled'
  <2>1. Others(x) BY <1>1 DEF RealUp, Others
  <2>2. CASE todo = <<CallWith("RealMoved", Mover[x])>>
        BY <2>1, <2>2, RealUpMoved
  <2>3. CASE todo = <<CallWith("RealEmit", Only(x, real[x])),
                      CallWith("RealMovedEnd", TRUE)>>
    BY <2>1, <2>3, RealUpEmit
  <2>4. CASE todo = <<CallWith("TasChanged", Only(x, real[x])),
                      CallWith("TofTriangleChanged", Only(x, real[x])),
                      CallWith("RealMovedEnd", TRUE)>>
    BY <2>1, <2>4, RealUpTas
  <2>5. CASE todo = <<CallWith("Set", Only(x, real[x])),
        CallOf("TasChangedEnd"),
                      CallWith("TofTriangleChanged", Only(x, real[x])),
                      CallWith("RealMovedEnd", TRUE)>>
    BY <2>1, <2>5, RealUpSet
  <2> QED BY <1>1, <2>2, <2>3, <2>4, <2>5 DEF RealUp
<1>2. ASSUME TofUp PROVE TofUp' \/ Settled'
  <2>1. TofOthers BY <1>2 DEF TofUp, TofOthers
  <2>2. CASE todo = <<CallWith("TofMoved", "sample")>>
        BY <2>1, <2>2, TofUpMoved
  <2>3. CASE todo = <<CallWith("TofMoved", "det")>> BY <2>1, <2>3, TofUpMoved
  <2>4. CASE todo = <<CallWith("TofEmit", Only("tt", tof.tt)),
        CallOf("TofMovedEnd")>>
    BY <2>1, <2>4, TofUpEmit
  <2>5. CASE todo = <<CallWith("TasChanged", Only("tt", tof.tt)),
                      CallWith("RealTriangleChanged", Only("tt", tof.tt)),
                      CallOf("TofMovedEnd")>>
    BY <2>1, <2>5, TofUpTas
  <2>6. CASE todo = <<CallWith("Set", Only("tt", tof.tt)),
        CallOf("TasChangedEnd"),
                      CallWith("RealTriangleChanged", Only("tt", tof.tt)),
                      CallOf("TofMovedEnd")>>
    BY <2>1, <2>6, TofUpSet
  <2> QED BY <1>2, <2>2, <2>3, <2>4, <2>5, <2>6 DEF TofUp
<1> QED BY <1>1, <1>2 DEF LayoutInv

-----------------------------------------------------------------------------
(* The inductive invariant holds in every step.                            *)

LEMMA RunLayouts ==
  ASSUME Control, LayoutInv, Run PROVE LayoutInv'
<1>1. IsStack(todo) BY DEF Control
<1>2. todo # <<>>
  BY DEF Run, RealLayout, TofLayout, Dialogs, MainWindow, At,
     TriangleMoved, EmitUpdate, EmitAllParams, TasChanged, TasChangedEnd, Set,
     RealTriangleChanged, RealTriangleChangedEnd, RealSet, RealAngleKiQ,
     RealMoved, RealMovedEnd, RealEmit, RealEmitAllParams,
     TofTriangleChanged, TofTriangleChangedEnd, TofSet, TofAngleKiQ,
     TofMoved, TofMovedEnd, TofEmit, RecipDialogs, ResoRecip, ResoReal,
     ResoPars, ResoSense, ResoLoad, ResoUpdateOn, UpdateDs, SetSense,
     CalcPeaks, SnapToPeak, LoadEnd
<1>3. IsStack(Rest) /\ todo = Push(Head(todo), Rest) BY <1>1, <1>2, Popped
<1>4. CASE Fixed(todo)
  <2> DEFINE h == Head(todo)
  <2>1. todo = Push(h, Rest) BY <1>3
  <2> HIDE DEF h
  <2>2. (h.op \in Fixers /\ Ops(Rest) \subseteq Quiets) \/ Fixed(Rest)
    BY <1>3, <1>4, <2>1, FixedPush
  <2>3. CASE Fixed(Rest) BY <1>3, <2>3, FixedKept DEF LayoutInv
  <2>4. CASE h.op \in Fixers /\ Ops(Rest) \subseteq Quiets
    <3>1. TriangleMoved \/ EmitUpdate \/ UpdateDs \/ SetSense \/ CalcPeaks
          \/ LoadEnd
      BY <1>3, <2>4, FixerActs DEF h
    <3>2. CASE EmitUpdate BY <1>3, <2>4, <3>2, EmitSettles DEF LayoutInv
    <3>3. CASE TriangleMoved \/ UpdateDs \/ SetSense \/ CalcPeaks \/ LoadEnd
      BY <1>3, <2>4, <3>3, FixerFixes DEF LayoutInv
    <3> QED BY <3>1, <3>2, <3>3
  <2> QED BY <2>2, <2>3, <2>4
<1>5. CASE Settled BY <1>3, <1>5, SettledRun DEF LayoutInv
<1> QED BY <1>4, <1>5, UpRun DEF LayoutInv

\* When all calls have returned, the layouts are as the triangle.
LEMMA IdleAgrees ==
  ASSUME LayoutInv, todo = <<>>
  PROVE /\ Settled
        /\ \A x \in Angles : Like(x, real[x], TriangleAngles[x])
        /\ \A x \in {"tt", "th"} : tof[x] = TriangleAngles[x]
<1>1. DOMAIN todo = {} BY EmptyStack
<1>2. ~Fixed(todo) BY <1>1 DEF Fixed
<1>3. ~(\E x \in {"mono", "ana", "tt"} : RealUp(x)) BY DEF RealUp
<1>4. ~TofUp BY DEF TofUp
<1>5. Settled BY <1>2, <1>3, <1>4 DEF LayoutInv
<1>6. \A x : ~RealPending(todo, x) /\ ~TofPending(todo, x)
  BY <1>1 DEF RealPending, TofPending
<1> QED BY <1>5, <1>6 DEF Settled

LEMMA SameLayouts ==
  ASSUME LayoutInv, UNCHANGED <<todo, tri, ds, sense, real, tof>>
  PROVE LayoutInv'
<1>1. TriangleAngles' = TriangleAngles BY SameAngles
<1>2. Settled => Settled' BY <1>1 DEF Settled
<1>3. \A x : RealUp(x) => RealUp(x)' BY <1>1 DEF RealUp
<1>4. TofUp => TofUp' BY <1>1 DEF TofUp
<1> QED BY <1>2, <1>3, <1>4 DEF LayoutInv

LEMMA UserLayouts ==
  ASSUME Control, LayoutInv, User PROVE LayoutInv'
<1>1. Idle BY UserCases
<1>2. todo = <<>> BY <1>1 DEF Idle
<1>3. /\ \A x \in Angles : Like(x, real[x], TriangleAngles[x])
      /\ \A x \in {"tt", "th"} : tof[x] = TriangleAngles[x]
  BY <1>2, IdleAgrees
<1>4. CASE Starts BY <1>4 DEF Starts, LayoutInv
<1>5. CASE Files BY <1>5 DEF Files, Filed, LayoutInv
<1>6. CASE Rests BY <1>6, SameLayouts DEF Rests
<1>7. CASE DragReal
  <2>1. /\ UNCHANGED <<tri, ds, sense, tof>>
        /\ \E x \in {"mono", "ana", "tt"} :
             /\ todo' = <<CallWith("RealMoved", Mover[x])>>
             /\ \A y \in Angles \ {x} : real'[y] = real[y]
    BY <1>7, DragRealStarts
  <2>2. TriangleAngles' = TriangleAngles BY <2>1, SameAngles
  <2>3. \E x \in {"mono", "ana", "tt"} : RealUp(x)'
    BY <1>3, <2>1, <2>2 DEF RealUp
  <2> QED BY <2>3 DEF LayoutInv
<1>8. CASE DragMono
  <2> DEFINE f == CallWith("RealMoved", "mono")
             A == TriangleAngles
  <2>1. UNCHANGED <<tri, ds, sense, real, tof>> /\ todo' = <<f>>
    BY <1>8, DragMonoStarts
  <2>2. f.op = "RealMoved" /\ f.arg = "mono" BY Calling
  <2>3. todo' = Push(f, <<>>) BY <2>1, One
  <2> HIDE DEF f, A
  <2>4. CalmFit(f, Ops(<<>>)) /\ GoodCall(f, A)
    BY <2>2 DEF CalmFit, CalmOps, Lifts, TofLifts, GoodCall, Carries
  <2>5. Told(<<>>, A, real, tof)
    BY <1>3, EmptyStack DEF Told, Calm, Good, A
  <2>6. Told(todo', A, real, tof) BY <2>3, <2>4, <2>5, EmptyStack, ToldPush
  <2> QED BY <2>1, <2>6, SettledAgain DEF LayoutInv, A
<1>9. CASE DragTof
  <2>1. /\ UNCHANGED <<tri, ds, sense, real>> /\ tof'.th = tof.th
        /\ todo' = <<CallWith("TofMoved", "sample")>>
           \/ todo' = <<CallWith("TofMoved", "det")>>
    BY <1>9, DragTofStarts
  <2>2. TriangleAngles' = TriangleAngles BY <2>1, SameAngles
  <2>3. TofUp' BY <1>3, <2>1, <2>2 DEF TofUp
  <2> QED BY <2>3 DEF LayoutInv
<1> QED BY <1>4, <1>5, <1>6, <1>7, <1>8, <1>9, UserCases

LEMMA InitLayouts == ScInit => LayoutInv
<1> SUFFICES ASSUME ScInit PROVE LayoutInv OBVIOUS
<1> DEFINE A == TriangleAngles
<1>1. /\ todo = <<>> /\ real.mono = A.mono /\ real.ana = A.ana
      /\ real.tt = A.tt /\ real.th = A.th /\ tof.tt = A.tt /\ tof.th = A.th
  BY DEF ScInit
<1> HIDE DEF A
<1>2. \A x \in Angles : Like(x, real[x], A[x]) BY <1>1 DEF Angles, Like
<1>3. Calm(todo) /\ Good(todo, A) BY <1>1, EmptyStack DEF Calm, Good
<1> QED BY <1>1, <1>2, <1>3 DEF Settled, LayoutInv, A

\* LayoutInvariance: whichever calls are under way, each angle in which a
\* layout differs from the triangle is going to be told to one of them; the
\* inductive invariant of LayoutsAgree, for any number of wavenumbers, of
\* angles and of spacings and any number of events.
THEOREM LayoutInvariance == ScSpec => [](Control /\ LayoutInv)
<1>1. ScInit => Control /\ LayoutInv BY InitControl, InitLayouts
<1>2. Control /\ LayoutInv /\ [ScNext]_scvars => (Control /\ LayoutInv)'
  <2> SUFFICES ASSUME Control, LayoutInv, [ScNext]_scvars
               PROVE Control' /\ LayoutInv'
    OBVIOUS
  <2>1. CASE Run BY <2>1, RunControl, RunLayouts
  <2>2. CASE User BY <2>2, UserControl, UserLayouts
  <2>3. CASE UNCHANGED scvars
    BY <2>3, StutterControl, SameLayouts DEF scvars, nodes, optics, layouts
  <2> QED BY <2>1, <2>2, <2>3 DEF ScNext, Spent
<1> QED BY <1>1, <1>2, PTL DEF ScSpec

\* LayoutsAgreeAlways: whenever no call is under way, the triple-axis layout
\* and the time-of-flight layout show the angles of the triangle, though each
\* tells its own changes to the other ones by signals that come back to it.
THEOREM LayoutsAgreeAlways == ScSpec => []LayoutsAgree
<1>1. Control /\ LayoutInv => LayoutsAgree
  <2> SUFFICES ASSUME Control, LayoutInv, Idle PROVE LayoutsAgree
    BY DEF LayoutsAgree
  <2> DEFINE A == TriangleAngles
  <2>1. /\ \A x \in Angles : Like(x, real[x], A[x])
        /\ \A x \in {"tt", "th"} : tof[x] = A[x]
    BY IdleAgrees DEF Idle
  <2>2. /\ Abs(A.mono) = BraggAngle(tri.ki, ds.mono)
        /\ Abs(A.ana) = BraggAngle(tri.kf, ds.ana)
    BY AnglesTyped DEF Control
  <2> HIDE DEF A
  <2>3. /\ Abs(real.mono) = Abs(A.mono) /\ Abs(real.ana) = Abs(A.ana)
        /\ real.tt = A.tt /\ real.th = A.th
    BY <2>1 DEF Angles, Like, Crystals
  <2> QED BY <2>1, <2>2, <2>3 DEF LayoutsAgree, A
<1> QED BY LayoutInvariance, <1>1, PTL
-----------------------------------------------------------------------------
(* The inductive invariant of DialogsFollow.  The parameters of the        *)
(* triangle: each that listens to them has them or is to be given them     *)
(* (ParsDue).  The angles of the layout: after such an event first a call  *)
(* is to be made that will refresh the layout and its dialog (Refreshing); *)
(* then the layout is drawn exactly as the triangle, and reports this      *)
(* (Showing); or nothing redraws the layout, as it was the layout whose    *)
(* node was moved (Lifting).                                               *)

\* The events after which the dialogs follow.
Follows == {"recip", "real", "sense", "vars"}

\* The functions that get the parameters of the triangle, the ones that draw
\* the layout, and all that can be under way after such an event.
ParOps == {"RealAngleKiQ", "TofAngleKiQ", "RecipDialogs", "ResoRecip"}
Drawers == {"RealTriangleChanged", "RealSet"}
FollowOps ==
  {"TriangleMoved", "EmitUpdate", "EmitAllParams", "TasChanged",
   "TasChangedEnd", "Set", "SetSense", "RealTriangleChanged",
   "RealTriangleChangedEnd", "RealSet", "RealAngleKiQ", "RealMoved",
   "RealMovedFirst", "RealMovedEnd", "RealEmit", "RealEmitAllParams",
   "TofTriangleChanged", "TofTriangleChangedEnd", "TofSet", "TofAngleKiQ",
   "TofMoved", "TofMovedEnd", "TofEmit", "RecipDialogs", "ResoRecip",
   "ResoReal", "ResoSense"}

\* The calls that tell the triangle an angle, f being on top of the functions
\* O; and those that do so at once.
Tells(f, O) ==
  \/ f.op \in {"TasChanged", "Set"}
  \/ Lifts(f) /\ "RealTriangleChangedEnd" \notin O

\* What the calls have in common in each of the three phases, c being what they
\* are compared with: the parameters and angles of the triangle, the sense at
\* the sample, and the variables that the triangle is told (2theta and the
\* rotation of ki, which the event tells it twice).
Fit(f, O, c) ==
  /\ f.op \in FollowOps
  /\ f.op = "RealSet" => "RealTriangleChangedEnd" \in O
  /\ f.op = "TofSet" \/ TofLifts(f) => "TofTriangleChangedEnd" \in O
  /\ f.op \in ParOps => f.arg = c.pars
  /\ Tells(f, O) \/ f.op = "SetSense" => O \cap ParOps = {}
  /\ c.phase # "lift" /\ Tells(f, O) =>
       /\ f.op \in {"TasChanged", "Set", "RealEmit"}
       /\ \A x \in DOMAIN f.arg \cap {"tt", "kivec"} : f.arg[x] = c.vars[x]
       /\ "SetSense" \in O \/ DOMAIN f.arg \subseteq {"tt", "kivec"}
  /\ c.phase = "refresh" /\ f.op = "SetSense" =>
       O = {} \/ ("sample" \in DOMAIN f.arg => f.arg["sample"] = c.pos)
  /\ c.phase = "show" =>
       /\ f.op # "SetSense"
       /\ f.op = "RealEmit" => "RealTriangleChangedEnd" \in O
       /\ f.op \in Drawers =>
            \A x \in DOMAIN f.arg \ {"kivec"} : f.arg[x] = c.angles[x]
  /\ c.phase = "lift" =>
       /\ f.op \notin Drawers \cup {"RealTriangleChangedEnd", "SetSense"}
       /\ f.op \in {"EmitUpdate", "TriangleMoved", "Set"}
            => "TasChangedEnd" \in O
Fits(q, c) == \A i \in DOMAIN q : Fit(q[i], Below(q, i), c)

Vars == [tt : Turns, kivec : Turns]
Context(p, w) ==
  [phase |-> p, vars |-> w, pars |-> Params, pos |-> sense.sample,
   angles |-> TriangleAngles]

\* In the end the parameters are emitted.
Emitter(f, O) ==
  \/ f.op \in {"SetSense", "TasChanged", "Set", "TriangleMoved",
       "EmitAllParams"}
  \/ f.op = "RealEmit" /\ O = {"RealMovedEnd"}
  \/ f.op = "RealMoved" /\ f.arg \in {"sample", "ana", "det"} /\ O = {}
Emits(q) == \E i \in DOMAIN q : Emitter(q[i], Below(q, i))

ParsDue ==
  /\ real.kiq = Params \/ Emits(todo) \/ "RealAngleKiQ" \in Ops(todo)
  /\ tof.kiq = Params \/ Emits(todo) \/ "TofAngleKiQ" \in Ops(todo)
  /\ shown.recip = Params \/ Emits(todo) \/ "RecipDialogs" \in Ops(todo)

\* The layout is told all angles and after that the parameters.
Refresher(f, O) ==
  \/ f.op \in {"SetSense", "TriangleMoved"} /\ O \subseteq {"TasChanged",
       "EmitUpdate"}
  \/ /\ f.op = "EmitUpdate" /\ "EmitAllParams" \in O
     /\ O \subseteq {"EmitAllParams", "ResoSense", "EmitUpdate", "TasChanged"}
Refreshes(q) == \E i \in DOMAIN q : Refresher(q[i], Below(q, i))

\* The triangle has the variables, or is told them before the senses are set.
Matches(x, w) == IF x = "tt" THEN tri.tt = Turn(w.tt, sense.sample)
                             ELSE tri.th = Turn(w.kivec, FALSE)
Bringer(f, O, x) ==
  /\ \/ f.op \in {"TasChanged", "Set"}
     \/ f.op = "RealEmit" /\ "RealTriangleChangedEnd" \notin O
  /\ x \in DOMAIN f.arg /\ "SetSense" \in O
Brings(q, x) == \E i \in DOMAIN q : Bringer(q[i], Below(q, i), x)

Refreshing(w) ==
  /\ Fits(todo, Context("refresh", w)) /\ Refreshes(todo)
  /\ \A x \in {"tt", "kivec"} : Matches(x, w) \/ Brings(todo, x)

\* In the end the layout emits its angles, and is not redrawn after that.
Reporter(f, O) ==
  /\ O \cap (Drawers \cup {"RealTriangleChangedEnd", "RealMovedEnd"}) = {}
  /\ \/ f.op \in {"EmitAllParams", "RealAngleKiQ", "RealMoved",
          "RealEmitAllParams"}
     \/ f.op = "RealMovedEnd" /\ f.arg
Reports(q) == \E i \in DOMAIN q : Reporter(q[i], Below(q, i))

Exact == \A x \in Angles : real[x] = TriangleAngles[x]
Showing(w) ==
  /\ Fits(todo, Context("show", w))
  /\ \A x \in {"tt", "kivec"} : Matches(x, w)
  /\ \A x \in Angles : real[x] = TriangleAngles[x] \/ RealPending(todo, x)
  /\ Reports(todo) \/ (shown.real = RealAngles /\ Exact)

Lifting(w) ==
  /\ Fits(todo, Context("lift", w))
  /\ Reports(todo) \/ shown.real = RealAngles

ShownType == DOMAIN shown = {"recip", "real"}

DialogInv ==
  /\ ShownType
  /\ event \in Follows =>
       /\ ParsDue
       /\ \E w \in Vars : Refreshing(w) \/ Showing(w) \/ Lifting(w)

-----------------------------------------------------------------------------
(* What these say of calls when one is pushed.                             *)

LEMMA FitsPush ==
  \A f, q, c : IsStack(q) =>
    (Fits(Push(f, q), c) <=> Fit(f, Ops(q), c) /\ Fits(q, c))
<1> SUFFICES ASSUME NEW f, NEW q, NEW c, IsStack(q)
             PROVE Fits(Push(f, q), c) <=> Fit(f, Ops(q), c) /\ Fits(q, c)
  OBVIOUS
<1> DEFINE p == Push(f, q)
<1>1. /\ \A i \in DOMAIN p : i = 1 \/ \E j \in DOMAIN q : i = j + 1
      /\ 1 \in DOMAIN p /\ p[1] = f /\ Below(p, 1) = Ops(q)
      /\ \A j \in DOMAIN q : j + 1 \in DOMAIN p /\ p[j + 1] = q[j]
                              /\ Below(p, j + 1) = Below(q, j)
  BY PushIndex
<1> HIDE DEF p
<1>2. Fits(p, c) <=> Fit(f, Ops(q), c) /\ Fits(q, c)
  BY <1>1 DEF Fits
<1> QED BY <1>2 DEF p

LEMMA EmitsPush ==
  \A f, q : IsStack(q) =>
    (Emits(Push(f, q)) <=> Emitter(f, Ops(q)) \/ Emits(q))
<1> SUFFICES ASSUME NEW f, NEW q, IsStack(q)
             PROVE Emits(Push(f, q)) <=> Emitter(f, Ops(q)) \/ Emits(q)
  OBVIOUS
<1> DEFINE p == Push(f, q)
<1>1. /\ \A i \in DOMAIN p : i = 1 \/ \E j \in DOMAIN q : i = j + 1
      /\ 1 \in DOMAIN p /\ p[1] = f /\ Below(p, 1) = Ops(q)
      /\ \A j \in DOMAIN q : j + 1 \in DOMAIN p /\ p[j + 1] = q[j]
                              /\ Below(p, j + 1) = Below(q, j)
  BY PushIndex
<1> HIDE DEF p
<1>2. Emits(p) <=> Emitter(f, Ops(q)) \/ Emits(q)
  BY <1>1 DEF Emits
<1> QED BY <1>2 DEF p

LEMMA RefreshesPush ==
  \A f, q : IsStack(q) =>
    (Refreshes(Push(f, q)) <=> Refresher(f, Ops(q)) \/ Refreshes(q))
<1> SUFFICES ASSUME NEW f, NEW q, IsStack(q)
             PROVE Refreshes(Push(f, q)) <=> Refresher(f, Ops(q))
                    \/ Refreshes(q)
  OBVIOUS
<1> DEFINE p == Push(f, q)
<1>1. /\ \A i \in DOMAIN p : i = 1 \/ \E j \in DOMAIN q : i = j + 1
      /\ 1 \in DOMAIN p /\ p[1] = f /\ Below(p, 1) = Ops(q)
      /\ \A j \in DOMAIN q : j + 1 \in DOMAIN p /\ p[j + 1] = q[j]
                              /\ Below(p, j + 1) = Below(q, j)
  BY PushIndex
<1> HIDE DEF p
<1>2. Refreshes(p) <=> Refresher(f, Ops(q)) \/ Refreshes(q)
  BY <1>1 DEF Refreshes
<1> QED BY <1>2 DEF p

LEMMA BringsPush ==
  \A f, q, x : IsStack(q) =>
    (Brings(Push(f, q), x) <=> Bringer(f, Ops(q), x) \/ Brings(q, x))
<1> SUFFICES ASSUME NEW f, NEW q, NEW x, IsStack(q)
             PROVE Brings(Push(f, q), x) <=> Bringer(f, Ops(q), x)
                    \/ Brings(q, x)
  OBVIOUS
<1> DEFINE p == Push(f, q)
<1>1. /\ \A i \in DOMAIN p : i = 1 \/ \E j \in DOMAIN q : i = j + 1
      /\ 1 \in DOMAIN p /\ p[1] = f /\ Below(p, 1) = Ops(q)
      /\ \A j \in DOMAIN q : j + 1 \in DOMAIN p /\ p[j + 1] = q[j]
                              /\ Below(p, j + 1) = Below(q, j)
  BY PushIndex
<1> HIDE DEF p
<1>2. Brings(p, x) <=> Bringer(f, Ops(q), x) \/ Brings(q, x)
  BY <1>1 DEF Brings
<1> QED BY <1>2 DEF p

LEMMA ReportsPush ==
  \A f, q : IsStack(q) =>
    (Reports(Push(f, q)) <=> Reporter(f, Ops(q)) \/ Reports(q))
<1> SUFFICES ASSUME NEW f, NEW q, IsStack(q)
             PROVE Reports(Push(f, q)) <=> Reporter(f, Ops(q)) \/ Reports(q)
  OBVIOUS
<1> DEFINE p == Push(f, q)
<1>1. /\ \A i \in DOMAIN p : i = 1 \/ \E j \in DOMAIN q : i = j + 1
      /\ 1 \in DOMAIN p /\ p[1] = f /\ Below(p, 1) = Ops(q)
      /\ \A j \in DOMAIN q : j + 1 \in DOMAIN p /\ p[j + 1] = q[j]
                              /\ Below(p, j + 1) = Below(q, j)
  BY PushIndex
<1> HIDE DEF p
<1>2. Reports(p) <=> Reporter(f, Ops(q)) \/ Reports(q)
  BY <1>1 DEF Reports
<1> QED BY <1>2 DEF p

\* What is under calls p stays to be done.
LEMMA OverKeeps ==
  \A p, q : Over(p, q) =>
    /\ Ops(q) \subseteq Ops(p)
    /\ Emits(q) => Emits(p)
    /\ Refreshes(q) => Refreshes(p)
    /\ \A x : Brings(q, x) => Brings(p, x)
    /\ Reports(q) => Reports(p)
<1> SUFFICES ASSUME NEW p, NEW q, Over(p, q)
             PROVE /\ Ops(q) \subseteq Ops(p)
                   /\ Emits(q) => Emits(p)
                   /\ Refreshes(q) => Refreshes(p)
                   /\ \A x : Brings(q, x) => Brings(p, x)
                   /\ Reports(q) => Reports(p)
  OBVIOUS
<1>1. \A i \in DOMAIN q : \E j \in DOMAIN p :
        p[j] = q[i] /\ Below(p, j) = Below(q, i)
  BY DEF Over
<1>2. Ops(q) \subseteq Ops(p) BY <1>1 DEF Ops
<1>3. Emits(q) => Emits(p) BY <1>1 DEF Emits
<1>4. Refreshes(q) => Refreshes(p) BY <1>1 DEF Refreshes
<1>5. \A x : Brings(q, x) => Brings(p, x) BY <1>1 DEF Brings
<1>6. Reports(q) => Reports(p) BY <1>1 DEF Reports
<1> QED BY <1>2, <1>3, <1>4, <1>5, <1>6

-----------------------------------------------------------------------------
(* What the calls have in common they keep in every step, as long as they  *)
(* are compared with the same.                                             *)

\* c is what the calls are compared with now.
Current(c) ==
  /\ c.phase \in {"refresh", "show", "lift"}
  /\ c.pars = Params /\ c.pos = sense.sample /\ c.angles = TriangleAngles

LEMMA ContextIs ==
  \A p, w : p \in {"refresh", "show", "lift"} =>
    /\ Current(Context(p, w))
    /\ Context(p, w).phase = p /\ Context(p, w).vars = w
BY DEF Current, Context

LEMMA FitsMore ==
  \A f, q, c : IsStack(q) /\ Fits(q, c) /\ Fit(f, Ops(q), c) =>
    IsStack(Push(f, q)) /\ Fits(Push(f, q), c)
BY FitsPush, StackPush

\* The call that is made, and the flags that it finds.
LEMMA FitHead ==
  ASSUME Control, NEW c, Fits(todo, c), IsStack(Rest),
         todo = Push(Head(todo), Rest)
  PROVE /\ Fit(Head(todo), Ops(Rest), c) /\ Fits(Rest, c)
        /\ Ops(todo) = {Head(todo).op} \cup Ops(Rest)
        /\ "LoadEnd" \notin Ops(todo) /\ ready.tri /\ ready.real
        /\ dont.recip <=> "TasChangedEnd" \in Ops(todo)
        /\ dont.real <=> "RealTriangleChangedEnd" \in Ops(todo)
        /\ dont.tof <=> "TofTriangleChangedEnd" \in Ops(todo)
        /\ busy.real <=> "RealMovedEnd" \in Ops(todo)
<1> DEFINE h == Head(todo)
<1>1. Fits(Push(h, Rest), c) OBVIOUS
<1>2. Ops(Push(h, Rest)) = {h.op} \cup Ops(Rest) BY PushOps
<1>3. "LoadEnd" \notin Ops(todo) BY DEF Fits, Fit, FollowOps, Ops
<1>4. Flags BY DEF Control
<1> HIDE DEF h
<1>5. Fit(h, Ops(Rest), c) /\ Fits(Rest, c) BY <1>1, FitsPush
<1>6. /\ ready.tri /\ ready.real
      /\ dont.recip <=> "TasChangedEnd" \in Ops(todo)
      /\ dont.real <=> "RealTriangleChangedEnd" \in Ops(todo)
      /\ dont.tof <=> "TofTriangleChangedEnd" \in Ops(todo)
      /\ busy.real <=> "RealMovedEnd" \in Ops(todo)
  BY <1>3, <1>4 DEF Flags
<1> QED BY <1>2, <1>3, <1>5, <1>6 DEF h

\* The calls that fit wherever they are made.
Simples ==
  {"EmitAllParams", "TasChangedEnd", "RealMovedEnd", "RealEmitAllParams",
   "TofTriangleChanged", "TofTriangleChangedEnd", "TofMovedEnd", "ResoReal",
   "ResoSense"}

LEMMA SimpleFit == \A f, O, c : f.op \in Simples => Fit(f, O, c)
BY DEF Simples, Fit, FollowOps, ParOps, Tells, Lifts, TofLifts, Drawers

LEMMA SimplePush ==
  \A f, q, c : IsStack(q) /\ Fits(q, c) /\ f.op \in Simples =>
    IsStack(Push(f, q)) /\ Fits(Push(f, q), c)
BY SimpleFit, FitsMore

LEMMA SimpleFits ==
  ASSUME Control, NEW c, Fits(todo, c), IsStack(Rest),
         todo = Push(Head(todo), Rest),
         \/ TasChangedEnd \/ RealTriangleChangedEnd \/ RealMovedEnd
         \/ RealEmitAllParams \/ TofTriangleChangedEnd \/ TofMovedEnd
         \/ ResoRecip \/ ResoReal \/ ResoSense
  PROVE Fits(todo', c)
<1>1. IsStack(todo) BY DEF Control
<1>2. Fits(Rest, c) BY FitHead
<1> DEFINE f == CallOf("RealEmitAllParams")
           g == CallWith("ResoReal", RealAngles)
<1>3. f.op \in Simples /\ g.op \in Simples BY Calling DEF Simples
<1>4. todo' \in {Rest, Push(f, Rest), Push(g, Rest)}
  BY <1>1, TasChangedEndEffect, RealTriangleChangedEndEffect,
     RealMovedEndEffect, RealEmitAllParamsEffect, TofTriangleChangedEndEffect,
     TofMovedEndEffect, ResoRecipEffect, ResoRealEffect, ResoSenseEffect
<1> HIDE DEF f, g
<1> QED BY <1>2, <1>3, <1>4, SimplePush

\* The calls that give the parameters.
LEMMA ParFit ==
  \A f, O, c : f.op \in ParOps /\ f.arg = c.pars => Fit(f, O, c)
BY DEF Fit, FollowOps, ParOps, Tells, Lifts, TofLifts, Drawers

LEMMA ParFits ==
  ASSUME Control, NEW c, Current(c), Fits(todo, c), IsStack(Rest),
         todo = Push(Head(todo), Rest),
         EmitAllParams \/ RecipDialogs \/ RealAngleKiQ \/ TofAngleKiQ
  PROVE Fits(todo', c)
<1>1. IsStack(todo) BY DEF Control
<1>2. Fits(Rest, c) /\ Fit(Head(todo), Ops(Rest), c) /\ ready.tri BY FitHead
<1> DEFINE h == Head(todo)
           T(q) == IsStack(q) /\ Fits(q, c)
<1>3. T(Rest) BY <1>2
<1>4. \A f, q : T(q) /\ f.op \in ParOps /\ f.arg = c.pars => T(Push(f, q))
  BY ParFit, FitsMore
<1>5. \A f, q : T(q) /\ f.op \in {"RealMoved", "TofMoved"} /\ f.arg = "none" =>
        T(Push(f, q))
  <2>1. \A f, O : f.op \in {"RealMoved", "TofMoved"} /\ f.arg = "none"
        => Fit(f, O, c)
    BY DEF Fit, FollowOps, ParOps, Tells, Lifts, TofLifts, Drawers
  <2> QED BY <2>1, FitsMore
<1> HIDE DEF T
<1>6. CASE EmitAllParams
  <2> DEFINE f == CallWith("RealAngleKiQ", Params)
             g == CallWith("TofAngleKiQ", Params)
             l == CallWith("RecipDialogs", Params)
  <2>1. /\ f.op \in ParOps /\ g.op \in ParOps /\ l.op \in ParOps
        /\ f.arg = c.pars /\ g.arg = c.pars /\ l.arg = c.pars
    BY Calling DEF ParOps, Current
  <2>2. todo' = Push(f, Push(g, Push(l, Rest)))
    BY <1>1, <1>2, <1>6, EmitAllParamsEffect
  <2> HIDE DEF f, g, l
  <2>3. T(Push(l, Rest)) BY <1>3, <1>4, <2>1
  <2>4. T(Push(g, Push(l, Rest))) BY <1>4, <2>1, <2>3
  <2>5. T(Push(f, Push(g, Push(l, Rest)))) BY <1>4, <2>1, <2>4
  <2> QED BY <2>2, <2>5 DEF T
<1>7. CASE RecipDialogs
  <2>1. h.op = "RecipDialogs" /\ h.arg = Arg
    BY <1>1, <1>7, RecipDialogsEffect DEF Arg
  <2>2. Arg = c.pars BY <1>2, <2>1 DEF Fit, ParOps
  <2> DEFINE f == CallWith("ResoRecip", Arg)
  <2>3. f.op \in ParOps /\ f.arg = c.pars BY <2>2, Calling DEF ParOps
  <2>4. todo' \in {Rest, Push(f, Rest)} BY <1>1, <1>7, RecipDialogsEffect
  <2> HIDE DEF f
  <2> QED BY <1>3, <1>4, <2>3, <2>4 DEF T
<1>8. CASE RealAngleKiQ \/ TofAngleKiQ
  <2> DEFINE f == CallWith("RealMoved", "none")
             g == CallWith("TofMoved", "none")
  <2>1. /\ f.op = "RealMoved" /\ f.arg = "none"
        /\ g.op = "TofMoved" /\ g.arg = "none"
    BY Calling
  <2>2. todo' \in {Push(f, Rest), Push(g, Rest)}
    BY <1>1, <1>8, RealAngleKiQEffect, TofAngleKiQEffect
  <2> HIDE DEF f, g
  <2> QED BY <1>3, <1>5, <2>1, <2>2 DEF T
<1> QED BY <1>6, <1>7, <1>8

\* The calls by which the triangle is changed and emits.
LEMMA TriangleFit ==
  \A f, O, c : f.op \in {"TriangleMoved", "EmitUpdate"}
               /\ (c.phase = "lift" => "TasChangedEnd" \in O) => Fit(f, O, c)
BY DEF Fit, FollowOps, ParOps, Tells, Lifts, TofLifts, Drawers

LEMMA TriangleFits ==
  ASSUME Control, NEW c, Current(c), Fits(todo, c), IsStack(Rest),
         todo = Push(Head(todo), Rest),
         TriangleMoved \/ EmitUpdate \/ Set \/ SetSense
  PROVE Fits(todo', c)
<1>1. IsStack(todo) /\ Typed(todo) BY DEF Control
<1> DEFINE h == Head(todo)
           O == Ops(Rest)
<1>2. /\ Fits(Rest, c) /\ Fit(h, O, c) /\ ready.tri
           /\ Ops(todo) = {h.op} \cup O
      /\ dont.recip <=> "TasChangedEnd" \in Ops(todo)
  BY FitHead
<1>3. h.op \in {"TriangleMoved", "EmitUpdate", "Set", "SetSense"}
  BY <1>1, TriangleMovedEffect, EmitUpdateEffect, SetEffect, SetSenseEffect
<1>4. c.phase = "lift" => "TasChangedEnd" \in O BY <1>2, <1>3 DEF Fit
<1> DEFINE T(q) == IsStack(q) /\ Fits(q, c) /\ O \subseteq Ops(q)
<1>5. T(Rest) BY <1>2
<1>6. \A f, q : T(q) /\ f.op \in {"TriangleMoved", "EmitUpdate"}
      => T(Push(f, q))
  BY <1>4, TriangleFit, FitsMore, PushOps
<1>7. \A f, q : T(q) /\ f.op \in Simples => T(Push(f, q))
  BY SimplePush, PushOps
<1> HIDE DEF T
<1> DEFINE t(s) == CallWith("TriangleMoved", s)
           u == CallOf("EmitUpdate")
           a == CallOf("EmitAllParams")
           r == CallOf("ResoSense")
<1>8. /\ \A s : t(s).op = "TriangleMoved"
      /\ u.op = "EmitUpdate" /\ a.op \in Simples /\ r.op \in Simples
  BY Calling DEF Simples
<1>9. CASE TriangleMoved \/ Set
  <2>1. \/ todo' = Push(t("Gq"), Push(u, Push(a, Rest)))
        \/ todo' = Push(u, Push(a, Rest)) \/ todo' = Push(t("KfQ"), Rest)
    BY <1>1, <1>2, <1>9, TriangleMovedEffect, SetEffect
  <2> HIDE DEF t, u, a, r
  <2>2. T(Push(a, Rest)) BY <1>5, <1>7, <1>8
  <2>3. T(Push(u, Push(a, Rest))) BY <1>6, <1>8, <2>2
  <2>4. T(Push(t("Gq"), Push(u, Push(a, Rest)))) BY <1>6, <1>8, <2>3
  <2>5. T(Push(t("KfQ"), Rest)) BY <1>5, <1>6, <1>8
  <2> QED BY <2>1, <2>3, <2>4, <2>5 DEF T
<1>10. CASE SetSense
  <2>1. \/ todo' = Push(u, Push(a, Push(r, Push(u, Rest))))
        \/ todo' = Push(u, Push(a, Push(r, Rest)))
    BY <1>1, <1>10, SetSenseEffect
  <2> HIDE DEF t, u, a, r
  <2>2. T(Push(u, Rest)) BY <1>5, <1>6, <1>8
  <2>3. \A q : T(q) => T(Push(r, q)) BY <1>7, <1>8
  <2>4. \A q : T(q) => T(Push(a, Push(r, q))) BY <1>7, <1>8, <2>3
  <2>5. \A q : T(q) => T(Push(u, Push(a, Push(r, q)))) BY <1>6, <1>8, <2>4
  <2> QED BY <1>5, <2>1, <2>2, <2>5 DEF T
<1>11. CASE EmitUpdate
  <2> DEFINE A == TriangleAngles
             f == CallWith("RealTriangleChanged", A)
             g == CallWith("TofTriangleChanged", A)
  <2>1. /\ f.op = "RealTriangleChanged" /\ f.arg = A /\ g.op \in Simples
    BY Calling DEF Simples
  <2>2. c.angles = A BY DEF Current
  <2>3. dont.recip \/ todo' = Push(f, Push(g, Rest))
    BY <1>1, <1>2, <1>11, EmitUpdateEffect
  <2>4. dont.recip => todo' = Rest BY <1>1, <1>11, EmitUpdateEffect
  <2>5. c.phase = "lift" => dont.recip BY <1>2, <1>4
  <2> HIDE DEF f, g, A
  <2>6. T(Push(g, Rest)) BY <1>5, <1>7, <2>1
  <2>7. ASSUME c.phase # "lift" PROVE \A P : Fit(f, P, c)
    BY <2>1, <2>2, <2>7 DEF Fit, FollowOps, ParOps, Tells, Lifts, TofLifts
  <2>8. ASSUME ~dont.recip PROVE Fits(todo', c)
    BY <2>3, <2>5, <2>6, <2>7, <2>8, FitsMore DEF T
  <2> QED BY <1>2, <2>4, <2>8
<1> QED BY <1>9, <1>10, <1>11

\* The movements of the layouts, and what they emit.
LEMMA MovedFits ==
  ASSUME Control, NEW c, Current(c), Fits(todo, c), IsStack(Rest),
         todo = Push(Head(todo), Rest),
         RealMoved \/ RealEmit \/ TofMoved \/ TofEmit
  PROVE Fits(todo', c)
<1>1. IsStack(todo) /\ Typed(todo) BY DEF Control
<1> DEFINE h == Head(todo)
           O == Ops(Rest)
<1>2. /\ Fits(Rest, c) /\ Fit(h, O, c) /\ ready.real
           /\ Ops(todo) = {h.op} \cup O
      /\ dont.real <=> "RealTriangleChangedEnd" \in Ops(todo)
      /\ dont.tof <=> "TofTriangleChangedEnd" \in Ops(todo)
  BY FitHead
<1>3. Arg = h.arg BY DEF Arg
<1>4. CASE RealMoved
  <2> DEFINE e == CallWith("RealMovedEnd", At("RealMoved"))
             p == Push(e, Rest)
  <2>1. CASE busy.real BY <1>1, <1>2, <1>4, <2>1, RealMovedEffect
  <2>2. CASE ~busy.real
    <3>1. e.op = "RealMovedEnd" BY Calling
    <3>2. \/ todo' = p
          \/ \E x \in {"mono", "tt", "ana"} :
               /\ Arg = Mover[x]
               /\ todo' = Push(CallWith("RealEmit", Only(x, real[x])), p)
      BY <1>1, <1>2, <1>4, <2>2, RealMovedCases
    <3>3. h.op \in {"RealMoved", "RealMovedFirst"}
          BY <1>1, <1>4, RealMovedEffect
    <3> HIDE DEF e, h
    <3>4. IsStack(p) /\ Fits(p, c) /\ Ops(p) = {"RealMovedEnd"} \cup O
      BY <1>2, <3>1, SimplePush, PushOps DEF Simples
    <3> HIDE DEF p
    <3>5. ASSUME NEW x \in {"mono", "tt", "ana"}, Arg = Mover[x],
                 todo' = Push(CallWith("RealEmit", Only(x, real[x])), p)
          PROVE Fits(todo', c)
      <4> DEFINE f == CallWith("RealEmit", Only(x, real[x]))
      <4>1. f.op = "RealEmit" BY Calling
      <4>2. Lifts(h) BY <1>3, <3>3, <3>5 DEF Lifts, Mover
      <4> HIDE DEF f
      <4>3. Fit(f, Ops(p), c)
        BY <1>2, <3>3, <3>4, <4>1, <4>2
           DEF Fit, FollowOps, ParOps, Tells, Lifts, TofLifts, Drawers
      <4> QED BY <3>4, <3>5, <4>3, FitsMore DEF f
    <3> QED BY <3>2, <3>4, <3>5
  <2> QED BY <2>1, <2>2
<1>5. CASE RealEmit
  <2>1. h.op = "RealEmit" BY <1>1, <1>5, RealEmitEffect
  <2>2. CASE dont.real BY <1>1, <1>2, <1>5, <2>2, RealEmitEffect
  <2>3. CASE ~dont.real
    <3> DEFINE f == CallWith("TasChanged", Arg)
               g == CallWith("TofTriangleChanged", Arg)
    <3>1. todo' = Push(f, Push(g, Rest))
          BY <1>1, <1>2, <1>5, <2>3, RealEmitEffect
    <3>2. f.op = "TasChanged" /\ f.arg = Arg /\ g.op = "TofTriangleChanged"
          BY Calling
    <3>3. "RealTriangleChangedEnd" \notin O BY <1>2, <2>3
    <3> HIDE DEF f, g, h
    <3>4. /\ IsStack(Push(g, Rest)) /\ Fits(Push(g, Rest), c)
          /\ Ops(Push(g, Rest)) = {"TofTriangleChanged"} \cup O
      BY <1>2, <3>2, SimplePush, PushOps DEF Simples
    <3>5. Fit(f, Ops(Push(g, Rest)), c)
      BY <1>2, <1>3, <2>1, <3>2, <3>3, <3>4
         DEF Fit, FollowOps, ParOps, Tells, Lifts, TofLifts, Drawers
    <3> QED BY <3>1, <3>4, <3>5, FitsMore
  <2> QED BY <2>2, <2>3
<1>6. CASE TofMoved
  <2> DEFINE e == CallOf("TofMovedEnd")
             p == Push(e, Rest)
             f == CallWith("TofEmit", Only("tt", tof.tt))
  <2>1. e.op = "TofMovedEnd" /\ f.op = "TofEmit" BY Calling
  <2>2. \/ todo' = Rest \/ todo' = p
        \/ todo' = Push(f, p) /\ h.op = "TofMoved"
             /\ h.arg \in {"sample", "det"}
    BY <1>1, <1>6, TofMovedEffect DEF Arg
  <2> HIDE DEF e, f, h
  <2>3. IsStack(p) /\ Fits(p, c) /\ Ops(p) = {"TofMovedEnd"} \cup O
    BY <1>2, <2>1, SimplePush, PushOps DEF Simples
  <2> HIDE DEF p
  <2>4. CASE todo' = Push(f, p) /\ h.op = "TofMoved"
        /\ h.arg \in {"sample", "det"}
    <3>1. Fit(f, Ops(p), c)
      BY <1>2, <2>1, <2>3, <2>4
         DEF Fit, FollowOps, ParOps, Tells, Lifts, TofLifts, Drawers
    <3> QED BY <2>3, <2>4, <3>1, FitsMore
  <2> QED BY <1>2, <2>2, <2>3, <2>4
<1>7. CASE TofEmit
  <2>1. h.op = "TofEmit" BY <1>1, <1>7, TofEmitEffect
  <2>2. dont.tof BY <1>2, <2>1 DEF Fit, TofLifts
  <2> QED BY <1>1, <1>2, <1>7, <2>2, TofEmitEffect
<1> QED BY <1>4, <1>5, <1>6, <1>7

\* The setters, one after the other, on top of calls that keep the property.
LEMMA SetterPush ==
  \A o, x, a, q, c :
    /\ IsStack(q) /\ Fits(q, c)
    /\ x \in DOMAIN a => Fit(CallWith(o, Only(x, a[x])), Ops(q), c)
    => /\ IsStack(Setting(o, x, a, q)) /\ Fits(Setting(o, x, a, q), c)
       /\ Ops(q) \subseteq Ops(Setting(o, x, a, q))
       /\ Ops(Setting(o, x, a, q)) \subseteq {o} \cup Ops(q)
<1> SUFFICES ASSUME NEW o, NEW x, NEW a, NEW q, NEW c, IsStack(q), Fits(q, c),
                    x \in DOMAIN a => Fit(CallWith(o, Only(x, a[x])), Ops(q),
                      c)
             PROVE /\ IsStack(Setting(o, x, a, q))
                      /\ Fits(Setting(o, x, a, q), c)
                   /\ Ops(q) \subseteq Ops(Setting(o, x, a, q))
                   /\ Ops(Setting(o, x, a, q)) \subseteq {o} \cup Ops(q)
  OBVIOUS
<1>1. CASE x \notin DOMAIN a BY <1>1 DEF Setting
<1>2. CASE x \in DOMAIN a
  <2> DEFINE f == CallWith(o, Only(x, a[x]))
  <2>1. f.op = o BY Calling
  <2>2. Setting(o, x, a, q) = Push(f, q) BY <1>2 DEF Setting
  <2>3. Fit(f, Ops(q), c) BY <1>2
  <2> HIDE DEF f
  <2>4. Ops(Push(f, q)) = {o} \cup Ops(q) BY <2>1, PushOps
  <2>5. IsStack(Push(f, q)) /\ Fits(Push(f, q), c) BY <2>3, FitsMore
  <2> QED BY <2>2, <2>4, <2>5
<1> QED BY <1>1, <1>2

LEMMA TasChangedFits ==
  ASSUME Control, NEW c, Current(c), Fits(todo, c), IsStack(Rest),
         todo = Push(Head(todo), Rest), TasChanged
  PROVE Fits(todo', c)
<1>1. IsStack(todo) /\ Typed(todo) BY DEF Control
<1> DEFINE h == Head(todo)
           O == Ops(Rest)
           a == Arg
           e == CallOf("TasChangedEnd")
           T(q) == /\ IsStack(q) /\ Fits(q, c) /\ O \subseteq Ops(q)
                   /\ "TasChangedEnd" \in Ops(q) /\ Ops(q) \cap ParOps = {}
           S(x, q) == Setting("Set", x, a, q)
<1>2. Fits(Rest, c) /\ Fit(h, O, c) /\ ready.tri BY FitHead
<1>3. h.op = "TasChanged" /\ a = h.arg BY <1>1, TasChangedEffect DEF Arg
<1>4. todo' = S("mono", S("ana", S("tt", S("kivec", Push(e, Rest)))))
  BY <1>1, <1>2, TasChangedEffect
<1>5. e.op = "TasChangedEnd" BY Calling
<1> HIDE DEF h, a, e
<1>6. /\ O \cap ParOps = {}
      /\ c.phase # "lift" =>
           /\ \A x \in DOMAIN a \cap {"tt", "kivec"} : a[x] = c.vars[x]
           /\ "SetSense" \in O \/ DOMAIN a \subseteq {"tt", "kivec"}
  BY <1>2, <1>3 DEF Fit, Tells
<1>7. T(Push(e, Rest))
  BY <1>2, <1>5, <1>6, SimplePush, PushOps DEF Simples, ParOps
<1>8. ASSUME NEW x, NEW q, T(q) PROVE T(S(x, q))
  <2>1. ASSUME x \in DOMAIN a
        PROVE Fit(CallWith("Set", Only(x, a[x])), Ops(q), c)
    <3> DEFINE v == a[x]
               f == CallWith("Set", Only(x, v))
    <3>1. f.op = "Set" /\ f.arg = Only(x, v) BY Calling
    <3> HIDE DEF f
    <3>2. DOMAIN f.arg = {x} /\ f.arg[x] = v BY <3>1, OnlyIs
    <3>3. c.phase # "lift" =>
            /\ \A y \in DOMAIN f.arg \cap {"tt", "kivec"} : f.arg[y]
                 = c.vars[y]
            /\ "SetSense" \in O \/ DOMAIN f.arg \subseteq {"tt", "kivec"}
      BY <1>6, <2>1, <3>2
    <3>4. Fit(f, Ops(q), c)
      BY <1>8, <3>1, <3>3
         DEF Fit, FollowOps, ParOps, Tells, Lifts, TofLifts, Drawers
    <3> QED BY <3>4 DEF f
  <2>2. /\ IsStack(S(x, q)) /\ Fits(S(x, q), c)
        /\ Ops(q) \subseteq Ops(S(x, q))
             /\ Ops(S(x, q)) \subseteq {"Set"} \cup Ops(q)
    BY <1>8, <2>1, SetterPush
  <2> QED BY <1>8, <2>2 DEF ParOps
<1> HIDE DEF T, S
<1>9. T(todo') BY <1>4, <1>7, <1>8
<1> QED BY <1>9 DEF T

LEMMA RealTriangleChangedFits ==
  ASSUME Control, NEW c, Current(c), Fits(todo, c), IsStack(Rest),
         todo = Push(Head(todo), Rest), RealTriangleChanged
  PROVE Fits(todo', c)
<1>1. IsStack(todo) /\ Typed(todo) BY DEF Control
<1> DEFINE h == Head(todo)
           a == Arg
           e == CallOf("RealTriangleChangedEnd")
           T(q) == IsStack(q) /\ Fits(q, c)
             /\ "RealTriangleChangedEnd" \in Ops(q)
           S(x, q) == Setting("RealSet", x, a, q)
<1>2. Fits(Rest, c) /\ Fit(h, Ops(Rest), c) /\ ready.real BY FitHead
<1>3. h.op = "RealTriangleChanged" /\ a = h.arg
  BY <1>1, RealTriangleChangedEffect DEF Arg
<1>4. todo' = S("mono", S("ana", S("th", S("tt", Push(e, Rest)))))
  BY <1>1, <1>2, RealTriangleChangedEffect
<1>5. e.op = "RealTriangleChangedEnd" BY Calling
<1> HIDE DEF h, a, e
<1>6. /\ c.phase # "lift"
      /\ c.phase = "show" => \A x \in DOMAIN a \ {"kivec"} : a[x] = c.angles[x]
  BY <1>2, <1>3 DEF Fit, Drawers
<1>7. T(Push(e, Rest))
  <2>1. Fit(e, Ops(Rest), c)
    BY <1>5, <1>6 DEF Fit, FollowOps, ParOps, Tells, Lifts, TofLifts, Drawers
  <2> QED BY <1>2, <1>5, <2>1, FitsMore, PushOps
<1>8. ASSUME NEW x \in Angles, NEW q, T(q) PROVE T(S(x, q))
  <2>1. ASSUME x \in DOMAIN a
        PROVE Fit(CallWith("RealSet", Only(x, a[x])), Ops(q), c)
    <3> DEFINE v == a[x]
               f == CallWith("RealSet", Only(x, v))
    <3>1. f.op = "RealSet" /\ f.arg = Only(x, v) BY Calling
    <3> HIDE DEF f
    <3>2. DOMAIN f.arg = {x} /\ f.arg[x] = v BY <3>1, OnlyIs
    <3>3. c.phase = "show" =>
            \A y \in DOMAIN f.arg \ {"kivec"} : f.arg[y] = c.angles[y]
      BY <1>6, <2>1, <3>2 DEF Angles
    <3>4. Fit(f, Ops(q), c)
      BY <1>6, <1>8, <3>1, <3>3
         DEF Fit, FollowOps, ParOps, Tells, Lifts, TofLifts, Drawers
    <3> QED BY <3>4 DEF f
  <2>2. /\ IsStack(S(x, q)) /\ Fits(S(x, q), c)
             /\ Ops(q) \subseteq Ops(S(x, q))
    BY <1>8, <2>1, SetterPush
  <2> QED BY <1>8, <2>2
<1> HIDE DEF T, S
<1>9. T(todo') BY <1>4, <1>7, <1>8 DEF Angles
<1> QED BY <1>9 DEF T

LEMMA TofTriangleChangedFits ==
  ASSUME Control, NEW c, Current(c), Fits(todo, c), IsStack(Rest),
         todo = Push(Head(todo), Rest), TofTriangleChanged
  PROVE Fits(todo', c)
<1>1. IsStack(todo) /\ Typed(todo) BY DEF Control
<1> DEFINE a == Arg
           e == CallOf("TofTriangleChangedEnd")
           T(q) == IsStack(q) /\ Fits(q, c)
             /\ "TofTriangleChangedEnd" \in Ops(q)
           S(x, q) == Setting("TofSet", x, a, q)
<1>2. Fits(Rest, c) BY FitHead
<1>3. todo' = S("th", S("tt", Push(e, Rest))) BY <1>1, TofTriangleChangedEffect
<1>4. e.op = "TofTriangleChangedEnd" BY Calling
<1> HIDE DEF a, e
<1>5. T(Push(e, Rest)) BY <1>2, <1>4, SimplePush, PushOps DEF Simples
<1>6. ASSUME NEW x, NEW q, T(q) PROVE T(S(x, q))
  <2>1. Fit(CallWith("TofSet", Only(x, a[x])), Ops(q), c)
    BY <1>6, Calling DEF Fit, FollowOps, ParOps, Tells, Lifts, TofLifts,
      Drawers
  <2>2. /\ IsStack(S(x, q)) /\ Fits(S(x, q), c)
             /\ Ops(q) \subseteq Ops(S(x, q))
    BY <1>6, <2>1, SetterPush
  <2> QED BY <1>6, <2>2
<1> HIDE DEF T, S
<1>7. T(todo') BY <1>3, <1>5, <1>6
<1> QED BY <1>7 DEF T

LEMMA SetterFits ==
  ASSUME Control, NEW c, Current(c), Fits(todo, c), IsStack(Rest),
         todo = Push(Head(todo), Rest), RealSet \/ TofSet
  PROVE Fits(todo', c)
<1>1. IsStack(todo) /\ Typed(todo) BY DEF Control
<1> DEFINE h == Head(todo)
           O == Ops(Rest)
<1>2. Fits(Rest, c) /\ Fit(h, O, c) BY FitHead
<1>3. CASE RealSet
  <2>1. h.op = "RealSet" BY <1>1, <1>3, RealSetEffect
  <2>2. "RealTriangleChangedEnd" \in O BY <1>2, <2>1 DEF Fit
  <2> DEFINE f(s) == CallWith("RealMoved", s)
             g == CallWith("RealMovedFirst", "sample")
  <2>3. \/ todo' = Push(g, Push(f("ana"), Rest)) \/ \E s : todo' = Push(f(s),
             Rest)
    BY <1>1, <1>3, RealSetEffect
  <2>4. g.op = "RealMovedFirst" /\ \A s : f(s).op = "RealMoved" BY Calling
  <2> HIDE DEF f, g
  <2>5. \A s, P : "RealTriangleChangedEnd" \in P =>
          Fit(f(s), P, c) /\ Fit(g, P, c)
    BY <1>2, <2>1, <2>4 DEF Fit, FollowOps, ParOps, Tells, Lifts, TofLifts,
      Drawers
  <2>6. \A s : LET p == Push(f(s), Rest) IN
          IsStack(p) /\ Fits(p, c) /\ "RealTriangleChangedEnd" \in Ops(p)
    BY <1>2, <2>2, <2>5, FitsMore, PushOps
  <2>7. Fits(Push(g, Push(f("ana"), Rest)), c) BY <2>5, <2>6, FitsMore
  <2> QED BY <2>3, <2>6, <2>7
<1>4. CASE TofSet
  <2>1. h.op = "TofSet" BY <1>1, <1>4, TofSetEffect
  <2>2. "TofTriangleChangedEnd" \in O BY <1>2, <2>1 DEF Fit
  <2> DEFINE f(s) == CallWith("TofMoved", s)
  <2>3. \/ todo' = Push(f("sample"), Push(f("det"), Rest))
        \/ todo' = Push(f("none"), Rest)
    BY <1>1, <1>4, TofSetEffect
  <2>4. \A s : f(s).op = "TofMoved" BY Calling
  <2> HIDE DEF f
  <2>5. \A s, P : "TofTriangleChangedEnd" \in P => Fit(f(s), P, c)
    BY <2>4 DEF Fit, FollowOps, ParOps, Tells, Lifts, TofLifts, Drawers
  <2>6. \A s : LET p == Push(f(s), Rest) IN
          IsStack(p) /\ Fits(p, c) /\ "TofTriangleChangedEnd" \in Ops(p)
    BY <1>2, <2>2, <2>5, FitsMore, PushOps
  <2>7. Fits(Push(f("sample"), Push(f("det"), Rest)), c)
        BY <2>5, <2>6, FitsMore
  <2> QED BY <2>3, <2>6, <2>7
<1> QED BY <1>3, <1>4

LEMMA FitsStep ==
  ASSUME Control, Run, NEW c, Current(c), Fits(todo, c), IsStack(Rest),
         todo = Push(Head(todo), Rest)
  PROVE Fits(todo', c)
<1>1. Head(todo).op \in FollowOps BY FitHead DEF Fit
<1>2. ~ResoPars /\ ~ResoLoad /\ ~ResoUpdateOn /\ ~UpdateDs /\ ~CalcPeaks
      /\ ~SnapToPeak /\ ~LoadEnd
  BY <1>1 DEF ResoPars, ResoLoad, ResoUpdateOn, UpdateDs, CalcPeaks,
     SnapToPeak, LoadEnd,
    At,
     FollowOps
<1> QED
  BY <1>2, SimpleFits, ParFits, TriangleFits, MovedFits, TasChangedFits,
     RealTriangleChangedFits, TofTriangleChangedFits, SetterFits
     DEF Run, RealLayout, TofLayout, Dialogs, MainWindow

-----------------------------------------------------------------------------
(* The parameters of the triangle: who listens to them is given them.      *)

LEMMA ActsOf ==
  ASSUME Run
  PROVE /\ At("SetSense") => SetSense
        /\ At("TriangleMoved") => TriangleMoved
        /\ At("EmitUpdate") => EmitUpdate
        /\ At("EmitAllParams") => EmitAllParams
        /\ At("RealAngleKiQ") => RealAngleKiQ
        /\ At("TofAngleKiQ") => TofAngleKiQ
        /\ At("RecipDialogs") => RecipDialogs
        /\ At("RealMovedEnd") => RealMovedEnd
        /\ At("RealEmitAllParams") => RealEmitAllParams
        /\ At("RealTriangleChanged") => RealTriangleChanged
        /\ At("RealSet") => RealSet
BY DEF Run, RealLayout, TofLayout, Dialogs, MainWindow, At,
       TriangleMoved, EmitUpdate, EmitAllParams, TasChanged, TasChangedEnd,
         Set,
       RealTriangleChanged, RealTriangleChangedEnd, RealSet, RealAngleKiQ,
       RealMoved, RealMovedEnd, RealEmit, RealEmitAllParams,
       TofTriangleChanged, TofTriangleChangedEnd, TofSet, TofAngleKiQ,
       TofMoved, TofMovedEnd, TofEmit, RecipDialogs, ResoRecip, ResoReal,
       ResoPars, ResoSense, ResoLoad, ResoUpdateOn, UpdateDs, SetSense,
       CalcPeaks, SnapToPeak, LoadEnd

\* A step runs the call on top.
LEMMA RunHead ==
  ASSUME Run PROVE todo # <<>> /\ \A o : Head(todo).op = o => At(o)
BY DEF Run, RealLayout, TofLayout, Dialogs, MainWindow, At,
       TriangleMoved, EmitUpdate, EmitAllParams, TasChanged, TasChangedEnd,
         Set,
       RealTriangleChanged, RealTriangleChangedEnd, RealSet, RealAngleKiQ,
       RealMoved, RealMovedEnd, RealEmit, RealEmitAllParams,
       TofTriangleChanged, TofTriangleChangedEnd, TofSet, TofAngleKiQ,
       TofMoved, TofMovedEnd, TofEmit, RecipDialogs, ResoRecip, ResoReal,
       ResoPars, ResoSense, ResoLoad, ResoUpdateOn, UpdateDs, SetSense,
       CalcPeaks, SnapToPeak, LoadEnd

\* The triangle stays as it is but for its setters.
LEMMA TriangleStays ==
  ASSUME Run, ~Set, ~SetSense, ~UpdateDs PROVE UNCHANGED <<tri, ds, sense>>
BY DEF Run, RealLayout, TofLayout, Dialogs, MainWindow,
       TriangleMoved, EmitUpdate, EmitAllParams, TasChanged, TasChangedEnd,
       RealTriangleChanged, RealTriangleChangedEnd, RealSet, RealAngleKiQ,
       RealMoved, RealMovedEnd, RealEmit, RealEmitAllParams,
       TofTriangleChanged, TofTriangleChangedEnd, TofSet, TofAngleKiQ,
       TofMoved, TofMovedEnd, TofEmit, RecipDialogs, ResoRecip, ResoReal,
       ResoPars, ResoSense, ResoLoad, ResoUpdateOn,
       CalcPeaks, SnapToPeak, LoadEnd, nodes, optics

LEMMA EmitsMore ==
  \A f, q : IsStack(q) /\ (Emits(q) \/ Emitter(f, Ops(q))) =>
    IsStack(Push(f, q)) /\ Emits(Push(f, q))
BY EmitsPush, StackPush

LEMMA SettingEmits ==
  \A x, a, q : IsStack(q) /\ (Emits(q) \/ x \in DOMAIN a) =>
    IsStack(Setting("Set", x, a, q)) /\ Emits(Setting("Set", x, a, q))
<1> SUFFICES ASSUME NEW x, NEW a, NEW q, IsStack(q), Emits(q) \/ x \in DOMAIN a
             PROVE IsStack(Setting("Set", x, a, q))
                    /\ Emits(Setting("Set", x, a, q))
  OBVIOUS
<1>1. CASE x \notin DOMAIN a BY <1>1 DEF Setting
<1>2. CASE x \in DOMAIN a
  <2> DEFINE f == CallWith("Set", Only(x, a[x]))
  <2>1. f.op = "Set" BY Calling
  <2>2. Setting("Set", x, a, q) = Push(f, q) BY <1>2 DEF Setting
  <2> HIDE DEF f
  <2>3. Emitter(f, Ops(q)) BY <2>1 DEF Emitter
  <2> QED BY <2>2, <2>3, EmitsMore
<1> QED BY <1>1, <1>2

\* Who emits the parameters in the end calls another one that does, until the
\* parameters are emitted.
LEMMA EmitterStep ==
  ASSUME Control, Run, NEW c, Fits(todo, c), IsStack(Rest),
         todo = Push(Head(todo), Rest), Emitter(Head(todo), Ops(Rest))
  PROVE Emits(todo') \/ {"RealAngleKiQ", "TofAngleKiQ",
         "RecipDialogs"} \subseteq Ops(todo')
<1>1. IsStack(todo) /\ Typed(todo) BY DEF Control
<1> DEFINE h == Head(todo)
           O == Ops(Rest)
<1>2. /\ ready.tri /\ ready.real /\ Ops(todo) = {h.op} \cup O
      /\ dont.real <=> "RealTriangleChangedEnd" \in Ops(todo)
      /\ busy.real <=> "RealMovedEnd" \in Ops(todo)
  BY FitHead
<1>3. TypedCall(h) BY HeadFacts
<1>4. Arg = h.arg /\ \A o : h.op = o => At(o) BY RunHead DEF Arg
<1> DEFINE t(s) == CallWith("TriangleMoved", s)
           u == CallOf("EmitUpdate")
           a == CallOf("EmitAllParams")
           r == CallOf("ResoSense")
<1>5. /\ \A s : t(s).op = "TriangleMoved" /\ u.op = "EmitUpdate"
      /\ a.op = "EmitAllParams" /\ r.op = "ResoSense"
  BY Calling
<1> DEFINE T(q) == IsStack(q) /\ Emits(q)
<1>6. \A f, q : T(q) => T(Push(f, q)) BY EmitsMore
<1>7. \A f, q : IsStack(q) /\ f.op \in {"TasChanged", "TriangleMoved",
      "EmitAllParams"} =>
        T(Push(f, q))
  <2>1. \A f, P : f.op \in {"TasChanged", "TriangleMoved", "EmitAllParams"}
        => Emitter(f, P)
    BY DEF Emitter
  <2> QED BY <2>1, EmitsMore
<1>8. CASE h.op = "SetSense"
  <2>1. SetSense BY <1>4, <1>8, ActsOf
  <2>2. \/ todo' = Push(u, Push(a, Push(r, Push(u, Rest))))
        \/ todo' = Push(u, Push(a, Push(r, Rest)))
    BY <1>1, <2>1, SetSenseEffect
  <2> HIDE DEF t, u, a, r, T
  <2>3. IsStack(Push(r, Rest)) /\ IsStack(Push(r, Push(u, Rest))) BY StackPush
  <2>4. T(Push(a, Push(r, Rest))) /\ T(Push(a, Push(r, Push(u, Rest))))
    BY <1>5, <1>7, <2>3
  <2>5. T(todo') BY <1>6, <2>2, <2>4
  <2> QED BY <2>5 DEF T
<1>9. CASE h.op = "TriangleMoved"
  <2>1. TriangleMoved BY <1>4, <1>9, ActsOf
  <2>2. \/ todo' = Push(t("Gq"), Push(u, Push(a, Rest)))
        \/ todo' = Push(u, Push(a, Rest))
    BY <1>1, <1>2, <2>1, TriangleMovedEffect
  <2> HIDE DEF t, u, a, r, T
  <2>3. T(Push(a, Rest)) BY <1>5, <1>7
  <2>4. T(todo') BY <1>6, <2>2, <2>3
  <2> QED BY <2>4 DEF T
<1>10. CASE h.op = "EmitAllParams"
  <2>1. EmitAllParams BY <1>4, <1>10, ActsOf
  <2> DEFINE f == CallWith("RealAngleKiQ", Params)
             g == CallWith("TofAngleKiQ", Params)
             l == CallWith("RecipDialogs", Params)
  <2>2. todo' = Push(f, Push(g, Push(l, Rest)))
    BY <1>1, <1>2, <2>1, EmitAllParamsEffect
  <2>3. f.op = "RealAngleKiQ" /\ g.op = "TofAngleKiQ" /\ l.op = "RecipDialogs"
    BY Calling
  <2> HIDE DEF f, g, l
  <2>4. IsStack(Push(l, Rest)) /\ Ops(Push(l, Rest)) = {l.op} \cup O
    BY StackPush, PushOps
  <2>5. /\ IsStack(Push(g, Push(l, Rest)))
        /\ Ops(Push(g, Push(l, Rest))) = {g.op} \cup Ops(Push(l, Rest))
    BY <2>4, StackPush, PushOps
  <2>6. Ops(todo') = {f.op} \cup Ops(Push(g, Push(l, Rest)))
    BY <2>2, <2>5, PushOps
  <2> QED BY <2>3, <2>4, <2>5, <2>6
<1>11. CASE h.op = "TasChanged"
  <2>1. TasChanged BY <1>4, <1>11, HeadActs
  <2> DEFINE b == Arg
             p == Push(CallOf("TasChangedEnd"), Rest)
             S(x, q) == Setting("Set", x, b, q)
  <2>2. todo' = S("mono", S("ana", S("tt", S("kivec", p))))
    BY <1>1, <1>2, <2>1, TasChangedEffect
  <2>3. DOMAIN b # {} /\ DOMAIN b \subseteq AngleNames \ {"th"}
    BY <1>3, <1>4, <1>11 DEF TypedCall
  <2>4. "mono" \in DOMAIN b \/ "ana" \in DOMAIN b \/ "tt" \in DOMAIN b
        \/ "kivec" \in DOMAIN b
    BY <2>3 DEF AngleNames, Angles
  <2>5. IsStack(p) BY StackPush
  <2> HIDE DEF b, p
  <2>6. \A x, q : IsStack(q) => IsStack(S(x, q)) BY StackPush DEF Setting
  <2>7. \A x, q : IsStack(q) /\ (Emits(q) \/ x \in DOMAIN b) => T(S(x, q))
    BY SettingEmits
  <2> HIDE DEF S
  <2> DEFINE k1 == S("kivec", p)
             k2 == S("tt", k1)
             k3 == S("ana", k2)
             k4 == S("mono", k3)
  <2>8. IsStack(k1) /\ ("kivec" \in DOMAIN b => Emits(k1)) BY <2>5, <2>6, <2>7
  <2> HIDE DEF k1
  <2>9. IsStack(k2) /\ ("kivec" \in DOMAIN b \/ "tt" \in DOMAIN b => Emits(k2))
    BY <2>6, <2>7, <2>8
  <2> HIDE DEF k2
  <2>10. /\ IsStack(k3)
         /\ "kivec" \in DOMAIN b \/ "tt" \in DOMAIN b \/ "ana" \in DOMAIN b
              => Emits(k3)
    BY <2>6, <2>7, <2>9
  <2> HIDE DEF k3
  <2>11. Emits(k4) BY <2>4, <2>7, <2>10
  <2> QED BY <2>2, <2>11 DEF k1, k2, k3, k4
<1>12. CASE h.op = "Set"
  <2>1. Set BY <1>4, <1>12, HeadActs
  <2>2. todo' = Push(t("KfQ"), Rest) BY <1>1, <2>1, SetEffect
  <2> HIDE DEF t, T
  <2>3. T(Push(t("KfQ"), Rest)) BY <1>5, <1>7
  <2> QED BY <2>2, <2>3 DEF T
<1>13. CASE h.op = "RealEmit" /\ O = {"RealMovedEnd"}
  <2>1. RealEmit BY <1>4, <1>13, HeadActs
  <2>2. ~dont.real BY <1>2, <1>13
  <2> DEFINE f == CallWith("TasChanged", Arg)
             p == Push(CallWith("TofTriangleChanged", Arg), Rest)
  <2>3. todo' = Push(f, p) BY <1>1, <1>2, <2>1, <2>2, RealEmitEffect
  <2>4. f.op = "TasChanged" /\ IsStack(p) BY Calling, StackPush
  <2> HIDE DEF f, p
  <2> QED BY <1>7, <2>3, <2>4
<1>14. CASE h.op = "RealMoved" /\ h.arg \in {"sample", "ana", "det"} /\ O = {}
  <2>1. RealMoved BY <1>4, <1>14, HeadActs
  <2>2. ~busy.real BY <1>2, <1>14
  <2> DEFINE e == CallWith("RealMovedEnd", At("RealMoved"))
             p == Push(e, Rest)
  <2>3. \E x \in {"mono", "tt", "ana"} :
          todo' = Push(CallWith("RealEmit", Only(x, real[x])), p)
    BY <1>1, <1>2, <1>4, <1>14, <2>1, <2>2, RealMovedCases
  <2>4. e.op = "RealMovedEnd" BY Calling
  <2> HIDE DEF e
  <2>5. IsStack(p) /\ Ops(p) = {"RealMovedEnd"}
        BY <1>14, <2>4, StackPush, PushOps
  <2>6. PICK y : todo' = Push(CallWith("RealEmit", y), p) BY <2>3
  <2> DEFINE f == CallWith("RealEmit", y)
  <2>7. f.op = "RealEmit" BY Calling
  <2> HIDE DEF f, p
  <2>8. Emitter(f, Ops(p)) BY <2>5, <2>7 DEF Emitter
  <2> QED BY <2>5, <2>6, <2>8, EmitsMore DEF f
<1> QED BY <1>8, <1>9, <1>10, <1>11, <1>12, <1>13, <1>14 DEF Emitter

\* The one that is called has what it listens to.
LEMMA ParsGiven ==
  ASSUME Control, ShownType, Run, NEW c, Current(c), Fits(todo, c),
    IsStack(Rest),
         todo = Push(Head(todo), Rest)
  PROVE /\ (real'.kiq = real.kiq /\ Head(todo).op # "RealAngleKiQ")
           \/ real'.kiq = Params
        /\ (tof'.kiq = tof.kiq /\ Head(todo).op # "TofAngleKiQ")
           \/ tof'.kiq = Params
        /\ (shown'.recip = shown.recip /\ Head(todo).op # "RecipDialogs")
           \/ shown'.recip = Params
<1>1. IsStack(todo) /\ Typed(todo) /\ DataType BY DEF Control
<1> DEFINE h == Head(todo)
<1>2. Fit(h, Ops(Rest), c) BY FitHead
<1>3. Arg = h.arg /\ (\A o : h.op = o => At(o)) /\ c.pars = Params
  BY RunHead DEF Arg, Current
<1>4. h.op \in {"RealAngleKiQ", "TofAngleKiQ", "RecipDialogs"} => Arg = Params
  BY <1>2, <1>3 DEF Fit, ParOps
<1>5. "kiq" \in DOMAIN real /\ "kiq" \in DOMAIN tof BY <1>1 DEF DataType
<1>6. (real'.kiq = real.kiq /\ h.op # "RealAngleKiQ") \/ real'.kiq = Params
  <2>1. CASE h.op = "RealAngleKiQ"
    <3>1. RealAngleKiQ BY <1>3, <2>1, ActsOf
    <3> QED BY <1>1, <1>4, <1>5, <2>1, <3>1, RealAngleKiQEffect
  <2>2. CASE h.op = "RealSet"
    <3>1. RealSet BY <1>3, <2>2, ActsOf
    <3>2. \E x \in Angles : \E v : real' = [real EXCEPT ![x] = v]
      BY <1>1, <3>1, RealSetEffect
    <3> QED BY <1>5, <2>2, <3>2 DEF Angles
  <2>3. CASE h.op \notin {"RealAngleKiQ", "RealSet"}
    <3>1. real' = real
      BY <2>3 DEF Run, RealLayout, TofLayout, Dialogs, MainWindow, At,
       TriangleMoved, EmitUpdate, EmitAllParams, TasChanged, TasChangedEnd,
         Set,
       RealTriangleChanged, RealTriangleChangedEnd, RealSet, RealAngleKiQ,
       RealMoved, RealMovedEnd, RealEmit, RealEmitAllParams,
       TofTriangleChanged, TofTriangleChangedEnd, TofSet, TofAngleKiQ,
       TofMoved, TofMovedEnd, TofEmit, RecipDialogs, ResoRecip, ResoReal,
       ResoPars, ResoSense, ResoLoad, ResoUpdateOn, UpdateDs, SetSense,
       CalcPeaks, SnapToPeak, LoadEnd, layouts
    <3> QED BY <2>3, <3>1
  <2> QED BY <2>1, <2>2, <2>3
<1>7. (tof'.kiq = tof.kiq /\ h.op # "TofAngleKiQ") \/ tof'.kiq = Params
  <2>1. CASE h.op = "TofAngleKiQ"
    <3>1. TofAngleKiQ BY <1>3, <2>1, ActsOf
    <3> QED BY <1>1, <1>4, <1>5, <2>1, <3>1, TofAngleKiQEffect
  <2>2. CASE TofSet
    <3>1. h.op = "TofSet" /\ \E x \in {"tt", "th"} : \E v : tof'
          = [tof EXCEPT ![x] = v]
      BY <1>1, <2>2, TofSetEffect
    <3> QED BY <1>5, <3>1
  <2>3. CASE h.op # "TofAngleKiQ" /\ ~TofSet
    <3>1. tof' = tof
      BY <2>3 DEF Run, RealLayout, TofLayout, Dialogs, MainWindow, At,
       TriangleMoved, EmitUpdate, EmitAllParams, TasChanged, TasChangedEnd,
         Set,
       RealTriangleChanged, RealTriangleChangedEnd, RealSet, RealAngleKiQ,
       RealMoved, RealMovedEnd, RealEmit, RealEmitAllParams,
       TofTriangleChanged, TofTriangleChangedEnd, TofAngleKiQ,
       TofMoved, TofMovedEnd, TofEmit, RecipDialogs, ResoRecip, ResoReal,
       ResoPars, ResoSense, ResoLoad, ResoUpdateOn, UpdateDs, SetSense,
       CalcPeaks, SnapToPeak, LoadEnd, layouts
    <3> QED BY <2>3, <3>1
  <2> QED BY <2>1, <2>2, <2>3
<1>8. (shown'.recip = shown.recip /\ h.op # "RecipDialogs")
      \/ shown'.recip = Params
  <2>1. CASE h.op = "RecipDialogs"
    <3>1. RecipDialogs BY <1>3, <2>1, ActsOf
    <3>2. shown' = [shown EXCEPT !.recip = Arg]
          BY <1>1, <3>1, RecipDialogsEffect
    <3> QED BY <1>4, <2>1, <3>2 DEF ShownType
  <2>2. CASE h.op = "RealEmitAllParams"
    <3>1. RealEmitAllParams BY <1>3, <2>2, ActsOf
    <3>2. shown' = shown \/ shown' = [shown EXCEPT !.real = RealAngles]
      BY <1>1, <3>1, RealEmitAllParamsEffect
    <3> QED BY <2>2, <3>2 DEF ShownType
  <2>3. CASE h.op \notin {"RecipDialogs", "RealEmitAllParams"}
    <3>1. shown' = shown
      BY <2>3 DEF Run, RealLayout, TofLayout, Dialogs, MainWindow, At,
       TriangleMoved, EmitUpdate, EmitAllParams, TasChanged, TasChangedEnd,
         Set,
       RealTriangleChanged, RealTriangleChangedEnd, RealSet, RealAngleKiQ,
       RealMoved, RealMovedEnd, RealEmit, RealEmitAllParams,
       TofTriangleChanged, TofTriangleChangedEnd, TofSet, TofAngleKiQ,
       TofMoved, TofMovedEnd, TofEmit, RecipDialogs, ResoRecip, ResoReal,
       ResoPars, ResoSense, ResoLoad, ResoUpdateOn, UpdateDs, SetSense,
       CalcPeaks, SnapToPeak, LoadEnd, dialogs
    <3> QED BY <2>3, <3>1
  <2> QED BY <2>1, <2>2, <2>3
<1> QED BY <1>6, <1>7, <1>8

LEMMA SameParams == ASSUME UNCHANGED <<tri, ds, sense>> PROVE Params' = Params
BY DEF Params

LEMMA ParsKept ==
  ASSUME Control, ShownType, Run, NEW c, Current(c), Fits(todo, c),
    IsStack(Rest),
         todo = Push(Head(todo), Rest), ParsDue
  PROVE ParsDue'
<1> DEFINE h == Head(todo)
           O == Ops(Rest)
<1>1. Over(todo', Rest) BY StepOver
<1>2. Ops(Rest) \subseteq Ops(todo') /\ (Emits(Rest) => Emits(todo'))
  BY <1>1, OverKeeps
<1>3. Ops(todo) = {h.op} \cup O /\ Fit(h, O, c) BY FitHead
<1>4. Emits(todo) => Emitter(h, O) \/ Emits(todo')
  <2>1. todo = Push(h, Rest) OBVIOUS
  <2> HIDE DEF h
  <2> QED BY <1>2, <2>1, EmitsPush
<1>5. CASE Emitter(h, O)
  <2>1. Emits(todo') \/ {"RealAngleKiQ", "TofAngleKiQ",
        "RecipDialogs"} \subseteq Ops(todo')
    BY <1>5, EmitterStep
  <2> QED BY <2>1 DEF ParsDue
<1>6. CASE Emits(todo') BY <1>6 DEF ParsDue
<1>7. CASE ~Emitter(h, O) /\ ~Emits(todo')
  <2>1. h.op \notin {"Set", "SetSense"} BY <1>7 DEF Emitter
  <2>2. h.op \in FollowOps BY <1>3 DEF Fit
  <2>3. UNCHANGED <<tri, ds, sense>>
    BY <2>1, <2>2, TriangleStays DEF Set, SetSense, UpdateDs, At, FollowOps
  <2>4. Params' = Params BY <2>3, SameParams
  <2>5. /\ (real'.kiq = real.kiq /\ h.op # "RealAngleKiQ")
             \/ real'.kiq = Params
        /\ (tof'.kiq = tof.kiq /\ h.op # "TofAngleKiQ") \/ tof'.kiq = Params
        /\ (shown'.recip = shown.recip /\ h.op # "RecipDialogs")
             \/ shown'.recip = Params
    BY ParsGiven
  <2>6. ~Emits(todo) BY <1>4, <1>7
  <2>7. /\ real.kiq = Params \/ "RealAngleKiQ" \in Ops(todo)
        /\ tof.kiq = Params \/ "TofAngleKiQ" \in Ops(todo)
        /\ shown.recip = Params \/ "RecipDialogs" \in Ops(todo)
    BY <2>6 DEF ParsDue
  <2>8. /\ real'.kiq = Params \/ "RealAngleKiQ" \in Ops(todo')
        /\ tof'.kiq = Params \/ "TofAngleKiQ" \in Ops(todo')
        /\ shown'.recip = Params \/ "RecipDialogs" \in Ops(todo')
    BY <1>2, <1>3, <2>5, <2>7
  <2> QED BY <2>4, <2>8 DEF ParsDue
<1> QED BY <1>5, <1>6, <1>7

-----------------------------------------------------------------------------
(* As long as a call is to be made that will refresh the layout.           *)

\* Whatever is compared, calls that give no parameters fit again when these
\* and the angles have changed.
LEMMA FitAgain ==
  \A q, c, d :
    /\ Fits(q, c) /\ Ops(q) \cap ParOps = {}
    /\ c.phase # "show" /\ d.phase = c.phase /\ d.vars = c.vars
         /\ d.pos = c.pos
    => Fits(q, d)
<1> SUFFICES ASSUME NEW q, NEW c, NEW d, Fits(q, c), Ops(q) \cap ParOps = {},
                    c.phase # "show", d.phase = c.phase, d.vars = c.vars,
                    d.pos = c.pos
             PROVE Fits(q, d)
  OBVIOUS
<1>1. ASSUME NEW i \in DOMAIN q PROVE Fit(q[i], Below(q, i), d)
  <2> DEFINE f == q[i]
             O == Below(q, i)
  <2>1. Fit(f, O, c) BY DEF Fits
  <2>2. f.op \notin ParOps BY DEF Ops
  <2> HIDE DEF f, O
  <2>3. Fit(f, O, d) BY <2>1, <2>2 DEF Fit
  <2> QED BY <2>3 DEF f, O
<1> QED BY <1>1 DEF Fits

LEMMA SameContext ==
  \A p, w : UNCHANGED <<tri, ds, sense>> =>
    /\ Context(p, w)' = Context(p, w)
    /\ \A x : Matches(x, w)' <=> Matches(x, w)
BY SameAngles, SameParams DEF Context, Matches

LEMMA BelowOps == \A q, i : Below(q, i) \subseteq Ops(q)
BY DEF Below, Ops

LEMMA BringsSense == \A q, x : Brings(q, x) => "SetSense" \in Ops(q)
BY BelowOps DEF Brings, Bringer

LEMMA BringsMore ==
  \A f, q, x : IsStack(q) /\ (Brings(q, x) \/ Bringer(f, Ops(q), x)) =>
    IsStack(Push(f, q)) /\ Brings(Push(f, q), x)
BY BringsPush, StackPush

LEMMA RefreshesMore ==
  \A f, q : IsStack(q) /\ (Refreshes(q) \/ Refresher(f, Ops(q))) =>
    IsStack(Push(f, q)) /\ Refreshes(Push(f, q))
BY RefreshesPush, StackPush

\* The variables: the call that brings one to the triangle calls another one,
\* until the triangle has it.
LEMMA SetMatches ==
  ASSUME Control, NEW w \in Vars, Set, IsStack(Rest),
    todo = Push(Head(todo), Rest),
         \A x \in DOMAIN Arg \cap {"tt", "kivec"} : Arg[x] = w[x]
  PROVE \A x \in {"tt", "kivec"} :
          Matches(x, w) \/ x \in DOMAIN Arg => Matches(x, w)'
<1>1. /\ IsStack(todo) /\ Typed(todo)
      /\ tri \in [ki : Waves, kf : Waves, tt : Turns, th : Turns]
  BY DEF Control, DataType
<1>2. /\ UNCHANGED sense
      /\ \E x \in AngleNames \ {"th"}, v \in SignedAngles \cup Turns :
           Arg = Only(x, v) /\ tri' = SetTri(x, v)
  BY <1>1, SetEffect
<1>3. PICK x \in AngleNames \ {"th"}, v \in SignedAngles \cup Turns :
        Arg = Only(x, v) /\ tri' = SetTri(x, v)
  BY <1>2
<1>4. DOMAIN Arg = {x} /\ Arg[x] = v BY <1>3, OnlyIs
<1>5. x \in {"mono", "ana", "tt", "kivec"} BY DEF AngleNames, Angles
<1>6. CASE x \in {"mono", "ana"}
  <2>1. tri'.tt = tri.tt /\ tri'.th = tri.th BY <1>1, <1>3, <1>6 DEF SetTri
  <2> QED BY <1>2, <1>4, <1>6, <2>1 DEF Matches
<1>7. CASE x = "tt"
  <2>1. tri'.tt = Turn(v, sense.sample) /\ tri'.th = tri.th
    BY <1>1, <1>3, <1>7 DEF SetTri
  <2>2. v = w.tt BY <1>4, <1>7
  <2> QED BY <1>2, <1>4, <1>7, <2>1, <2>2 DEF Matches
<1>8. CASE x = "kivec"
  <2>1. tri'.tt = tri.tt /\ tri'.th = Turn(v, FALSE)
    BY <1>1, <1>3, <1>8 DEF SetTri
  <2>2. v = w.kivec BY <1>4, <1>8
  <2> QED BY <1>2, <1>4, <1>8, <2>1, <2>2 DEF Matches
<1> QED BY <1>5, <1>6, <1>7, <1>8

LEMMA SettingBrings ==
  \A x, y, a, q :
    /\ IsStack(q) /\ "SetSense" \in Ops(q)
    /\ Brings(q, x) \/ (y = x /\ x \in DOMAIN a)
    => /\ IsStack(Setting("Set", y, a, q))
          /\ "SetSense" \in Ops(Setting("Set", y, a, q))
       /\ Brings(Setting("Set", y, a, q), x)
<1> SUFFICES ASSUME NEW x, NEW y, NEW a, NEW q, IsStack(q),
       "SetSense" \in Ops(q),
                    Brings(q, x) \/ (y = x /\ x \in DOMAIN a)
             PROVE /\ IsStack(Setting("Set", y, a, q))
                   /\ "SetSense" \in Ops(Setting("Set", y, a, q))
                   /\ Brings(Setting("Set", y, a, q), x)
  OBVIOUS
<1>1. CASE y \notin DOMAIN a BY <1>1 DEF Setting
<1>2. CASE y \in DOMAIN a
  <2> DEFINE v == a[y]
             f == CallWith("Set", Only(y, v))
  <2>1. f.op = "Set" /\ f.arg = Only(y, v) BY Calling
  <2>2. Setting("Set", y, a, q) = Push(f, q) BY <1>2 DEF Setting
  <2> HIDE DEF f
  <2>3. DOMAIN f.arg = {y} BY <2>1, OnlyIs
  <2>4. y = x => Bringer(f, Ops(q), x) BY <2>1, <2>3 DEF Bringer
  <2>5. IsStack(Push(f, q)) /\ Brings(Push(f, q), x) BY <2>4, BringsMore
  <2>6. "SetSense" \in Ops(Push(f, q)) BY PushOps
  <2> QED BY <2>2, <2>5, <2>6
<1> QED BY <1>1, <1>2

LEMMA BringerStep ==
  ASSUME Control, Run, NEW w \in Vars, Fits(todo, Context("refresh", w)),
         IsStack(Rest), todo = Push(Head(todo), Rest),
         NEW x \in {"tt", "kivec"}, Bringer(Head(todo), Ops(Rest), x)
  PROVE Brings(todo', x) \/ Matches(x, w)'
<1>1. IsStack(todo) /\ Typed(todo) BY DEF Control
<1> DEFINE h == Head(todo)
           O == Ops(Rest)
           c == Context("refresh", w)
<1>2. c.phase = "refresh" /\ c.vars = w BY ContextIs
<1> HIDE DEF c
<1>3. /\ Fit(h, O, c) /\ ready.tri /\ ready.real /\ Ops(todo) = {h.op} \cup O
      /\ dont.real <=> "RealTriangleChangedEnd" \in Ops(todo)
  BY FitHead DEF c
<1>4. Arg = h.arg /\ \A o : h.op = o => At(o) BY RunHead DEF Arg
<1>5. x \in DOMAIN h.arg /\ "SetSense" \in O BY DEF Bringer
<1>6. CASE h.op = "TasChanged"
  <2>1. TasChanged BY <1>4, <1>6, HeadActs
  <2> DEFINE b == Arg
             e == CallOf("TasChangedEnd")
             p == Push(e, Rest)
             T(q) == IsStack(q) /\ "SetSense" \in Ops(q)
             S(y, q) == Setting("Set", y, b, q)
  <2>2. todo' = S("mono", S("ana", S("tt", S("kivec", p))))
    BY <1>1, <1>3, <2>1, TasChangedEffect
  <2>3. x \in DOMAIN b BY <1>4, <1>5
  <2>4. T(p) BY <1>5, StackPush, PushOps
  <2> HIDE DEF b, p
  <2>5. \A y, q : T(q) => T(S(y, q)) BY StackPush, PushOps DEF Setting
  <2>6. \A y, q : T(q) /\ (Brings(q, x) \/ y = x) => T(S(y, q))
        /\ Brings(S(y, q), x)
    BY <2>3, SettingBrings
  <2> HIDE DEF S, T
  <2> DEFINE k1 == S("kivec", p)
             k2 == S("tt", k1)
             k3 == S("ana", k2)
             k4 == S("mono", k3)
  <2>7. T(k1) /\ (x = "kivec" => Brings(k1, x)) BY <2>4, <2>5, <2>6
  <2> HIDE DEF k1
  <2>8. T(k2) /\ Brings(k2, x) BY <2>5, <2>6, <2>7
  <2> HIDE DEF k2
  <2>9. T(k3) /\ Brings(k3, x) BY <2>5, <2>6, <2>8
  <2> HIDE DEF k3
  <2>10. Brings(k4, x) BY <2>6, <2>9
  <2> QED BY <2>2, <2>10 DEF k1, k2, k3, k4
<1>7. CASE h.op = "Set"
  <2>1. Set BY <1>4, <1>7, HeadActs
  <2>2. \A y \in DOMAIN Arg \cap {"tt", "kivec"} : Arg[y] = w[y]
    BY <1>2, <1>3, <1>4, <1>7 DEF Fit, Tells
  <2> QED BY <1>4, <1>5, <2>1, <2>2, SetMatches
<1>8. CASE h.op = "RealEmit" /\ "RealTriangleChangedEnd" \notin O
  <2>1. RealEmit BY <1>4, <1>8, HeadActs
  <2>2. ~dont.real BY <1>3, <1>8
  <2> DEFINE f == CallWith("TasChanged", Arg)
             p == Push(CallWith("TofTriangleChanged", Arg), Rest)
  <2>3. todo' = Push(f, p) BY <1>1, <1>3, <2>1, <2>2, RealEmitEffect
  <2>4. f.op = "TasChanged" /\ f.arg = h.arg BY <1>4, Calling
  <2>5. IsStack(p) /\ "SetSense" \in Ops(p) BY <1>5, StackPush, PushOps
  <2> HIDE DEF f, p
  <2>6. Bringer(f, Ops(p), x) BY <1>5, <2>4, <2>5 DEF Bringer
  <2> QED BY <2>3, <2>5, <2>6, BringsMore
<1> QED BY <1>6, <1>7, <1>8 DEF Bringer

\* Those that refresh it, up to EmitUpdate.
LEMMA RefresherStep ==
  ASSUME Control, Run, NEW c, Fits(todo, c), IsStack(Rest),
         todo = Push(Head(todo), Rest), Refresher(Head(todo), Ops(Rest)),
         Head(todo).op # "EmitUpdate"
  PROVE Refreshes(todo')
<1>1. IsStack(todo) /\ Typed(todo) BY DEF Control
<1> DEFINE h == Head(todo)
           O == Ops(Rest)
<1>2. ready.tri BY FitHead
<1>3. \A o : h.op = o => At(o) BY RunHead
<1>4. h.op \in {"SetSense", "TriangleMoved"} /\ O \subseteq {"TasChanged",
      "EmitUpdate"}
  BY DEF Refresher
<1> DEFINE t(s) == CallWith("TriangleMoved", s)
           u == CallOf("EmitUpdate")
           a == CallOf("EmitAllParams")
           r == CallOf("ResoSense")
           T(q) == /\ IsStack(q)
                   /\ Ops(q) \subseteq {"EmitAllParams", "ResoSense",
                        "EmitUpdate", "TasChanged"}
<1>5. u.op = "EmitUpdate" /\ a.op = "EmitAllParams" /\ r.op = "ResoSense"
      BY Calling
<1> HIDE DEF t, u, a, r
<1>6. T(Rest) BY <1>4
<1>7. \A f, q : T(q) /\ f.op \in {"EmitAllParams", "ResoSense", "EmitUpdate"}
      => T(Push(f, q))
  BY StackPush, PushOps
<1>8. \A q : T(q) => Refreshes(Push(u, Push(a, q)))
  <2> SUFFICES ASSUME NEW q, T(q) PROVE Refreshes(Push(u, Push(a, q))) OBVIOUS
  <2> DEFINE p == Push(a, q)
  <2>1. T(p) BY <1>5, <1>7
  <2>2. "EmitAllParams" \in Ops(p) BY <1>5, PushOps
  <2> HIDE DEF p
  <2>3. Refresher(u, Ops(p)) BY <1>5, <2>1, <2>2 DEF Refresher
  <2> QED BY <2>1, <2>3, RefreshesMore DEF p
<1>9. CASE h.op = "SetSense"
  <2>1. SetSense BY <1>3, <1>9, ActsOf
  <2>2. \/ todo' = Push(u, Push(a, Push(r, Push(u, Rest))))
        \/ todo' = Push(u, Push(a, Push(r, Rest)))
    BY <1>1, <2>1, SetSenseEffect DEF u, a, r
  <2>3. T(Push(r, Rest)) /\ T(Push(r, Push(u, Rest)))
    <3> HIDE DEF T
    <3> QED BY <1>5, <1>6, <1>7
  <2> HIDE DEF T
  <2> QED BY <1>8, <2>2, <2>3
<1>10. CASE h.op = "TriangleMoved"
  <2>1. TriangleMoved BY <1>3, <1>10, ActsOf
  <2>2. \/ todo' = Push(t("Gq"), Push(u, Push(a, Rest)))
        \/ todo' = Push(u, Push(a, Rest))
    BY <1>1, <1>2, <2>1, TriangleMovedEffect DEF t, u, a
  <2>3. IsStack(Push(u, Push(a, Rest))) BY StackPush
  <2> HIDE DEF T
  <2>4. Refreshes(Push(u, Push(a, Rest))) BY <1>6, <1>8
  <2> QED BY <2>2, <2>3, <2>4, RefreshesMore
<1> QED BY <1>4, <1>9, <1>10

\* A setter or a sense that is told the triangle: what is compared with changes,
\* but there is no call that gives the parameters.
LEMMA ChangeFits ==
  ASSUME Control, Run, NEW p \in {"refresh", "lift"}, NEW w,
         Fits(todo, Context(p, w)), IsStack(Rest),
           todo = Push(Head(todo), Rest),
         Set \/ SetSense, sense'.sample = sense.sample
  PROVE Fits(todo', Context(p, w)')
<1>1. IsStack(todo) /\ Typed(todo) BY DEF Control
<1> DEFINE h == Head(todo)
           O == Ops(Rest)
           c == Context(p, w)
           d == Context(p, w)'
<1>2. Fits(todo', c)
  <2>1. Current(c) BY ContextIs
  <2> QED BY <2>1, FitsStep
<1>3. d.phase = c.phase /\ d.vars = c.vars /\ d.pos = c.pos /\ c.phase = p
  BY DEF Context
<1> HIDE DEF c, d
<1>4. Fit(h, O, c) BY FitHead DEF c
<1>5. h.op \in {"Set", "SetSense"} BY <1>1, SetEffect, SetSenseEffect
<1>6. O \cap ParOps = {} BY <1>4, <1>5 DEF Fit, Tells
<1> DEFINE t == CallWith("TriangleMoved", "KfQ")
           u == CallOf("EmitUpdate")
           a == CallOf("EmitAllParams")
           r == CallOf("ResoSense")
           T(q) == IsStack(q) /\ Ops(q) \cap ParOps = {}
<1>7. /\ t.op \notin ParOps /\ u.op \notin ParOps /\ a.op \notin ParOps
      /\ r.op \notin ParOps
  BY Calling DEF ParOps
<1>8. \/ todo' = Push(t, Rest)
      \/ todo' = Push(u, Push(a, Push(r, Push(u, Rest))))
      \/ todo' = Push(u, Push(a, Push(r, Rest)))
  BY <1>1, SetEffect, SetSenseEffect
<1> HIDE DEF t, u, a, r
<1>9. \A f, q : T(q) /\ f.op \notin ParOps => T(Push(f, q))
  BY StackPush, PushOps
<1>10. T(Rest) BY <1>6
<1> HIDE DEF T
<1>11. T(Push(t, Rest)) /\ T(Push(u, Rest)) BY <1>7, <1>9, <1>10
<1>12. \A q : T(q) => T(Push(u, Push(a, Push(r, q)))) BY <1>7, <1>9
<1>13. T(todo') BY <1>8, <1>10, <1>11, <1>12
<1>14. Fits(todo', d)
  <2>1. Ops(todo') \cap ParOps = {} BY <1>13 DEF T
  <2> QED BY <1>2, <1>3, <2>1, FitAgain
<1> QED BY <1>14 DEF d

\* The call that tells the layout all.
LEMMA UpdateShows ==
  ASSUME Control, NEW w \in Vars, Refreshing(w), EmitUpdate, IsStack(Rest),
         todo = Push(Head(todo), Rest), Refresher(Head(todo), Ops(Rest))
  PROVE Showing(w)'
<1>1. IsStack(todo) /\ Typed(todo) BY DEF Control
<1> DEFINE h == Head(todo)
           O == Ops(Rest)
           c == Context("refresh", w)
           d == Context("show", w)
           A == TriangleAngles
           f == CallWith("RealTriangleChanged", A)
           g == CallWith("TofTriangleChanged", A)
           q == Push(g, Rest)
<1>2. h.op = "EmitUpdate" BY <1>1, EmitUpdateEffect
<1>3. /\ "EmitAllParams" \in O
      /\ O \subseteq {"EmitAllParams", "ResoSense", "EmitUpdate", "TasChanged"}
  BY <1>2 DEF Refresher
<1>4. Fits(todo, c) BY DEF Refreshing
<1>5. /\ ready.tri /\ Ops(todo) = {h.op} \cup O
      /\ dont.recip <=> "TasChangedEnd" \in Ops(todo)
      /\ Fits(Rest, c)
  BY <1>4, FitHead
<1>6. ~dont.recip BY <1>2, <1>3, <1>5
<1>7. todo' = Push(f, q) /\ UNCHANGED <<tri, ds, sense, real>>
  BY <1>1, <1>5, <1>6, EmitUpdateEffect
<1>8. DOMAIN A = Angles BY AnglesTyped DEF Control
<1>9. /\ f.op = "RealTriangleChanged" /\ f.arg = A
           /\ g.op = "TofTriangleChanged"
  BY Calling
<1>10. /\ d.phase = "show" /\ c.phase = "refresh" /\ d.vars = c.vars
       /\ d.pars = c.pars /\ d.angles = A
  BY DEF Context
<1> HIDE DEF A, f, g, c, d
<1>11. Fits(Rest, d)
  <2>1. ASSUME NEW i \in DOMAIN Rest PROVE Fit(Rest[i], Below(Rest, i), d)
    <3> DEFINE e == Rest[i]
               P == Below(Rest, i)
    <3>1. Fit(e, P, c) BY <1>5 DEF Fits
    <3>2. e.op \in {"EmitAllParams", "ResoSense", "EmitUpdate", "TasChanged"}
      BY <1>3 DEF Ops
    <3> HIDE DEF e, P
    <3>3. Fit(e, P, d) BY <1>10, <3>1, <3>2 DEF Fit, Tells, Drawers
    <3> QED BY <3>3 DEF e, P
  <2> QED BY <2>1 DEF Fits
<1>12. IsStack(q) /\ Fits(q, d) BY <1>9, <1>11, SimplePush DEF Simples
<1>13. Reports(q)
  <2>1. Reports(Rest)
    <3>1. PICK i \in DOMAIN Rest : Rest[i].op = "EmitAllParams" BY <1>3 DEF Ops
    <3>2. Below(Rest, i) \subseteq O BY BelowOps
    <3>3. Reporter(Rest[i], Below(Rest, i))
          BY <1>3, <3>1, <3>2 DEF Reporter, Drawers
    <3> QED BY <3>3 DEF Reports
  <2> QED BY <2>1, ReportsPush
<1> HIDE DEF q
<1>14. IsStack(Push(f, q)) /\ Fits(Push(f, q), d)
  <2>1. Fit(f, Ops(q), d)
    BY <1>9, <1>10 DEF Fit, FollowOps, ParOps, Tells, Lifts, TofLifts
  <2> QED BY <1>12, <2>1, FitsMore
<1>15. Reports(Push(f, q)) BY <1>12, <1>13, ReportsPush
<1>16. \A x \in Angles : RealPending(Push(f, q), x)
  BY <1>8, <1>9, <1>12, RealPendingPush
<1>17. \A x \in {"tt", "kivec"} : Matches(x, w)
  <2>1. "SetSense" \notin Ops(todo) BY <1>2, <1>3, <1>5
  <2> QED BY <2>1, BringsSense DEF Refreshing
<1>18. Context("show", w)' = d /\ \A x : Matches(x, w)' <=> Matches(x, w)
  BY <1>7, SameContext DEF d
<1> QED BY <1>7, <1>14, <1>15, <1>16, <1>17, <1>18 DEF Showing

\* There are variables for each triangle.
LEMMA VarsThere ==
  \A t, k \in Turns, s \in BOOLEAN : \E w \in Vars :
    t = Turn(w.tt, s) /\ k = Turn(w.kivec, FALSE)
<1> SUFFICES ASSUME NEW t \in Turns, NEW k \in Turns, NEW s \in BOOLEAN
             PROVE \E w \in Vars : t = Turn(w.tt, s)
                    /\ k = Turn(w.kivec, FALSE)
  OBVIOUS
<1> DEFINE w == [tt |-> Turn(t, s), kivec |-> Turn(k, FALSE)]
<1>1. /\ w.tt \in Turns /\ Turn(w.tt, s) = t
      /\ w.kivec \in Turns /\ Turn(w.kivec, FALSE) = k
  BY TurnTwice
<1>2. w \in Vars BY <1>1 DEF Vars
<1> QED BY <1>1, <1>2

\* A sense is told the triangle.
LEMMA SenseRefreshes ==
  ASSUME Control, Control', Run, NEW w \in Vars, Refreshing(w), SetSense,
         IsStack(Rest), todo = Push(Head(todo), Rest), Refreshes(todo')
  PROVE \E v \in Vars : Refreshing(v)'
<1>1. IsStack(todo) /\ Typed(todo) /\ sense \in [mono : BOOLEAN,
      sample : BOOLEAN, ana : BOOLEAN]
  BY DEF Control, DataType
<1> DEFINE h == Head(todo)
           O == Ops(Rest)
           c == Context("refresh", w)
<1>2. h.op = "SetSense" /\ UNCHANGED <<tri, ds>> BY <1>1, SetSenseEffect
<1>3. PICK x \in {"mono", "sample", "ana"}, b \in BOOLEAN :
        /\ Arg = Only(x, b) /\ sense' = [sense EXCEPT ![x] = b]
        /\ todo' = Push(CallOf("EmitUpdate"), Push(CallOf("EmitAllParams"),
                     Push(CallOf("ResoSense"),
                       IF x = "sample" THEN Push(CallOf("EmitUpdate"), Rest)
                                       ELSE Rest)))
  BY <1>1, SetSenseEffect
<1>4. Fits(todo, c) /\ c.phase = "refresh" /\ c.pos = sense.sample
  BY ContextIs DEF Refreshing, Current
<1> HIDE DEF c
<1>5. Fit(h, O, c) BY <1>4, FitHead
<1>6. DOMAIN h.arg = {x} /\ h.arg[x] = b BY <1>3, OnlyIs DEF Arg
<1>7. O = {} \/ sense'.sample = sense.sample
  <2>1. CASE x # "sample" BY <1>1, <1>3, <2>1
  <2>2. CASE x = "sample"
    <3>1. O = {} \/ b = sense.sample BY <1>2, <1>4, <1>5, <1>6, <2>2 DEF Fit
    <3> QED BY <1>1, <1>3, <2>2, <3>1
  <2> QED BY <2>1, <2>2
<1>8. CASE sense'.sample = sense.sample
  <2>1. Fits(todo', Context("refresh", w)') BY <1>4, <1>8, ChangeFits DEF c
  <2>2. \A y : Matches(y, w)' <=> Matches(y, w) BY <1>2, <1>8 DEF Matches
  <2>3. \A y : Brings(todo, y) => Brings(todo', y)
    <3>1. Over(todo', Rest) BY StepOver
    <3>2. todo = Push(h, Rest) OBVIOUS
    <3> HIDE DEF h
    <3>3. \A y : Brings(todo, y) => Bringer(h, O, y) \/ Brings(Rest, y)
      BY <3>2, BringsPush
    <3>4. \A y : ~Bringer(h, O, y) BY <1>2 DEF Bringer, h
    <3> QED BY <3>1, <3>3, <3>4, OverKeeps
  <2>4. \A y \in {"tt", "kivec"} : Matches(y, w)' \/ Brings(todo', y)
    BY <2>2, <2>3 DEF Refreshing
  <2>5. Refreshing(w)' BY <2>1, <2>4 DEF Refreshing
  <2> QED BY <2>5
<1>9. CASE O = {}
  <2>1. PICK v \in Vars : \A y \in {"tt", "kivec"} : Matches(y, v)'
    <3>1. tri'.tt \in Turns /\ tri'.th \in Turns /\ sense'.sample \in BOOLEAN
      BY DEF Control, DataType
    <3>2. PICK v \in Vars : tri'.tt = Turn(v.tt, sense'.sample)
                            /\ tri'.th = Turn(v.kivec, FALSE)
      BY <3>1, VarsThere
    <3>3. \A y \in {"tt", "kivec"} : Matches(y, v)' BY <3>2 DEF Matches
    <3> QED BY <3>3
  <2> DEFINE d == Context("refresh", v)'
             u == CallOf("EmitUpdate")
             a == CallOf("EmitAllParams")
             r == CallOf("ResoSense")
             T(q) == IsStack(q) /\ Fits(q, d)
  <2>2. d.phase = "refresh" BY DEF Context
  <2>3. u.op = "EmitUpdate" /\ a.op \in Simples /\ r.op \in Simples
    BY Calling DEF Simples
  <2>4. T(Rest)
    <3>1. DOMAIN Rest = {} BY <1>9 DEF Ops
    <3> QED BY <3>1 DEF Fits
  <2>5. \/ todo' = Push(u, Push(a, Push(r, Push(u, Rest))))
        \/ todo' = Push(u, Push(a, Push(r, Rest)))
    BY <1>3
  <2> HIDE DEF u, a, r, d
  <2>6. \A f, q : T(q) /\ (f.op \in Simples \/ f.op = "EmitUpdate")
        => T(Push(f, q))
    BY <2>2, SimplePush, TriangleFit, FitsMore
  <2> HIDE DEF T
  <2>7. T(Push(u, Rest)) BY <2>3, <2>4, <2>6
  <2>8. \A q : T(q) => T(Push(u, Push(a, Push(r, q)))) BY <2>3, <2>6
  <2>9. T(todo') BY <2>4, <2>5, <2>7, <2>8
  <2>10. Fits(todo', Context("refresh", v)') BY <2>9 DEF T, d
  <2>11. Refreshing(v)' BY <2>1, <2>10 DEF Refreshing
  <2> QED BY <2>11
<1> QED BY <1>7, <1>8, <1>9

LEMMA RefreshingRun ==
  ASSUME Control, Control', Run, NEW w \in Vars, Refreshing(w), IsStack(Rest),
         todo = Push(Head(todo), Rest)
  PROVE \/ \E v \in Vars : Refreshing(v)'
        \/ EmitUpdate /\ Refresher(Head(todo), Ops(Rest)) /\ Showing(w)'
<1> DEFINE h == Head(todo)
           O == Ops(Rest)
           c == Context("refresh", w)
<1>1. /\ Fits(todo, c) /\ Refreshes(todo)
      /\ \A x \in {"tt", "kivec"} : Matches(x, w) \/ Brings(todo, x)
  BY DEF Refreshing
<1>2. Over(todo', Rest) BY StepOver
<1>3. Fit(h, O, c) /\ \A o : h.op = o => At(o) BY <1>1, FitHead, RunHead
<1>4. Refresher(h, O) \/ Refreshes(Rest)
  <2>1. todo = Push(h, Rest) OBVIOUS
  <2> HIDE DEF h
  <2> QED BY <1>1, <2>1, RefreshesPush
<1>5. CASE Refresher(h, O) /\ h.op = "EmitUpdate"
  <2>1. EmitUpdate BY <1>3, <1>5, ActsOf
  <2> QED BY <1>5, <2>1, UpdateShows
<1>6. CASE ~(Refresher(h, O) /\ h.op = "EmitUpdate")
  <2>1. Refreshes(todo')
    <3>1. CASE Refreshes(Rest) BY <1>2, <3>1, OverKeeps
    <3>2. CASE Refresher(h, O) BY <1>1, <1>6, <3>2, RefresherStep
    <3> QED BY <1>4, <3>1, <3>2
  <2>2. CASE SetSense BY <2>1, <2>2, SenseRefreshes
  <2>3. CASE ~SetSense
    <3>1. Fits(todo', Context("refresh", w)')
      <4>1. CASE Set
        <5>1. sense' = sense BY <4>1, SetEffect DEF Control
        <5> QED BY <1>1, <4>1, <5>1, ChangeFits
      <4>2. CASE ~Set
        <5>1. ~UpdateDs BY <1>3 DEF Fit, FollowOps, UpdateDs, At
        <5>2. UNCHANGED <<tri, ds, sense>> BY <2>3, <4>2, <5>1, TriangleStays
        <5>3. Context("refresh", w)' = c BY <5>2, SameContext
        <5>4. Fits(todo', c)
          <6>1. Current(c) BY ContextIs
          <6> HIDE DEF c
          <6> QED BY <1>1, <6>1, FitsStep
        <5> QED BY <5>3, <5>4
      <4> QED BY <4>1, <4>2
    <3>2. ASSUME NEW x \in {"tt", "kivec"}, Matches(x, w) PROVE Matches(x, w)'
      <4>1. CASE Set
        <5>1. c.phase = "refresh" /\ c.vars = w BY ContextIs
        <5> HIDE DEF c
        <5>2. h.op = "Set" /\ Arg = h.arg BY <4>1, SetEffect DEF Control, Arg
        <5>3. \A y \in DOMAIN Arg \cap {"tt", "kivec"} : Arg[y] = w[y]
          BY <1>3, <5>1, <5>2 DEF Fit, Tells
        <5> QED BY <3>2, <4>1, <5>3, SetMatches
      <4>2. CASE ~Set
        <5>1. ~UpdateDs BY <1>3 DEF Fit, FollowOps, UpdateDs, At
        <5>2. UNCHANGED <<tri, ds, sense>> BY <2>3, <4>2, <5>1, TriangleStays
        <5> QED BY <3>2, <5>2, SameContext
      <4> QED BY <4>1, <4>2
    <3>3. ASSUME NEW x \in {"tt", "kivec"}, Brings(todo, x)
          PROVE Brings(todo', x) \/ Matches(x, w)'
      <4>1. Bringer(h, O, x) \/ Brings(Rest, x)
        <5>1. todo = Push(h, Rest) OBVIOUS
        <5> HIDE DEF h
        <5> QED BY <3>3, <5>1, BringsPush
      <4>2. CASE Brings(Rest, x) BY <1>2, <4>2, OverKeeps
      <4>3. CASE Bringer(h, O, x) BY <1>1, <4>3, BringerStep
      <4> QED BY <4>1, <4>2, <4>3
    <3>4. \A x \in {"tt", "kivec"} : Matches(x, w)' \/ Brings(todo', x)
      BY <1>1, <3>2, <3>3
    <3>5. Refreshing(w)' BY <2>1, <3>1, <3>4 DEF Refreshing
    <3> QED BY <3>5
  <2> QED BY <2>2, <2>3
<1> QED BY <1>5, <1>6

-----------------------------------------------------------------------------
(* As the layout is drawn, and as its node is moved.                       *)

LEMMA ReportsMore ==
  \A f, q : IsStack(q) /\ (Reports(q) \/ Reporter(f, Ops(q))) =>
    IsStack(Push(f, q)) /\ Reports(Push(f, q))
BY ReportsPush, StackPush

\* Who emits the angles of the layout in the end calls another one that does,
\* until the dialog has them.
LEMMA ReporterStep ==
  ASSUME Control, ShownType, Run, NEW c, Fits(todo, c), IsStack(Rest),
         todo = Push(Head(todo), Rest), Reporter(Head(todo), Ops(Rest))
  PROVE \/ Reports(todo')
        \/ /\ Head(todo).op = "RealEmitAllParams"
           /\ real' = real /\ shown'.real = RealAngles
<1>1. IsStack(todo) /\ Typed(todo) BY DEF Control
<1> DEFINE h == Head(todo)
           O == Ops(Rest)
<1>2. /\ ready.tri /\ ready.real /\ Ops(todo) = {h.op} \cup O
      /\ dont.real <=> "RealTriangleChangedEnd" \in Ops(todo)
      /\ busy.real <=> "RealMovedEnd" \in Ops(todo)
  BY FitHead
<1>3. Arg = h.arg /\ \A o : h.op = o => At(o) BY RunHead DEF Arg
<1>4. O \cap (Drawers \cup {"RealTriangleChangedEnd", "RealMovedEnd"}) = {}
  BY DEF Reporter
<1>5. CASE h.op = "EmitAllParams"
  <2>1. EmitAllParams BY <1>3, <1>5, ActsOf
  <2> DEFINE f == CallWith("RealAngleKiQ", Params)
             g == CallWith("TofAngleKiQ", Params)
             l == CallWith("RecipDialogs", Params)
             p == Push(g, Push(l, Rest))
  <2>2. todo' = Push(f, p) BY <1>1, <1>2, <2>1, EmitAllParamsEffect
  <2>3. f.op = "RealAngleKiQ" /\ g.op = "TofAngleKiQ" /\ l.op = "RecipDialogs"
    BY Calling
  <2> HIDE DEF f, g, l
  <2>4. IsStack(Push(l, Rest)) /\ Ops(Push(l, Rest)) = {l.op} \cup O
    BY StackPush, PushOps
  <2>5. IsStack(p) /\ Ops(p) = {g.op} \cup Ops(Push(l, Rest))
    BY <2>4, StackPush, PushOps
  <2> HIDE DEF p
  <2>6. Reporter(f, Ops(p)) BY <1>4, <2>3, <2>4, <2>5 DEF Reporter, Drawers
  <2> QED BY <2>2, <2>5, <2>6, ReportsMore
<1>6. CASE h.op = "RealAngleKiQ"
  <2>1. RealAngleKiQ BY <1>3, <1>6, ActsOf
  <2> DEFINE f == CallWith("RealMoved", "none")
  <2>2. todo' = Push(f, Rest) BY <1>1, <2>1, RealAngleKiQEffect
  <2>3. f.op = "RealMoved" BY Calling
  <2> HIDE DEF f
  <2>4. Reporter(f, O) BY <1>4, <2>3 DEF Reporter
  <2> QED BY <2>2, <2>4, ReportsMore
<1>7. CASE h.op = "RealMoved"
  <2>1. RealMoved BY <1>3, <1>7, HeadActs
  <2>2. ~busy.real BY <1>2, <1>4, <1>7
  <2> DEFINE e == CallWith("RealMovedEnd", At("RealMoved"))
             p == Push(e, Rest)
  <2>3. todo' = p \/ \E x \in {"mono", "tt", "ana"} :
          todo' = Push(CallWith("RealEmit", Only(x, real[x])), p)
    BY <1>1, <1>2, <2>1, <2>2, RealMovedCases
  <2>4. e.op = "RealMovedEnd" /\ e.arg BY <1>3, <1>7, Calling
  <2> HIDE DEF e
  <2>5. Reporter(e, O) BY <1>4, <2>4 DEF Reporter
  <2>6. IsStack(p) /\ Reports(p) BY <2>5, ReportsMore
  <2> HIDE DEF p
  <2> QED BY <2>3, <2>6, ReportsMore
<1>8. CASE h.op = "RealMovedEnd" /\ h.arg
  <2>1. RealMovedEnd BY <1>3, <1>8, ActsOf
  <2> DEFINE f == CallOf("RealEmitAllParams")
  <2>2. todo' = Push(f, Rest) BY <1>1, <1>3, <1>8, <2>1, RealMovedEndEffect
  <2>3. f.op = "RealEmitAllParams" BY Calling
  <2> HIDE DEF f
  <2>4. Reporter(f, O) BY <1>4, <2>3 DEF Reporter
  <2> QED BY <2>2, <2>4, ReportsMore
<1>9. CASE h.op = "RealEmitAllParams"
  <2>1. RealEmitAllParams BY <1>3, <1>9, ActsOf
  <2>2. ~dont.real BY <1>2, <1>4, <1>9
  <2>3. shown' = [shown EXCEPT !.real = RealAngles] /\ real' = real
    BY <1>1, <1>2, <2>1, <2>2, RealEmitAllParamsEffect
  <2> QED BY <1>9, <2>3 DEF ShownType
<1> QED BY <1>5, <1>6, <1>7, <1>8, <1>9 DEF Reporter

\* What the dialog shows of the layout.
LEMMA ShownReal ==
  ASSUME Control, ShownType, Run
  PROVE \/ shown'.real = shown.real
        \/ real' = real /\ shown'.real = RealAngles
<1>1. IsStack(todo) BY DEF Control
<1>2. CASE RecipDialogs
  <2>1. shown' = [shown EXCEPT !.recip = Arg] BY <1>1, <1>2, RecipDialogsEffect
  <2> QED BY <2>1 DEF ShownType
<1>3. CASE RealEmitAllParams
  <2>1. real' = real
        /\ (shown' = shown \/ shown' = [shown EXCEPT !.real = RealAngles])
    BY <1>1, <1>3, RealEmitAllParamsEffect
  <2> QED BY <2>1 DEF ShownType
<1>4. CASE ~RecipDialogs /\ ~RealEmitAllParams
  <2>1. shown' = shown
    BY <1>4 DEF Run, RealLayout, TofLayout, Dialogs, MainWindow,
     TriangleMoved, EmitUpdate, EmitAllParams, TasChanged, TasChangedEnd, Set,
     RealTriangleChanged, RealTriangleChangedEnd, RealSet, RealAngleKiQ,
     RealMoved, RealMovedEnd, RealEmit,
     TofTriangleChanged, TofTriangleChangedEnd, TofSet, TofAngleKiQ,
     TofMoved, TofMovedEnd, TofEmit, ResoRecip, ResoReal,
     ResoPars, ResoSense, ResoLoad, ResoUpdateOn, UpdateDs, SetSense,
     CalcPeaks, SnapToPeak, LoadEnd, dialogs
  <2> QED BY <2>1
<1> QED BY <1>2, <1>3, <1>4

LEMMA ShownTypeKept == ASSUME ShownType, Run PROVE ShownType'
<1>1. shown' = shown \/ (\E a : shown' = [shown EXCEPT !.recip = a])
      \/ (\E a : shown' = [shown EXCEPT !.real = a])
  BY DEF Run, RealLayout, TofLayout, Dialogs, MainWindow,
     TriangleMoved, EmitUpdate, EmitAllParams, TasChanged, TasChangedEnd, Set,
     RealTriangleChanged, RealTriangleChangedEnd, RealSet, RealAngleKiQ,
     RealMoved, RealMovedEnd, RealEmit, RealEmitAllParams,
     TofTriangleChanged, TofTriangleChangedEnd, TofSet, TofAngleKiQ,
     TofMoved, TofMovedEnd, TofEmit, RecipDialogs, ResoRecip, ResoReal,
     ResoPars, ResoSense, ResoLoad, ResoUpdateOn, UpdateDs, SetSense,
     CalcPeaks, SnapToPeak, LoadEnd, dialogs
<1> QED BY <1>1 DEF ShownType

\* The angles of the layout change in its setters only.
LEMMA AnglesStay ==
  ASSUME Control, Run, ~RealSet
  PROVE (\A x \in Angles : real'[x] = real[x]) /\ RealAngles' = RealAngles
<1>1. IsStack(todo) /\ DOMAIN real = Angles \cup {"kiq"}
      BY DEF Control, DataType
<1>2. \A x \in Angles : real'[x] = real[x]
  <2>1. CASE RealAngleKiQ
    <3>1. real' = [real EXCEPT !.kiq = Arg] BY <1>1, <2>1, RealAngleKiQEffect
    <3> QED BY <1>1, <3>1 DEF Angles
  <2>2. CASE ~RealAngleKiQ
    BY <2>2 DEF Run, RealLayout, TofLayout, Dialogs, MainWindow,
     TriangleMoved, EmitUpdate, EmitAllParams, TasChanged, TasChangedEnd, Set,
     RealTriangleChanged, RealTriangleChangedEnd,
     RealMoved, RealMovedEnd, RealEmit, RealEmitAllParams,
     TofTriangleChanged, TofTriangleChangedEnd, TofSet, TofAngleKiQ,
     TofMoved, TofMovedEnd, TofEmit, RecipDialogs, ResoRecip, ResoReal,
     ResoPars, ResoSense, ResoLoad, ResoUpdateOn, UpdateDs, SetSense,
     CalcPeaks, SnapToPeak, LoadEnd, layouts
  <2> QED BY <2>1, <2>2
<1> QED BY <1>2 DEF RealAngles, Angles

LEMMA OverPending ==
  \A p, q : Over(p, q) => \A x : RealPending(q, x) => RealPending(p, x)
<1> SUFFICES ASSUME NEW p, NEW q, Over(p, q), NEW x, RealPending(q, x)
             PROVE RealPending(p, x)
  OBVIOUS
<1>1. \A i \in DOMAIN q : \E j \in DOMAIN p : p[j] = q[i] BY DEF Over
<1> QED BY <1>1 DEF RealPending

LEMMA PendingMore ==
  \A f, q, x : IsStack(q) /\ RealPending(q, x) =>
    IsStack(Push(f, q)) /\ RealPending(Push(f, q), x)
BY RealPendingPush, StackPush

\* The triangle is told what it has.
LEMMA SetIdle ==
  ASSUME Control, NEW w \in Vars, Fits(todo, Context("show", w)), Set,
         IsStack(Rest), todo = Push(Head(todo), Rest),
         \A x \in {"tt", "kivec"} : Matches(x, w)
  PROVE tri' = tri
<1>1. /\ IsStack(todo) /\ Typed(todo)
      /\ tri \in [ki : Waves, kf : Waves, tt : Turns, th : Turns]
  BY DEF Control, DataType
<1> DEFINE h == Head(todo)
           O == Ops(Rest)
           c == Context("show", w)
<1>2. c.phase = "show" /\ c.vars = w BY ContextIs
<1> HIDE DEF c
<1>3. h.op = "Set" /\ Arg = h.arg BY <1>1, SetEffect DEF Arg
<1>4. Fit(h, O, c) /\ Fits(Rest, c) BY FitHead DEF c
<1>5. "SetSense" \notin O BY <1>2, <1>4 DEF Fits, Fit, Ops
<1>6. /\ DOMAIN Arg \subseteq {"tt", "kivec"}
      /\ \A x \in DOMAIN Arg : Arg[x] = w[x]
  BY <1>2, <1>3, <1>4, <1>5 DEF Fit, Tells
<1>7. PICK x \in AngleNames \ {"th"}, v \in SignedAngles \cup Turns :
        Arg = Only(x, v) /\ tri' = SetTri(x, v)
  BY <1>1, SetEffect
<1>8. x \in {"tt", "kivec"} /\ v = w[x]
  <2>1. DOMAIN Arg = {x} /\ Arg[x] = v BY <1>7, OnlyIs
  <2> QED BY <1>6, <2>1
<1>9. CASE x = "tt"
  <2>1. tri' = [tri EXCEPT !.tt = Turn(v, sense.sample)]
        BY <1>7, <1>9 DEF SetTri
  <2>2. tri.tt = Turn(v, sense.sample) BY <1>8, <1>9 DEF Matches
  <2> QED BY <1>1, <2>1, <2>2
<1>10. CASE x = "kivec"
  <2>1. tri' = [tri EXCEPT !.th = Turn(v, FALSE)] BY <1>7, <1>10 DEF SetTri
  <2>2. tri.th = Turn(v, FALSE) BY <1>8, <1>10 DEF Matches
  <2> QED BY <1>1, <2>1, <2>2
<1> QED BY <1>8, <1>9, <1>10

LEMMA ShowingStays ==
  ASSUME Control, Run, NEW w \in Vars, Showing(w), IsStack(Rest),
         todo = Push(Head(todo), Rest)
  PROVE /\ UNCHANGED <<tri, ds, sense>>
        /\ Fits(todo', Context("show", w)')
        /\ \A x \in {"tt", "kivec"} : Matches(x, w)'
<1> DEFINE c == Context("show", w)
<1>1. Fits(todo, c) /\ \A x \in {"tt", "kivec"} : Matches(x, w) BY DEF Showing
<1>2. c.phase = "show" /\ Current(c) BY ContextIs
<1>3. CASE Set
  <2>1. tri' = tri BY <1>1, <1>3, SetIdle
  <2>2. UNCHANGED <<ds, sense>> BY <1>3, SetEffect DEF Control
  <2>3. UNCHANGED <<tri, ds, sense>> BY <2>1, <2>2
  <2>4. Context("show", w)' = c /\ \A x : Matches(x, w)' <=> Matches(x, w)
    BY <2>3, SameContext
  <2> HIDE DEF c
  <2>5. Fits(todo', c) BY <1>1, <1>2, FitsStep
  <2> QED BY <1>1, <2>3, <2>4, <2>5
<1>4. CASE ~Set
  <2> HIDE DEF c
  <2>1. Fit(Head(todo), Ops(Rest), c) BY <1>1, FitHead
  <2>2. ~SetSense /\ ~UpdateDs
    BY <1>2, <2>1 DEF Fit, FollowOps, SetSense, UpdateDs, At
  <2>3. UNCHANGED <<tri, ds, sense>> BY <1>4, <2>2, TriangleStays
  <2>4. Context("show", w)' = c /\ \A x : Matches(x, w)' <=> Matches(x, w)
    BY <2>3, SameContext DEF c
  <2>5. Fits(todo', c) BY <1>1, <1>2, FitsStep
  <2> QED BY <1>1, <2>3, <2>4, <2>5
<1> QED BY <1>3, <1>4

\* An angle that the layout has not, is told.
LEMMA PendingRun ==
  ASSUME Control, Run, NEW c, Current(c), c.phase = "show", Fits(todo, c),
         IsStack(Rest), todo = Push(Head(todo), Rest), NEW x \in Angles,
         real[x] = TriangleAngles[x] \/ RealPending(todo, x)
  PROVE real'[x] = TriangleAngles[x] \/ RealPending(todo', x)
<1>1. IsStack(todo) /\ Typed(todo) /\ DOMAIN real = Angles \cup {"kiq"}
  BY DEF Control, DataType
<1> DEFINE h == Head(todo)
           A == TriangleAngles
<1>2. Over(todo', Rest) BY StepOver
<1>3. /\ Fit(h, Ops(Rest), c) /\ ready.real
  BY FitHead
<1>4. Arg = h.arg /\ \A o : h.op = o => At(o) BY RunHead DEF Arg
<1>5. c.angles = A BY DEF Current
<1> HIDE DEF A
<1>6. \/ real[x] = A[x]
      \/ h.op \in {"RealTriangleChanged", "RealSet"} /\ x \in DOMAIN h.arg
      \/ RealPending(Rest, x)
  <2>1. todo = Push(h, Rest) OBVIOUS
  <2> HIDE DEF h
  <2> QED BY <2>1, RealPendingPush DEF A
<1>7. CASE RealPending(Rest, x) BY <1>2, <1>7, OverPending
<1>8. CASE h.op = "RealSet"
  <2>1. RealSet BY <1>4, <1>8, ActsOf
  <2>2. PICK y \in Angles, v \in SignedAngles \cup Turns :
          Arg = Only(y, v) /\ real' = [real EXCEPT ![y] = v]
    BY <1>1, <2>1, RealSetEffect
  <2>3. DOMAIN h.arg = {y} /\ h.arg[y] = v
    <3>1. h.arg = Only(y, v) BY <1>4, <2>2
    <3> HIDE DEF h
    <3> QED BY <3>1, OnlyIs
  <2>4. v = A[y]
    BY <1>3, <1>5, <1>8, <2>3 DEF Fit, Drawers, Angles
  <2>5. CASE x = y BY <1>1, <2>2, <2>4, <2>5 DEF A
  <2>6. CASE x # y
    <3>1. real'[x] = real[x] BY <1>1, <2>2, <2>6
    <3> QED BY <1>6, <1>7, <2>3, <2>6, <3>1 DEF A
  <2> QED BY <2>5, <2>6
<1>9. CASE h.op = "RealTriangleChanged"
  <2>1. RealTriangleChanged BY <1>4, <1>9, ActsOf
  <2> DEFINE b == Arg
             p == Push(CallOf("RealTriangleChangedEnd"), Rest)
             S(y, q) == Setting("RealSet", y, b, q)
  <2>2. todo' = S("mono", S("ana", S("th", S("tt", p)))) /\ real' = real
    BY <1>1, <1>3, <2>1, RealTriangleChangedEffect
  <2>3. b = h.arg BY <1>4
  <2>4. IsStack(p) BY StackPush
  <2> HIDE DEF b, p
  <2>5. \A y, q : IsStack(q) => IsStack(S(y, q)) BY StackPush DEF Setting
  <2>6. \A y, q : IsStack(q) /\ RealPending(q, x) => RealPending(S(y, q), x)
    BY PendingMore DEF Setting
  <2>7. ASSUME NEW q, IsStack(q), x \in DOMAIN b PROVE RealPending(S(x, q), x)
    <3> DEFINE v == b[x]
               f == CallWith("RealSet", Only(x, v))
    <3>1. f.op = "RealSet" /\ f.arg = Only(x, v) BY Calling
    <3>2. S(x, q) = Push(f, q) BY <2>7 DEF Setting
    <3>3. DOMAIN Only(x, v) = {x} BY OnlyIs
    <3> HIDE DEF f, v
    <3>4. x \in DOMAIN f.arg BY <3>1, <3>3
    <3> QED BY <2>7, <3>1, <3>2, <3>4, RealPendingPush
  <2> HIDE DEF S
  <2> DEFINE k1 == S("tt", p)
             k2 == S("th", k1)
             k3 == S("ana", k2)
             k4 == S("mono", k3)
  <2>8. CASE x \in DOMAIN b
    <3>1. IsStack(k1) /\ (x = "tt" => RealPending(k1, x))
          BY <2>4, <2>5, <2>7, <2>8
    <3> HIDE DEF k1
    <3>2. IsStack(k2) /\ (x \in {"tt", "th"} => RealPending(k2, x))
      BY <2>5, <2>6, <2>7, <2>8, <3>1
    <3> HIDE DEF k2
    <3>3. IsStack(k3) /\ (x \in {"tt", "th", "ana"} => RealPending(k3, x))
      BY <2>5, <2>6, <2>7, <2>8, <3>2
    <3> HIDE DEF k3
    <3>4. RealPending(k4, x) BY <2>6, <2>7, <2>8, <3>3 DEF Angles
    <3> QED BY <2>2, <3>4 DEF k1, k2, k3, k4
  <2>9. CASE x \notin DOMAIN b BY <1>6, <1>7, <2>2, <2>3, <2>9 DEF A
  <2> QED BY <2>8, <2>9
<1>10. CASE h.op \notin {"RealSet", "RealTriangleChanged"}
  <2>1. real'[x] = real[x] BY <1>10, AnglesStay DEF RealSet, At
  <2> QED BY <1>6, <1>7, <1>10, <2>1 DEF A
<1> QED BY <1>8, <1>9, <1>10

LEMMA ShowingRun ==
  ASSUME Control, ShownType, Run, NEW w \in Vars, Showing(w), IsStack(Rest),
         todo = Push(Head(todo), Rest)
  PROVE Showing(w)'
<1> DEFINE h == Head(todo)
           O == Ops(Rest)
           c == Context("show", w)
           A == TriangleAngles
<1>1. /\ Fits(todo, c) /\ c.phase = "show" /\ Current(c)
      /\ \A x \in Angles : real[x] = A[x] \/ RealPending(todo, x)
      /\ Reports(todo) \/ (shown.real = RealAngles /\ Exact)
  BY ContextIs DEF Showing
<1>2. /\ UNCHANGED <<tri, ds, sense>>
      /\ Fits(todo', Context("show", w)')
      /\ \A x \in {"tt", "kivec"} : Matches(x, w)'
  BY ShowingStays
<1>3. A' = A BY <1>2, SameAngles
<1>4. \A x \in Angles : real'[x] = A[x] \/ RealPending(todo', x)
  <2> HIDE DEF c
  <2> QED BY <1>1, PendingRun
<1>5. Over(todo', Rest) BY StepOver
<1>6. Reports(todo') \/ (shown'.real = RealAngles' /\ Exact')
  <2>1. CASE Reports(Rest) BY <1>5, <2>1, OverKeeps
  <2>2. CASE Reporter(h, O)
    <3>1. \/ Reports(todo')
          \/ h.op = "RealEmitAllParams" /\ real' = real
               /\ shown'.real = RealAngles
      <4> HIDE DEF c
      <4> QED BY <1>1, <2>2, ReporterStep
    <3>2. ASSUME h.op = "RealEmitAllParams" PROVE Exact
      <4>1. O \cap Drawers = {} BY <2>2 DEF Reporter
      <4>2. \A x : ~RealPending(Rest, x) BY <4>1 DEF RealPending, Ops, Drawers
      <4>3. todo = Push(h, Rest) OBVIOUS
      <4>4. h.op = "RealEmitAllParams" BY <3>2
      <4> HIDE DEF h
      <4>5. \A x : ~RealPending(todo, x) BY <4>2, <4>3, <4>4, RealPendingPush
      <4> QED BY <1>1, <4>5 DEF Exact
    <3> QED BY <1>3, <3>1, <3>2 DEF RealAngles, Exact
  <2>3. CASE shown.real = RealAngles /\ Exact
    <3>1. \A x \in Angles : real'[x] = real[x]
      <4>1. CASE RealSet
        <5>1. IsStack(todo) /\ Typed(todo) /\ DOMAIN real = Angles \cup {"kiq"}
          BY DEF Control, DataType
        <5>2. PICK y \in Angles, v \in SignedAngles \cup Turns :
                Arg = Only(y, v) /\ real' = [real EXCEPT ![y] = v]
          BY <4>1, <5>1, RealSetEffect
        <5>3. h.op = "RealSet" /\ h.arg = Arg
              BY <4>1, <5>1, RealSetEffect DEF Arg
        <5>4. DOMAIN h.arg = {y} /\ h.arg[y] = v BY <5>2, <5>3, OnlyIs
        <5> HIDE DEF c, A, h
        <5>5. Fit(h, O, c) /\ c.angles = A BY <1>1, FitHead DEF h, Current, A
        <5>6. v = A[y] BY <1>1, <5>3, <5>4, <5>5 DEF Fit, Drawers, Angles
        <5>7. v = real[y] BY <2>3, <5>6 DEF Exact, A
        <5> QED BY <5>1, <5>2, <5>7
      <4>2. CASE ~RealSet BY <4>2, AnglesStay
      <4> QED BY <4>1, <4>2
    <3>2. RealAngles' = RealAngles BY <3>1 DEF RealAngles, Angles
    <3>3. Exact' BY <1>3, <2>3, <3>1 DEF Exact
    <3>4. shown'.real = RealAngles BY <2>3, ShownReal
    <3> QED BY <3>2, <3>3, <3>4
  <2>4. Reports(todo) => Reporter(h, O) \/ Reports(Rest)
    <3>1. todo = Push(h, Rest) OBVIOUS
    <3> HIDE DEF h
    <3> QED BY <3>1, ReportsPush
  <2> QED BY <1>1, <2>1, <2>2, <2>3, <2>4
<1> QED BY <1>2, <1>3, <1>4, <1>6 DEF Showing

LEMMA LiftingRun ==
  ASSUME Control, ShownType, Run, NEW w \in Vars, Lifting(w), IsStack(Rest),
         todo = Push(Head(todo), Rest)
  PROVE Lifting(w)'
<1> DEFINE h == Head(todo)
           O == Ops(Rest)
           c == Context("lift", w)
<1>1. /\ Fits(todo, c) /\ c.phase = "lift" /\ Current(c)
      /\ Reports(todo) \/ shown.real = RealAngles
  BY ContextIs DEF Lifting
<1>2. Fit(h, O, c) BY <1>1, FitHead
<1>3. ~SetSense /\ ~RealSet /\ ~UpdateDs
  BY <1>1, <1>2 DEF Fit, FollowOps, Drawers, SetSense, RealSet, UpdateDs, At
<1>4. Fits(todo', Context("lift", w)')
  <2>1. CASE Set
    <3>1. sense' = sense BY <2>1, SetEffect DEF Control
    <3> QED BY <1>1, <2>1, <3>1, ChangeFits
  <2>2. CASE ~Set
    <3>1. UNCHANGED <<tri, ds, sense>> BY <1>3, <2>2, TriangleStays
    <3>2. Context("lift", w)' = c BY <3>1, SameContext
    <3> HIDE DEF c
    <3>3. Fits(todo', c) BY <1>1, FitsStep
    <3> QED BY <3>2, <3>3
  <2> QED BY <2>1, <2>2
<1>5. RealAngles' = RealAngles BY <1>3, AnglesStay
<1>6. Over(todo', Rest) BY StepOver
<1>7. Reports(todo') \/ shown'.real = RealAngles'
  <2>1. CASE Reports(Rest) BY <1>6, <2>1, OverKeeps
  <2>2. CASE Reporter(h, O)
    <3> HIDE DEF c
    <3> QED BY <1>1, <1>5, <2>2, ReporterStep
  <2>3. CASE shown.real = RealAngles BY <1>5, <2>3, ShownReal
  <2>4. Reports(todo) => Reporter(h, O) \/ Reports(Rest)
    <3>1. todo = Push(h, Rest) OBVIOUS
    <3> HIDE DEF h
    <3> QED BY <3>1, ReportsPush
  <2> QED BY <1>1, <2>1, <2>2, <2>3, <2>4
<1> QED BY <1>4, <1>7 DEF Lifting

LEMMA RunDialogs ==
  ASSUME Control, Control', DialogInv, Run PROVE DialogInv'
<1>1. IsStack(todo) /\ todo # <<>> BY RunHead DEF Control
<1>2. IsStack(Rest) /\ todo = Push(Head(todo), Rest) BY <1>1, Popped
<1>3. ShownType /\ ShownType' BY ShownTypeKept DEF DialogInv
<1>4. event' = event
  BY DEF Run, RealLayout, TofLayout, Dialogs, MainWindow,
     TriangleMoved, EmitUpdate, EmitAllParams, TasChanged, TasChangedEnd, Set,
     RealTriangleChanged, RealTriangleChangedEnd, RealSet, RealAngleKiQ,
     RealMoved, RealMovedEnd, RealEmit, RealEmitAllParams,
     TofTriangleChanged, TofTriangleChangedEnd, TofSet, TofAngleKiQ,
     TofMoved, TofMovedEnd, TofEmit, RecipDialogs, ResoRecip, ResoReal,
     ResoPars, ResoSense, ResoLoad, ResoUpdateOn, UpdateDs, SetSense,
     CalcPeaks, SnapToPeak, LoadEnd, mouse
<1>5. ASSUME event \in Follows
      PROVE ParsDue' /\ \E w \in Vars : Refreshing(w)' \/ Showing(w)'
             \/ Lifting(w)'
  <2>1. ParsDue BY <1>5 DEF DialogInv
  <2>2. PICK w \in Vars : Refreshing(w) \/ Showing(w) \/ Lifting(w)
    BY <1>5 DEF DialogInv
  <2>3. PICK p \in {"refresh", "show", "lift"} : Fits(todo, Context(p, w))
    BY <2>2 DEF Refreshing, Showing, Lifting
  <2>4. ParsDue'
    <3> DEFINE c == Context(p, w)
    <3>1. Current(c) /\ Fits(todo, c) BY <2>3, ContextIs
    <3> HIDE DEF c
    <3> QED BY <1>2, <1>3, <2>1, <3>1, ParsKept
  <2>5. CASE Refreshing(w) BY <1>2, <2>4, <2>5, RefreshingRun
  <2>6. CASE Showing(w) BY <1>2, <1>3, <2>4, <2>6, ShowingRun
  <2>7. CASE Lifting(w) BY <1>2, <1>3, <2>4, <2>7, LiftingRun
  <2> QED BY <2>2, <2>5, <2>6, <2>7
<1> QED BY <1>3, <1>4, <1>5 DEF DialogInv, Vars, Follows

-----------------------------------------------------------------------------
(* What the events do to the dialogs.                                      *)

LEMMA FirstCall ==
  ASSUME NEW f, todo' = <<f>>
  PROVE /\ \A c : Fit(f, {}, c) => Fits(todo', c)
        /\ Emitter(f, {}) => Emits(todo')
        /\ Refresher(f, {}) => Refreshes(todo')
        /\ Reporter(f, {}) => Reports(todo')
<1>1. IsStack(<<>>) /\ Ops(<<>>) = {} /\ DOMAIN <<>> = {} BY EmptyStack
<1>2. todo' = Push(f, <<>>) BY One
<1>3. \A c : Fits(<<>>, c) BY <1>1 DEF Fits
<1>4. \A c : Fit(f, {}, c) => Fits(todo', c) BY <1>1, <1>2, <1>3, FitsPush
<1>5. Emitter(f, {}) => Emits(todo') BY <1>1, <1>2, EmitsPush
<1>6. Refresher(f, {}) => Refreshes(todo') BY <1>1, <1>2, RefreshesPush
<1>7. Reporter(f, {}) => Reports(todo') BY <1>1, <1>2, ReportsPush
<1> QED BY <1>4, <1>5, <1>6, <1>7

\* The triangle has some variables.
LEMMA VarsOfTriangle ==
  ASSUME DataType'
    PROVE \E w \in Vars : \A x \in {"tt", "kivec"} : Matches(x, w)'
<1>1. tri'.tt \in Turns /\ tri'.th \in Turns /\ sense'.sample \in BOOLEAN
  BY DEF DataType
<1>2. PICK w \in Vars : tri'.tt = Turn(w.tt, sense'.sample)
                        /\ tri'.th = Turn(w.kivec, FALSE)
  BY <1>1, VarsThere
<1>3. \A x \in {"tt", "kivec"} : Matches(x, w)' BY <1>2 DEF Matches
<1> QED BY <1>3

LEMMA DragTriangleFollows ==
  ASSUME Control, DataType', ShownType, DragKiKf \/ DragKfQ \/ DragGq
  PROVE DialogInv' /\ \E w \in Vars : Refreshing(w)'
<1>1. /\ shown' = shown
      /\ \E s : todo' = <<CallWith("TriangleMoved", s)>>
  <2>1. CASE DragKiKf BY <2>1 DEF DragKiKf, dialogs
  <2>2. CASE DragKfQ
    <3>1. shown' = shown BY <2>2, ZenonT(30) DEF DragKfQ, dialogs
    <3>2. todo' = <<CallWith("TriangleMoved", "KfQ")>>
          BY <2>2, ZenonT(30) DEF DragKfQ
    <3> QED BY <3>1, <3>2
  <2>3. CASE DragGq BY <2>3 DEF DragGq, dialogs
  <2> QED BY <2>1, <2>2, <2>3
<1>2. PICK s : todo' = <<CallWith("TriangleMoved", s)>> BY <1>1
<1> DEFINE f == CallWith("TriangleMoved", s)
<1>3. f.op = "TriangleMoved" BY Calling
<1>4. todo' = <<f>> BY <1>2
<1> HIDE DEF f
<1>5. PICK w \in Vars : \A x \in {"tt", "kivec"} : Matches(x, w)'
      BY VarsOfTriangle
<1>6. \A c : c.phase = "refresh" => Fit(f, {}, c)
  BY <1>3 DEF Fit, FollowOps, ParOps, Tells, Lifts, TofLifts, Drawers
<1>7. Emitter(f, {}) /\ Refresher(f, {}) BY <1>3 DEF Emitter, Refresher
<1>8. /\ Emits(todo') /\ Refreshes(todo')
      /\ \A c : c.phase = "refresh" => Fits(todo', c)
  BY <1>4, <1>6, <1>7, FirstCall
<1>9. Context("refresh", w)'.phase = "refresh" BY DEF Context
<1>10. Refreshing(w)' BY <1>5, <1>8, <1>9 DEF Refreshing
<1> QED BY <1>1, <1>8, <1>10 DEF DialogInv, ParsDue, ShownType, Vars

LEMMA CheckSenseFollows ==
  ASSUME Control, DataType', ShownType, CheckSense
  PROVE DialogInv' /\ \E w \in Vars : Refreshing(w)'
<1>1. shown' = shown BY DEF CheckSense, dialogs
<1>2. PICK a : todo' = <<CallWith("SetSense", a)>> BY DEF CheckSense
<1> DEFINE f == CallWith("SetSense", a)
<1>3. f.op = "SetSense" BY Calling
<1>4. todo' = <<f>> BY <1>2
<1> HIDE DEF f
<1>5. PICK w \in Vars : \A x \in {"tt", "kivec"} : Matches(x, w)'
      BY VarsOfTriangle
<1>6. \A c : c.phase = "refresh" => Fit(f, {}, c)
  BY <1>3 DEF Fit, FollowOps, ParOps, Tells, Lifts, TofLifts, Drawers
<1>7. Emitter(f, {}) /\ Refresher(f, {}) BY <1>3 DEF Emitter, Refresher
<1>8. /\ Emits(todo') /\ Refreshes(todo')
      /\ \A c : c.phase = "refresh" => Fits(todo', c)
  BY <1>4, <1>6, <1>7, FirstCall
<1>9. Context("refresh", w)'.phase = "refresh" BY DEF Context
<1>10. Refreshing(w)' BY <1>5, <1>8, <1>9 DEF Refreshing
<1> QED BY <1>1, <1>8, <1>10 DEF DialogInv, ParsDue, ShownType, Vars

LEMMA DragRealFollows ==
  ASSUME Control, DataType', ShownType, DragReal
  PROVE DialogInv' /\ \E w \in Vars : Lifting(w)'
<1>1. shown' = shown BY DEF DragReal, dialogs
<1>2. PICK x \in {"mono", "ana", "tt"} : todo'
      = <<CallWith("RealMoved", Mover[x])>>
  BY DragRealStarts
<1> DEFINE f == CallWith("RealMoved", Mover[x])
<1>3. f.op = "RealMoved" /\ f.arg = Mover[x] BY Calling
<1>4. Mover[x] \in {"sample", "ana", "det"} BY DEF Mover
<1>5. todo' = <<f>> BY <1>2
<1> HIDE DEF f
<1>6. PICK w \in Vars : TRUE BY VarsOfTriangle
<1>7. \A c : c.phase = "lift" => Fit(f, {}, c)
  BY <1>3, <1>4 DEF Fit, FollowOps, ParOps, Tells, Lifts, TofLifts, Drawers
<1>8. Emitter(f, {}) /\ Reporter(f, {})
  BY <1>3, <1>4 DEF Emitter, Reporter
<1>9. Emits(todo') /\ Reports(todo') /\ \A c : c.phase = "lift"
      => Fits(todo', c)
  BY <1>5, <1>7, <1>8, FirstCall
<1>10. Context("lift", w)'.phase = "lift" BY DEF Context
<1>11. Lifting(w)' BY <1>9, <1>10 DEF Lifting
<1> QED BY <1>1, <1>9, <1>11 DEF DialogInv, ParsDue, ShownType, Vars

\* What VarsChanged() calls: e sets the sense at the sample, r tells the
\* triangle the rotation of ki.
LEMMA VarsCalls ==
  ASSUME Control, VarsChanged
  PROVE \E w, r :
    /\ IsStack(r) /\ \A x \in DOMAIN w : w[x] \in AngleValues(x)
    /\ \/ r = <<>>
       \/ /\ r = Push(CallWith("TasChanged", w),
               Push(CallOf("EmitUpdate"), <<>>))
          /\ DOMAIN w \subseteq {"tt", "kivec"}
    /\ todo' = Push(CallWith("RealTriangleChanged", w),
               Push(CallWith("RealEmit", w),
               Push(CallWith("SetSense", Only("mono", sense.mono)),
               Push(CallWith("SetSense", Only("ana", sense.ana)),
               Push(CallWith("SetSense", Only("sample", sense.sample)), r)))))
<1>1. DataType BY DEF Control
<1>2. PICK v \in [{"mono"} -> SignedAngles] \cup [{"ana"} -> SignedAngles]
                 \cup [{"tt"} -> Turns] \cup [{"tt", "kivec"} -> Turns] :
        todo' = <<CallWith("RealTriangleChanged", VarsOf(v)),
                  CallWith("RealEmit", VarsOf(v)),
                  CallWith("SetSense", Only("mono", sense.mono)),
                  CallWith("SetSense", Only("ana", sense.ana)),
                  CallWith("SetSense", Only("sample", sense.sample))>>
                \o IF "kivec" \in DOMAIN v
                   THEN <<CallWith("TasChanged", VarsOf(v)),
                     CallOf("EmitUpdate")>>
                   ELSE <<>>
  BY DEF VarsChanged
<1> DEFINE w == VarsOf(v)
           f == CallWith("TasChanged", w)
           g == CallOf("EmitUpdate")
           r == IF "kivec" \in DOMAIN v THEN <<f, g>> ELSE <<>>
<1>3. /\ \A x \in DOMAIN w : w[x] \in AngleValues(x)
      /\ DOMAIN w = DOMAIN v
  BY <1>1, <1>2, VarsTyped
<1>4. "kivec" \in DOMAIN v => DOMAIN v = {"tt", "kivec"} BY <1>2
<1> HIDE DEF w
<1>5. r = <<>> \/ (r = Push(f, Push(g, <<>>)) /\ DOMAIN w \subseteq {"tt",
      "kivec"})
  BY <1>3, <1>4, Two DEF r
<1>6. IsStack(r) BY <1>5, EmptyStack, StackPush
<1> DEFINE a == CallWith("RealTriangleChanged", w)
           b == CallWith("RealEmit", w)
           c == CallWith("SetSense", Only("mono", sense.mono))
           d == CallWith("SetSense", Only("ana", sense.ana))
           e == CallWith("SetSense", Only("sample", sense.sample))
<1>7. todo' = <<a, b, c, d, e>> \o r BY <1>2 DEF w
<1> HIDE DEF a, b, c, d, e, r
<1>8. todo' = Push(a, Push(b, Push(c, Push(d, Push(e, r)))))
  BY <1>6, <1>7, UnfoldFive
<1> USE DEF a, b, c, d, e, f, g
<1> QED BY <1>3, <1>5, <1>6, <1>8

LEMMA VarsChangedFollows ==
  ASSUME Control, DataType', ShownType, VarsChanged
  PROVE DialogInv' /\ \E w \in Vars : Refreshing(w)'
<1>1. shown' = shown /\ sense' = sense BY DEF VarsChanged, dialogs, optics
<1>2. PICK w, r :
        /\ IsStack(r) /\ \A x \in DOMAIN w : w[x] \in AngleValues(x)
        /\ \/ r = <<>>
           \/ /\ r = Push(CallWith("TasChanged", w),
                   Push(CallOf("EmitUpdate"), <<>>))
              /\ DOMAIN w \subseteq {"tt", "kivec"}
        /\ todo' = Push(CallWith("RealTriangleChanged", w),
                   Push(CallWith("RealEmit", w),
                   Push(CallWith("SetSense", Only("mono", sense.mono)),
                   Push(CallWith("SetSense", Only("ana", sense.ana)),
                   Push(CallWith("SetSense", Only("sample", sense.sample)),
                     r)))))
  BY VarsCalls
<1>3. PICK u \in Vars : \A x \in {"tt", "kivec"} : Matches(x, u)'
      BY VarsOfTriangle
<1> DEFINE z == [tt |-> IF "tt" \in DOMAIN w THEN w["tt"] ELSE u.tt,
                 kivec |-> IF "kivec" \in DOMAIN w THEN w["kivec"]
                   ELSE u.kivec]
<1>4. z \in Vars BY <1>2, <1>3 DEF Vars, AngleValues, Crystals
<1>5. /\ \A x \in DOMAIN w \cap {"tt", "kivec"} : w[x] = z[x]
      /\ \A x \in {"tt", "kivec"} \ DOMAIN w : z[x] = u[x]
  OBVIOUS
<1> HIDE DEF z
<1>6. \A x \in {"tt", "kivec"} \ DOMAIN w : Matches(x, z)'
  BY <1>3, <1>5 DEF Matches
<1> DEFINE a == CallWith("RealTriangleChanged", w)
           b == CallWith("RealEmit", w)
           p == Only("mono", sense.mono)
           q == Only("ana", sense.ana)
           s == Only("sample", sense.sample)
           c == CallWith("SetSense", p)
           d == CallWith("SetSense", q)
           e == CallWith("SetSense", s)
           f == CallWith("TasChanged", w)
           g == CallOf("EmitUpdate")
           k == Context("refresh", z)'
<1>7. /\ DOMAIN p = {"mono"} /\ DOMAIN q = {"ana"} /\ DOMAIN s = {"sample"}
      /\ s["sample"] = sense.sample
  BY OnlyIs
<1>8. /\ a.op = "RealTriangleChanged" /\ b.op = "RealEmit" /\ b.arg = w
      /\ c.op = "SetSense" /\ d.op = "SetSense" /\ e.op = "SetSense"
      /\ c.arg = p /\ d.arg = q /\ e.arg = s
      /\ f.op = "TasChanged" /\ f.arg = w /\ g.op = "EmitUpdate"
  BY Calling
<1>9. k.phase = "refresh" /\ k.vars = z /\ k.pos = sense.sample
  BY <1>1 DEF Context
<1>10. /\ todo' = Push(a, Push(b, Push(c, Push(d, Push(e, r)))))
       /\ IsStack(r)
       /\ r = <<>> \/ (r = Push(f, Push(g, <<>>)) /\ DOMAIN w \subseteq {"tt",
            "kivec"})
  BY <1>2
<1> HIDE DEF a, b, c, d, e, f, g, p, q, s, k
<1> USE DEF Fit, FollowOps, ParOps, Tells, Lifts, TofLifts, Drawers
<1>11. Fits(r, k) /\ Ops(r) \subseteq {"TasChanged", "EmitUpdate"}
  <2>1. IsStack(<<>>) /\ Ops(<<>>) = {} /\ DOMAIN <<>> = {} BY EmptyStack
  <2>2. Fits(<<>>, k) BY <2>1 DEF Fits
  <2>3. CASE r = <<>> BY <2>1, <2>2, <2>3
  <2>4. CASE r = Push(f, Push(g, <<>>)) /\ DOMAIN w \subseteq {"tt", "kivec"}
    <3> DEFINE l == Push(g, <<>>)
    <3>1. Fit(g, {}, k) BY <1>8, <1>9
    <3>2. IsStack(l) /\ Fits(l, k) /\ Ops(l) = {"EmitUpdate"}
      BY <1>8, <2>1, <2>2, <3>1, FitsMore, PushOps
    <3>3. r = Push(f, l) BY <2>4
    <3> HIDE DEF l
    <3>4. Fit(f, {"EmitUpdate"}, k) BY <1>5, <1>8, <1>9, <2>4
    <3> QED BY <1>8, <3>2, <3>3, <3>4, FitsMore, PushOps
  <2> QED BY <1>10, <2>3, <2>4
<1> DEFINE r1 == Push(e, r)
           r2 == Push(d, r1)
           r3 == Push(c, r2)
           r4 == Push(b, r3)
<1>12. todo' = Push(a, r4) BY <1>10
<1>13. /\ IsStack(r1) /\ Fits(r1, k) /\ Refreshes(r1) /\ Emits(r1)
       /\ Ops(r1) \subseteq {"TasChanged", "EmitUpdate", "SetSense"}
  <2>1. Fit(e, Ops(r), k) BY <1>7, <1>8, <1>9, <1>11
  <2>2. Refresher(e, Ops(r)) /\ Emitter(e, Ops(r))
        BY <1>8, <1>11 DEF Refresher, Emitter
  <2>3. IsStack(r1) /\ Fits(r1, k) BY <1>10, <1>11, <2>1, FitsMore
  <2>4. Refreshes(r1) /\ Emits(r1) BY <1>10, <2>2, RefreshesPush, EmitsPush
  <2>5. Ops(r1) = {e.op} \cup Ops(r) BY <1>10, PushOps
  <2> QED BY <1>8, <1>11, <2>3, <2>4, <2>5
<1> HIDE DEF r1
<1>14. /\ IsStack(r2) /\ Fits(r2, k) /\ Refreshes(r2) /\ Emits(r2)
       /\ Ops(r2) \subseteq {"TasChanged", "EmitUpdate", "SetSense"}
  <2>1. Fit(d, Ops(r1), k) BY <1>7, <1>8, <1>9, <1>13
  <2>2. IsStack(r2) /\ Fits(r2, k) BY <1>13, <2>1, FitsMore
  <2>3. Refreshes(r2) /\ Emits(r2) BY <1>13, RefreshesPush, EmitsPush
  <2>4. Ops(r2) = {d.op} \cup Ops(r1) BY <1>13, PushOps
  <2> QED BY <1>8, <1>13, <2>2, <2>3, <2>4
<1> HIDE DEF r2
<1>15. /\ IsStack(r3) /\ Fits(r3, k) /\ Refreshes(r3) /\ Emits(r3)
       /\ Ops(r3) \subseteq {"TasChanged", "EmitUpdate", "SetSense"}
       /\ "SetSense" \in Ops(r3)
  <2>1. Fit(c, Ops(r2), k) BY <1>7, <1>8, <1>9, <1>14
  <2>2. IsStack(r3) /\ Fits(r3, k) BY <1>14, <2>1, FitsMore
  <2>3. Refreshes(r3) /\ Emits(r3) BY <1>14, RefreshesPush, EmitsPush
  <2>4. Ops(r3) = {c.op} \cup Ops(r2) BY <1>14, PushOps
  <2> QED BY <1>8, <1>14, <2>2, <2>3, <2>4
<1> HIDE DEF r3
<1>16. /\ IsStack(r4) /\ Fits(r4, k) /\ Refreshes(r4) /\ Emits(r4)
       /\ \A x \in DOMAIN w : Brings(r4, x)
  <2>1. Fit(b, Ops(r3), k) BY <1>5, <1>8, <1>9, <1>15
  <2>2. \A x \in DOMAIN w : Bringer(b, Ops(r3), x) BY <1>8, <1>15 DEF Bringer
  <2> QED BY <1>15, <2>1, <2>2, FitsMore, RefreshesPush, EmitsPush, BringsPush
<1> HIDE DEF r4
<1>17. /\ Fits(todo', k) /\ Refreshes(todo') /\ Emits(todo')
       /\ \A x \in DOMAIN w : Brings(todo', x)
  <2>1. Fit(a, Ops(r4), k) BY <1>8, <1>9
  <2> QED BY <1>12, <1>16, <2>1, FitsMore, RefreshesPush, EmitsPush, BringsPush
<1>18. Refreshing(z)'
  BY <1>6, <1>17 DEF Refreshing, k
<1> QED BY <1>1, <1>4, <1>17, <1>18 DEF DialogInv, ParsDue, ShownType, Vars

\* The other events.
LEMMA OtherEvents ==
  ASSUME ShownType,
         \/ \E s \in {"recip", "real", "tof"} : Press(s)
         \/ DragMono \/ DragTof \/ EditSpacing \/ EditCrystal
         \/ ToggleSnap \/ ToggleKeep \/ OpenReso \/ Load
  PROVE DialogInv'
<1>1. event' \notin Follows
  BY DEF Press, DragMono, DragTof, EditSpacing, EditCrystal, ToggleSnap,
         ToggleKeep, OpenReso, Load, Event, Follows
<1>2. shown' = shown
  BY DEF Press, DragMono, DragTof, EditSpacing, EditCrystal, ToggleSnap,
         ToggleKeep, OpenReso, Load, dialogs
<1> QED BY <1>1, <1>2 DEF DialogInv, ShownType

\* Nothing that the dialogs are compared with has changed.
LEMMA SameDialogs ==
  ASSUME DialogInv, UNCHANGED <<todo, event, shown, tri, ds, sense, real, tof>>
  PROVE DialogInv'
<1>1. Params' = Params /\ TriangleAngles' = TriangleAngles
  BY SameParams, SameAngles
<1>2. ShownType' BY DEF DialogInv, ShownType
<1>3. ParsDue => ParsDue' BY <1>1 DEF ParsDue
<1>4. RealAngles' = RealAngles BY DEF RealAngles
<1>5. \A w : Refreshing(w) => Refreshing(w)'
  BY SameContext DEF Refreshing
<1>6. \A w : Lifting(w) => Lifting(w)'
  BY <1>4, SameContext DEF Lifting
<1>7. \A w : Showing(w) => Showing(w)'
  BY <1>1, <1>4, SameContext DEF Showing, Exact
<1> QED BY <1>2, <1>3, <1>5, <1>6, <1>7 DEF DialogInv, Vars, Follows

LEMMA UserDialogs ==
  ASSUME Control, DataType', DialogInv, User PROVE DialogInv'
<1>1. ShownType BY DEF DialogInv
<1>2. CASE DragKiKf \/ DragKfQ \/ DragGq BY <1>1, <1>2, DragTriangleFollows
<1>3. CASE CheckSense BY <1>1, <1>3, CheckSenseFollows
<1>4. CASE DragReal BY <1>1, <1>4, DragRealFollows
<1>5. CASE VarsChanged BY <1>1, <1>5, VarsChangedFollows
<1>6. CASE Release
  <2>1. UNCHANGED <<todo, event, shown, tri, ds, sense, real, tof>>
    BY <1>6 DEF Release, nodes, optics, layouts
  <2> QED BY <2>1, SameDialogs
<1>7. CASE \/ \E s \in {"recip", "real", "tof"} : Press(s)
           \/ DragMono \/ DragTof \/ EditSpacing \/ EditCrystal
           \/ ToggleSnap \/ ToggleKeep \/ OpenReso \/ Load
  BY <1>1, <1>7, OtherEvents
<1> QED BY <1>2, <1>3, <1>4, <1>5, <1>6, <1>7 DEF User

\* DialogInvariance: after a movement in the triangle or in the triple-axis
\* layout, a change of sense or new variables, each listener of the triangle
\* has its parameters or is going to get them, and the dialog of the layout's
\* angles is going to get those that the layout ends with, in whichever order
\* the scenes call each other; the inductive invariant of DialogsFollow.
THEOREM DialogInvariance == ScSpec => [](Control /\ DialogInv)
<1>1. ScInit => Control /\ DialogInv
  <2> SUFFICES ASSUME ScInit PROVE Control /\ DialogInv OBVIOUS
  <2>1. event = "none" /\ DOMAIN shown = {"recip", "real"} BY DEF ScInit
  <2> QED BY <2>1, InitControl DEF DialogInv, ShownType, Follows
<1>2. Control /\ DialogInv /\ [ScNext]_scvars => (Control /\ DialogInv)'
  <2> SUFFICES ASSUME Control, DialogInv, [ScNext]_scvars
               PROVE Control' /\ DialogInv'
    OBVIOUS
  <2>1. CASE Run BY <2>1, RunControl, RunDialogs
  <2>2. CASE User
    <3>1. Control' BY <2>2, UserControl
    <3> QED BY <2>2, <3>1, UserDialogs DEF Control
  <2>3. CASE UNCHANGED scvars
    <3>1. UNCHANGED <<todo, event, shown, tri, ds, sense, real, tof>>
      BY <2>3 DEF scvars, nodes, optics, layouts, dialogs, mouse
    <3> QED BY <2>3, <3>1, StutterControl, SameDialogs
  <2> QED BY <2>1, <2>2, <2>3 DEF ScNext, Spent
<1> QED BY <1>1, <1>2, PTL DEF ScSpec

\* DialogsFollowAlways: whenever no call is under way and the last event was
\* one of these, the dialogs of the triangle and of its layouts show the
\* instrument as it is.
THEOREM DialogsFollowAlways == ScSpec => []DialogsFollow
<1>1. Control /\ DialogInv => DialogsFollow
  <2> SUFFICES ASSUME DialogInv, todo = <<>>, event \in Follows
               PROVE /\ shown.recip = Params /\ real.kiq = Params
                     /\ tof.kiq = Params /\ shown.real = RealAngles
    BY DEF DialogsFollow, Idle, Follows
  <2>1. DOMAIN todo = {} /\ Ops(todo) = {} BY EmptyStack
  <2>2. ~Emits(todo) /\ ~Refreshes(todo) /\ ~Reports(todo)
    BY <2>1 DEF Emits, Refreshes, Reports
  <2>3. ParsDue /\ \E w \in Vars : Showing(w) \/ Lifting(w)
    BY <2>2 DEF DialogInv, Refreshing
  <2>4. shown.real = RealAngles BY <2>2, <2>3 DEF Showing, Lifting
  <2> QED BY <2>1, <2>2, <2>3, <2>4 DEF ParsDue
<1> QED BY DialogInvariance, <1>1, PTL

==============================================================================
