----------------------------- MODULE Reso_proofs -----------------------------
(***************************************************************************)
(* Proofs about the dialog of the resolution and the loader of its files,  *)
(* for any positions, curves, values of the fields and number of events:   *)
(* what is shown is the result for the fields, the convolution has the     *)
(* same resolution, and the ellipses are those of the result.              *)
(***************************************************************************)
EXTENDS Reso, SequenceTheorems, TLAPS

-----------------------------------------------------------------------------
(* The calculation, and what is shown of it.                               *)

\* The algorithms give a result or none.
LEMMA AlgoResults ==
  ASSUME NEW a \in Algos, NEW p
  PROVE  RunAlgo(a, p).ok \in BOOLEAN
<1>1. a \in {"cn", "pop", "eck", "viol", "simple"}
  BY ResoAssumption
<1>2. Failed.ok \in BOOLEAN /\ \A x, y : Resolved(x, y).ok \in BOOLEAN
  BY DEF Failed, Resolved
<1> QED
  BY <1>1, <1>2 DEF RunAlgo, CalcCn, CalcPop, CalcEck, CalcViol, CalcSimple

\* A curve that was found has the name that was looked for.
LEMMA CurveNames ==
  ASSUME NEW n, NEW d
  PROVE  FindCurve(n, d) = <<"bad">> \/ FindCurve(n, d)[2] = n
  BY DEF FindCurve

\* Open windows draw what they are given, and nothing else changes.
LEMMA Emitted ==
  ASSUME NEW s, DialogOK(s)
  PROVE  LET r == EmitResults(s)
         IN  /\ r = [s EXCEPT !.d2 = r.d2, !.d3 = r.d3]
             /\ DialogOK(r) /\ WindowInv(r)
<1> DEFINE r == EmitResults(s)
<1>1. /\ r = [s EXCEPT !.d2 = r.d2, !.d3 = r.d3] /\ DOMAIN r = DOMAIN s
      /\ r.d2 = IF s.d2.open
                THEN Draw2D([s.d2 EXCEPT !.mats = Matrices(s)], s.mc) ELSE s.d2
      /\ r.d3 = IF s.d3.open
                THEN Draw3D([s.d3 EXCEPT !.mats = Matrices(s)]) ELSE s.d3
  BY DEF EmitResults, DialogOK
<1>2. Matrices(r) = Matrices(s) /\ r.mc = s.mc
  BY <1>1 DEF Matrices, DialogOK
<1>3. /\ DOMAIN r.d2 = DOMAIN NoWindow /\ r.d2.coord = s.d2.coord
      /\ r.d2.open = s.d2.open
  BY <1>1 DEF DialogOK, Draw2D, NoWindow
<1>4. /\ DOMAIN r.d3 = DOMAIN NoWindow /\ r.d3.coord = s.d3.coord
      /\ r.d3.open = s.d3.open
  BY <1>1 DEF DialogOK, Draw3D, NoWindow
<1>5. ASSUME s.d2.open
      PROVE  /\ r.d2.mats = Matrices(r)
             /\ r.d2.drawn.mat = Matrices(r)[r.d2.coord]
             /\ r.d2.drawn.coord = r.d2.coord
             /\ r.d2.drawn.mc # <<>> => r.d2.drawn.mc \in {r.mc.direct, r.mc.hkl}
  BY <1>1, <1>2, <1>3, <1>5 DEF DialogOK, Draw2D, NoWindow
<1>6. ASSUME s.d3.open
      PROVE  /\ r.d3.mats = Matrices(r)
             /\ r.d3.drawn.mat = Matrices(r)[r.d3.coord]
             /\ r.d3.drawn.coord = r.d3.coord
             /\ r.d3.drawn.mc = <<>>
  BY <1>1, <1>2, <1>4, <1>6 DEF DialogOK, Draw3D, NoWindow
<1>7. DialogOK(r)
  BY <1>1, <1>3, <1>4 DEF DialogOK
<1>8. WindowInv(r)
  BY <1>3, <1>4, <1>5, <1>6 DEF WindowInv
<1> QED
  BY <1>1, <1>7, <1>8

\* What a result is shown as.
LEMMA Succeeded ==
  ASSUME NEW s, DialogOK(s), s.res.ok, s.current = FALSE
  PROVE  LET r == Succeed(s)
         IN  /\ DialogOK(r) /\ DerivedInv(r) /\ WindowInv(r)
             /\ r.status = "ok" /\ r.f = s.f /\ r.p = s.p /\ r.res = s.res
             /\ r.closed = s.closed /\ r.tabs = s.tabs
             /\ r.fresh /\ s.f.live => r.mc.direct.ell = CalcEllipsoid4(s.res)
<1> DEFINE s1 == IF s.auto THEN [CalcElli4d(s) EXCEPT !.current = TRUE] ELSE s
           s2 == IF s.hasUB
                 THEN [s1 EXCEPT
                        !.hkl = LabToRlu(s.angle, s.ub, s.res.reso),
                        !.orient = LabToOrient(s.angle, s.ub, s.res.reso)]
                 ELSE s1
           s3 == [s2 EXCEPT
                   !.text = [reso |-> s.res.reso, r0 |-> s.res.r0,
                             bragg |-> BraggFwhms(s.res.reso),
                             hkl |-> IF s.hasUB THEN s2.hkl ELSE <<>>],
                   !.status = "ok", !.fresh = s.auto]
           s4 == [s3 EXCEPT !.mc = LiveMC(s3)]
           r == EmitResults(s4)
<1>1. /\ DOMAIN s1 = DOMAIN s /\ s1.current = s.auto
      /\ \A x \in DOMAIN s \ {"ell", "current"} : s1[x] = s[x]
      /\ s.auto => s1.ell = CalcEllipsoid4(s.res)
  <2>1. s.auto \in BOOLEAN
    BY DEF DialogOK
  <2>2. CASE s.auto = TRUE
    <3>1. s1 = [[s EXCEPT !.ell = CalcEllipsoid4(s.res)] EXCEPT !.current = TRUE]
      BY <2>2 DEF CalcElli4d
    <3> HIDE DEF s1
    <3> QED
      BY <2>2, <3>1 DEF DialogOK
  <2>3. CASE s.auto = FALSE
    BY <2>3
  <2> QED
    BY <2>1, <2>2, <2>3
<1> HIDE DEF s1
<1>2. /\ DOMAIN s2 = DOMAIN s
      /\ \A x \in DOMAIN s \ {"ell", "current", "hkl", "orient"} : s2[x] = s[x]
      /\ s2.ell = s1.ell /\ s2.current = s.auto
      /\ s.hasUB => s2.hkl = LabToRlu(s.angle, s.ub, s.res.reso)
  BY <1>1 DEF DialogOK
<1> HIDE DEF s2
<1>3. /\ DOMAIN s3 = DOMAIN s
      /\ \A x \in DOMAIN s \ {"ell", "current", "hkl", "orient", "text",
                               "status", "fresh"} : s3[x] = s[x]
      /\ s3.ell = s1.ell /\ s3.current = s.auto /\ s3.hkl = s2.hkl
      /\ s3.status = "ok" /\ s3.fresh = s.auto
      /\ s3.text.reso = s.res.reso /\ s3.text.r0 = s.res.r0
      /\ s3.text.hkl = IF s.hasUB THEN s2.hkl ELSE <<>>
  BY <1>2 DEF DialogOK
<1> HIDE DEF s3
<1>4. /\ DOMAIN s4 = DOMAIN s /\ s4.mc = LiveMC(s3)
      /\ \A x \in DOMAIN s \ {"mc"} : s4[x] = s3[x]
  BY <1>3 DEF DialogOK
<1> HIDE DEF s4
<1>5. /\ s4.status = "ok" /\ s4.f = s.f /\ s4.p = s.p /\ s4.res = s.res
      /\ s4.closed = s.closed /\ s4.tabs = s.tabs
      /\ s4.mc = LiveMC(s3) /\ s4.fresh = s.auto /\ s4.current = s.auto
      /\ s4.ell = s1.ell /\ s4.hkl = s2.hkl /\ s4.text = s3.text
      /\ s4.auto = s.auto /\ s4.hasUB = s.hasUB /\ s4.cache = s.cache
      /\ s4.d2 = s.d2 /\ s4.d3 = s.d3
  BY <1>3, <1>4 DEF DialogOK
<1>50. DialogOK(s4)
  BY <1>4, <1>5 DEF DialogOK
<1>6. /\ r = [s4 EXCEPT !.d2 = r.d2, !.d3 = r.d3]
      /\ DialogOK(r) /\ WindowInv(r)
  BY <1>50, Emitted
<1> HIDE DEF r
<1>7. /\ r.status = "ok" /\ r.f = s.f /\ r.p = s.p /\ r.res = s.res
      /\ r.closed = s.closed /\ r.tabs = s.tabs
      /\ r.mc = LiveMC(s3) /\ r.fresh = s.auto /\ r.current = s.auto
      /\ r.ell = s1.ell /\ r.hkl = s2.hkl /\ r.text = s3.text
  <2>2. \A x \in DOMAIN s4 \ {"d2", "d3"} : r[x] = s4[x]
    BY <1>50, <1>6 DEF DialogOK
  <2>3. /\ r.status = s4.status /\ r.f = s4.f /\ r.p = s4.p /\ r.res = s4.res
        /\ r.closed = s4.closed /\ r.tabs = s4.tabs
        /\ r.mc = s4.mc /\ r.fresh = s4.fresh /\ r.current = s4.current
        /\ r.ell = s4.ell /\ r.hkl = s4.hkl /\ r.text = s4.text
    BY <1>50, <2>2 DEF DialogOK
  <2> QED
    BY <1>5, <2>3
<1>8. s.auto => s3.ell = CalcEllipsoid4(s.res)
  BY <1>1, <1>3
<1>9. r.fresh /\ s.f.live => r.mc.direct.ell = CalcEllipsoid4(s.res)
  <2>1. s3.f = s.f
    BY <1>3 DEF DialogOK
  <2> QED
    BY <2>1, <1>7, <1>8 DEF LiveMC, McNeutrons
<1>10. r.fresh /\ r.mc.hkl # <<>> =>
         r.mc.hkl = McNeutrons(CalcEllipsoid4(r.res), "rlu", r.mc.hkl.opts)
  BY <1>7, <1>8 DEF LiveMC, McNeutrons
<1>11. r.text.hkl # <<>> => r.text.hkl = r.hkl /\ r.hkl.reso = r.res.reso
  BY <1>2, <1>3, <1>7 DEF LabToRlu
<1>12. DerivedInv(r)
  BY <1>1, <1>3, <1>7, <1>10, <1>11 DEF DerivedInv
<1>13. r = Succeed(s)
  BY DEF r, s1, s2, s3, s4, Succeed
<1> QED
  BY <1>6, <1>7, <1>9, <1>12, <1>13

\* The parameters as a record of the fields.
LEMMA ParamsFacts ==
  ASSUME NEW s
  PROVE  LET p == ParamsOf(s)
         IN  /\ DOMAIN p = {"coll", "flags", "pos", "theta", "curve", "guide",
                            "size", "focus", "curv", "vert", "offset", "tof",
                            "sig"}
             /\ p.pos = s.p.pos /\ p.theta = s.p.theta
             /\ p.curve = IF s.f.file = NoName THEN s.p.curve
                          ELSE LoadCacheRefl(s, s.f.file)
             /\ p.coll = s.f.coll /\ p.flags = s.f.flags
             /\ p.guide = s.f.guide /\ p.size = s.f.size
             /\ p.focus = s.f.focus /\ p.curv = s.f.curv
             /\ p.vert = s.f.vert /\ p.offset = s.f.offset
             /\ p.tof = s.f.tof /\ p.sig = s.f.sig
  BY DEF ParamsOf, CnOf, PopEckOf, TofOf

\* They depend on the fields, the angles, the position and the curve only.
LEMMA ParamsSame ==
  ASSUME NEW s, NEW r, r.f = s.f, r.p.theta = s.p.theta, NEW x, NEW c
  PROVE  ParamsAt(r, x, c) = ParamsAt(s, x, c)
<1> DEFINE p == ParamsOf(s)
           q == ParamsOf(r)
<1>1. /\ q.coll = r.f.coll /\ q.flags = r.f.flags
      /\ q.theta = r.p.theta /\ q.guide = r.f.guide /\ q.size = r.f.size
      /\ q.focus = r.f.focus /\ q.curv = r.f.curv /\ q.vert = r.f.vert
      /\ q.offset = r.f.offset /\ q.tof = r.f.tof /\ q.sig = r.f.sig
  BY ParamsFacts
<1>2. /\ p.coll = s.f.coll /\ p.flags = s.f.flags
      /\ p.theta = s.p.theta /\ p.guide = s.f.guide /\ p.size = s.f.size
      /\ p.focus = s.f.focus /\ p.curv = s.f.curv /\ p.vert = s.f.vert
      /\ p.offset = s.f.offset /\ p.tof = s.f.tof /\ p.sig = s.f.sig
  BY ParamsFacts
<1>3. /\ p = [coll |-> p.coll, flags |-> p.flags, pos |-> p.pos,
              theta |-> p.theta, curve |-> p.curve, guide |-> p.guide,
              size |-> p.size, focus |-> p.focus, curv |-> p.curv,
              vert |-> p.vert, offset |-> p.offset, tof |-> p.tof,
              sig |-> p.sig]
      /\ q = [coll |-> q.coll, flags |-> q.flags, pos |-> q.pos,
              theta |-> q.theta, curve |-> q.curve, guide |-> q.guide,
              size |-> q.size, focus |-> q.focus, curv |-> q.curv,
              vert |-> q.vert, offset |-> q.offset, tof |-> q.tof,
              sig |-> q.sig]
  BY DEF ParamsOf
<1> HIDE DEF p, q
<1>4. /\ q.coll = p.coll /\ q.flags = p.flags
      /\ q.theta = p.theta /\ q.guide = p.guide /\ q.size = p.size
      /\ q.focus = p.focus /\ q.curv = p.curv /\ q.vert = p.vert
      /\ q.offset = p.offset /\ q.tof = p.tof /\ q.sig = p.sig
  BY <1>1, <1>2
<1>5. [q EXCEPT !.pos = x, !.curve = c] = [p EXCEPT !.pos = x, !.curve = c]
  BY <1>3, <1>4
<1> QED
  BY <1>5 DEF p, q, ParamsAt

\* A calculation has the parameters of the fields, and whatever is shown of
\* it is its result.
LEMMA CalcFacts ==
  ASSUME NEW s, DialogOK(s)
  PROVE  LET r == Calc(s)
         IN  /\ DialogOK(r) /\ DerivedInv(r) /\ WindowInv(r)
             /\ r.status # "none" /\ r.f = s.f /\ r.p = ParamsOf(s)
             /\ r.res = RunAlgo(s.f.algo, r.p)
             /\ r.closed = s.closed /\ r.tabs = s.tabs
             /\ s.f.file # NoName =>
                  r.p.curve = <<"bad">> \/ r.p.curve[2] = s.f.file
             /\ r.status = "ok" /\ r.fresh /\ s.f.live =>
                  r.mc.direct.ell = CalcEllipsoid4(r.res)
<1> DEFINE newCache == IF s.f.file = NoName \/ s.f.file \in DOMAIN s.cache
                          \/ FindCurve(s.f.file, s.dir) = <<"bad">>
                       THEN s.cache
                       ELSE [n \in DOMAIN s.cache \union {s.f.file} |->
                               LoadCacheRefl(s, n)]
           s0 == [s EXCEPT !.current = FALSE, !.p = ParamsOf(s),
                           !.cache = newCache]
           s1 == [s0 EXCEPT !.res = RunAlgo(s.f.algo, s0.p)]
           r == IF s1.res.ok THEN Succeed(s1) ELSE [s1 EXCEPT !.status = "error"]
<1>1. \A n : LoadCacheRefl(s, n) = <<"bad">> \/ LoadCacheRefl(s, n)[2] = n
  BY CurveNames DEF LoadCacheRefl, DialogOK
<1>2. \A n \in DOMAIN newCache : newCache[n] = <<"bad">> \/ newCache[n][2] = n
  <2>1. CASE newCache = s.cache
    BY <2>1 DEF DialogOK
  <2>2. CASE newCache = [n \in DOMAIN s.cache \union {s.f.file} |->
                           LoadCacheRefl(s, n)]
    <3> HIDE DEF newCache
    <3> QED
      BY <1>1, <2>2
  <2> QED
    BY <2>1, <2>2
<1>3. r = Calc(s)
  BY DEF Calc
<1> HIDE DEF newCache
<1>4. /\ DOMAIN s1 = DOMAIN s
      /\ s1 = [s EXCEPT !.current = FALSE, !.p = ParamsOf(s),
                        !.cache = newCache, !.res = RunAlgo(s.f.algo, ParamsOf(s))]
  BY DEF DialogOK
<1> HIDE DEF s0, s1
<1>5. /\ s1.f = s.f /\ s1.p = ParamsOf(s) /\ s1.cache = newCache
      /\ s1.current = FALSE /\ s1.closed = s.closed /\ s1.tabs = s.tabs
      /\ s1.res = RunAlgo(s.f.algo, s1.p)
      /\ s1.auto = s.auto /\ s1.fresh = s.fresh /\ s1.hasUB = s.hasUB
      /\ s1.d2 = s.d2 /\ s1.d3 = s.d3 /\ s1.status = s.status
  BY <1>4 DEF DialogOK
<1>6. DialogOK(s1)
  <2>1. {"pos", "theta", "curve"} \subseteq DOMAIN s1.p
    BY <1>5, ParamsFacts
  <2> QED
    BY <1>2, <1>4, <1>5, <2>1 DEF DialogOK
<1>7. s.f.file # NoName =>
        s1.p.curve = <<"bad">> \/ s1.p.curve[2] = s.f.file
  BY <1>1, <1>5, ParamsFacts
<1>8. s1.res.ok \in BOOLEAN
  BY <1>5, AlgoResults DEF DialogOK, FieldsOK
<1>9. CASE s1.res.ok
  <2>1. r = Succeed(s1)
    BY <1>9
  <2> HIDE DEF r
  <2>2. /\ DialogOK(r) /\ DerivedInv(r) /\ WindowInv(r)
        /\ r.status = "ok" /\ r.f = s1.f /\ r.p = s1.p /\ r.res = s1.res
        /\ r.closed = s1.closed /\ r.tabs = s1.tabs
        /\ r.fresh /\ s1.f.live => r.mc.direct.ell = CalcEllipsoid4(s1.res)
    BY <1>5, <1>6, <1>9, <2>1, Succeeded
  <2> QED
    BY <1>3, <1>5, <1>7, <2>2
<1>10. CASE ~s1.res.ok
  <2>1. r = [s1 EXCEPT !.status = "error"]
    BY <1>10
  <2> HIDE DEF r
  <2>2. DialogOK(r) /\ r.status = "error"
    BY <1>6, <2>1 DEF DialogOK
  <2>3. /\ r.f = s1.f /\ r.p = s1.p /\ r.res = s1.res /\ r.current = FALSE
        /\ r.closed = s1.closed /\ r.tabs = s1.tabs
    BY <1>5, <1>6, <2>1 DEF DialogOK
  <2>4. DerivedInv(r) /\ WindowInv(r)
    BY <1>10, <2>2, <2>3 DEF DerivedInv, WindowInv
  <2> QED
    BY <1>3, <1>5, <1>7, <2>2, <2>3, <2>4
<1> QED
  BY <1>9, <1>10

\* ... so that with a position whose triangle closes all is of the fields.
LEMMA CalcKeeps ==
  ASSUME NEW s, DialogOK(s), s.tabs = Pages(s.f.algo),
         s.closed => /\ s.p.pos = s.f.pos /\ s.f.pos # Open
                     /\ s.p.theta = [pos |-> s.f.pos, d |-> s.p.theta.d]
  PROVE  DialogInv(Calc(s))
<1> DEFINE r == Calc(s)
<1>1. /\ DialogOK(r) /\ DerivedInv(r) /\ WindowInv(r)
      /\ r.status # "none" /\ r.f = s.f /\ r.p = ParamsOf(s)
      /\ r.res = RunAlgo(s.f.algo, r.p)
      /\ r.closed = s.closed /\ r.tabs = s.tabs
      /\ s.f.file # NoName =>
           r.p.curve = <<"bad">> \/ r.p.curve[2] = s.f.file
      /\ r.status = "ok" /\ r.fresh /\ s.f.live =>
           r.mc.direct.ell = CalcEllipsoid4(r.res)
  BY CalcFacts
<1> HIDE DEF r
<1>2. ASSUME s.closed
      PROVE  r.p = ParamsAt(r, r.f.pos, r.p.curve)
  <2>1. ParamsAt(r, r.f.pos, r.p.curve)
          = ParamsAt(s, r.f.pos, r.p.curve)
    <3>1. r.f = s.f /\ r.p.theta = s.p.theta
      BY <1>1, ParamsFacts
    <3> QED
      BY <3>1, ParamsSame
  <2>2. r.p.pos = r.f.pos
    BY <1>1, <1>2, ParamsFacts
  <2>3. ParamsOf(s) = ParamsAt(s, ParamsOf(s).pos, ParamsOf(s).curve)
    BY DEF ParamsOf, ParamsAt
  <2> QED
    BY <1>1, <2>1, <2>2, <2>3
<1>3. CalcInv(r)
  BY <1>1, <1>2, ParamsFacts DEF CalcInv
<1>4. DialogInv(r)
  BY <1>1, <1>3 DEF DialogInv
<1> QED
  BY <1>4 DEF r

-----------------------------------------------------------------------------
\* The handlers keep the invariant of the dialog's state.

\* A position is taken over, and all is calculated anew, if its triangle
\* closes; otherwise what was derived before stays.
LEMMA RefreshKeeps ==
  ASSUME NEW s, DialogOK(s), s.tabs = Pages(s.f.algo),
         DerivedInv(s), WindowInv(s)
  PROVE  DialogInv(RefreshQEPos(s))
<1>1. CASE s.f.pos = Open
  <2> DEFINE r == [s EXCEPT !.closed = FALSE]
  <2>1. /\ DOMAIN r = DOMAIN s /\ r.closed = FALSE
        /\ \A x \in DOMAIN s \ {"closed"} : r[x] = s[x]
    BY DEF DialogOK
  <2>2. r = RefreshQEPos(s)
    BY <1>1 DEF RefreshQEPos
  <2> HIDE DEF r
  <2>3. /\ r.f = s.f /\ r.p = s.p /\ r.res = s.res /\ r.status = s.status
        /\ r.text = s.text /\ r.auto = s.auto /\ r.ell = s.ell
        /\ r.current = s.current /\ r.fresh = s.fresh /\ r.hasUB = s.hasUB
        /\ r.hkl = s.hkl /\ r.orient = s.orient /\ r.mc = s.mc
        /\ r.cache = s.cache /\ r.tabs = s.tabs /\ r.d2 = s.d2 /\ r.d3 = s.d3
    BY <2>1 DEF DialogOK
  <2>4. DialogOK(r)
    <3>1. /\ DOMAIN r = {"f", "p", "res", "status", "text", "closed", "auto",
                         "ell", "current", "fresh", "hasUB", "ub", "angle",
                         "main", "hkl", "orient", "mc", "file", "cache", "dir",
                         "tabs", "d2", "d3"}
          /\ {"pos", "theta", "curve"} \subseteq DOMAIN r.p
      BY <2>1, <2>3 DEF DialogOK
    <3>2. /\ FieldsOK(r.f) /\ r.status \in {"none", "ok", "error"}
          /\ {r.closed, r.auto, r.current, r.fresh, r.hasUB} \subseteq BOOLEAN
      BY <2>1, <2>3 DEF DialogOK
    <3>3. \A w \in {"d2", "d3"} :
            /\ DOMAIN r[w] = DOMAIN NoWindow
            /\ r[w].coord \in {"angs", "rlu", "orient"} /\ r[w].open \in BOOLEAN
      <4>1. \A w \in {"d2", "d3"} : r[w] = s[w]
        BY <2>3
      <4> QED
        BY <4>1 DEF DialogOK
    <3>4. \A n \in DOMAIN r.cache : r.cache[n] = <<"bad">> \/ r.cache[n][2] = n
      BY <2>3 DEF DialogOK
    <3> QED
      BY <3>1, <3>2, <3>3, <3>4 DEF DialogOK
  <2>5. CalcInv(r)
    BY <2>1 DEF CalcInv
  <2>6. DerivedInv(r)
    BY <2>3 DEF DerivedInv
  <2>7. WindowInv(r)
    BY <2>3 DEF WindowInv, Matrices
  <2>8. DialogInv(r)
    BY <2>3, <2>4, <2>5, <2>6, <2>7 DEF DialogInv
  <2> QED
    BY <2>2, <2>8
<1>2. CASE s.f.pos # Open
  <2> DEFINE r == [s EXCEPT !.p.pos = s.f.pos,
                            !.p.theta = [pos |-> s.f.pos, d |-> s.f.d],
                            !.closed = TRUE]
  <2>1. /\ DOMAIN r = DOMAIN s /\ r.closed = TRUE
        /\ \A x \in DOMAIN s \ {"closed", "p"} : r[x] = s[x]
        /\ DOMAIN r.p = DOMAIN s.p /\ r.p.pos = s.f.pos
        /\ r.p.theta = [pos |-> s.f.pos, d |-> s.f.d]
    BY DEF DialogOK
  <2>2. Calc(r) = RefreshQEPos(s)
    BY <1>2 DEF RefreshQEPos
  <2> HIDE DEF r
  <2>3. /\ r.f = s.f /\ r.auto = s.auto /\ r.current = s.current
        /\ r.fresh = s.fresh /\ r.hasUB = s.hasUB /\ r.status = s.status
        /\ r.cache = s.cache /\ r.tabs = s.tabs /\ r.d2 = s.d2 /\ r.d3 = s.d3
    BY <2>1 DEF DialogOK
  <2>4. DialogOK(r)
    <3>1. /\ DOMAIN r = {"f", "p", "res", "status", "text", "closed", "auto",
                         "ell", "current", "fresh", "hasUB", "ub", "angle",
                         "main", "hkl", "orient", "mc", "file", "cache", "dir",
                         "tabs", "d2", "d3"}
          /\ {"pos", "theta", "curve"} \subseteq DOMAIN r.p
      BY <2>1 DEF DialogOK
    <3>2. /\ FieldsOK(r.f) /\ r.status \in {"none", "ok", "error"}
          /\ {r.closed, r.auto, r.current, r.fresh, r.hasUB} \subseteq BOOLEAN
      BY <2>1, <2>3 DEF DialogOK
    <3>3. \A w \in {"d2", "d3"} :
            /\ DOMAIN r[w] = DOMAIN NoWindow
            /\ r[w].coord \in {"angs", "rlu", "orient"} /\ r[w].open \in BOOLEAN
      <4>1. \A w \in {"d2", "d3"} : r[w] = s[w]
        BY <2>3
      <4> QED
        BY <4>1 DEF DialogOK
    <3>4. \A n \in DOMAIN r.cache : r.cache[n] = <<"bad">> \/ r.cache[n][2] = n
      BY <2>3 DEF DialogOK
    <3> QED
      BY <3>1, <3>2, <3>3, <3>4 DEF DialogOK
  <2>5. r.p.theta = [pos |-> r.f.pos, d |-> r.p.theta.d]
    BY <2>1, <2>3
  <2>6. DialogInv(Calc(r))
    BY <1>2, <2>1, <2>3, <2>4, <2>5, CalcKeeps
  <2> QED
    BY <2>2, <2>6
<1> QED
  BY <1>1, <1>2

\* A calculation with other fields, at the same position.
LEMMA FieldsKeep ==
  ASSUME NEW s, DialogInv(s), NEW r, DOMAIN r = DOMAIN s,
         \A x \in DOMAIN s \ {"f", "main", "tabs"} : r[x] = s[x],
         FieldsOK(r.f), r.f.pos = s.f.pos, r.tabs = Pages(r.f.algo)
  PROVE  DialogInv(Calc(r))
<1>1. /\ r.p = s.p /\ r.auto = s.auto /\ r.current = s.current
      /\ r.fresh = s.fresh /\ r.hasUB = s.hasUB /\ r.status = s.status
      /\ r.cache = s.cache /\ r.d2 = s.d2 /\ r.d3 = s.d3
      /\ r.closed = s.closed
  BY DEF DialogInv, DialogOK
<1>2. DialogOK(r)
  BY <1>1 DEF DialogInv, DialogOK
<1>3. r.closed => /\ r.p.pos = r.f.pos /\ r.f.pos # Open
                  /\ r.p.theta = [pos |-> r.f.pos, d |-> r.p.theta.d]
  <2> SUFFICES ASSUME s.closed
               PROVE  /\ r.p.pos = r.f.pos /\ r.f.pos # Open
                      /\ r.p.theta = [pos |-> r.f.pos, d |-> r.p.theta.d]
    BY <1>1
  <2>1. /\ s.p = ParamsAt(s, s.f.pos, s.p.curve)
        /\ s.f.pos # Open /\ s.p.theta = [pos |-> s.f.pos, d |-> s.p.theta.d]
    BY DEF DialogInv, CalcInv
  <2>2. s.p.pos = s.f.pos
    BY <2>1, ParamsFacts DEF ParamsAt
  <2> QED
    BY <1>1, <2>1, <2>2
<1> QED
  BY <1>2, <1>3, CalcKeeps

\* The main window's position: first Q and E, then the angles.
LEMMA MoveKeeps ==
  ASSUME NEW s, DialogOK(s), s.tabs = Pages(s.f.algo), NEW q \in Places4
  PROVE  DialogInv(RealParamsChanged(RecipParamsChanged(s, q), q))
<1> DEFINE r == [s EXCEPT !.p.pos = q, !.f.pos = q, !.closed = TRUE,
                          !.angle = IF s.hasUB THEN q ELSE @]
           t == Calc(r)
           u == [t EXCEPT !.p.theta = [pos |-> q, d |-> t.main]]
<1>1. /\ DOMAIN r = DOMAIN s /\ r.closed = TRUE
      /\ \A x \in DOMAIN s \ {"closed", "p", "f", "angle"} : r[x] = s[x]
      /\ DOMAIN r.p = DOMAIN s.p /\ r.p.pos = q
      /\ DOMAIN r.f = DOMAIN s.f /\ r.f.pos = q
      /\ r.f.focus = s.f.focus /\ r.f.algo = s.f.algo /\ r.f.live = s.f.live
  BY DEF DialogOK, FieldsOK, FieldNames
<1>2. t = RecipParamsChanged(s, q) /\ Calc(u) = RealParamsChanged(t, q)
  BY DEF RecipParamsChanged, RealParamsChanged
<1> HIDE DEF r
<1>3. /\ r.auto = s.auto /\ r.current = s.current
      /\ r.fresh = s.fresh /\ r.hasUB = s.hasUB /\ r.status = s.status
      /\ r.cache = s.cache /\ r.tabs = s.tabs /\ r.d2 = s.d2 /\ r.d3 = s.d3
  BY <1>1 DEF DialogOK
<1>4. DialogOK(r)
  <2>1. FieldsOK(s.f)
    BY DEF DialogOK
  <2>2. FieldsOK(r.f)
    BY <1>1, <2>1 DEF FieldsOK
  <2> QED
    <3>1. {"pos", "theta", "curve"} \subseteq DOMAIN r.p /\ DOMAIN r = DOMAIN s
      BY <1>1 DEF DialogOK
    <3>2. r.closed = TRUE
      BY <1>1
    <3> QED
      BY <1>3, <2>2, <3>1, <3>2 DEF DialogOK
<1>5. /\ DialogOK(t) /\ t.f = r.f /\ t.p = ParamsOf(r)
      /\ t.closed = r.closed /\ t.tabs = r.tabs
  BY <1>4, CalcFacts
<1>6. t.p.pos = q
  BY <1>1, <1>5, ParamsFacts
<1> HIDE DEF t
<1>7. /\ DOMAIN u = DOMAIN t
      /\ \A x \in DOMAIN t \ {"p"} : u[x] = t[x]
      /\ DOMAIN u.p = DOMAIN t.p /\ u.p.pos = q
      /\ u.p.theta = [pos |-> q, d |-> t.main]
  BY <1>5, <1>6 DEF DialogOK
<1> HIDE DEF u
<1>8. /\ u.f = t.f /\ u.auto = t.auto /\ u.current = t.current
      /\ u.fresh = t.fresh /\ u.hasUB = t.hasUB /\ u.status = t.status
      /\ u.cache = t.cache /\ u.tabs = t.tabs /\ u.d2 = t.d2 /\ u.d3 = t.d3
      /\ u.closed = t.closed
  BY <1>5, <1>7 DEF DialogOK
<1>9. DialogOK(u)
  BY <1>5, <1>7, <1>8 DEF DialogOK
<1>10. q # Open
  BY ResoAssumption
<1>11. u.p.theta = [pos |-> u.f.pos, d |-> u.p.theta.d]
  BY <1>1, <1>5, <1>7, <1>8
<1>12. u.p.pos = u.f.pos /\ u.f.pos # Open /\ u.tabs = Pages(u.f.algo)
  BY <1>1, <1>3, <1>5, <1>7, <1>8, <1>10
<1>13. DialogInv(Calc(u))
  BY <1>9, <1>11, <1>12, CalcKeeps
<1> QED
  BY <1>2, <1>13

\* What is not calculated changes nothing of the result.
LEMMA OthersKeep ==
  ASSUME NEW s, DialogInv(s), NEW r, DOMAIN r = DOMAIN s,
         \A x \in DOMAIN s \ {"hasUB", "ub", "auto", "ell", "file", "dir",
                              "d2", "d3"} : r[x] = s[x],
         r.current => r.ell = CalcEllipsoid4(r.res),
         DialogOK(r), WindowInv(r)
  PROVE  DialogInv(r)
<1>1. /\ r.f = s.f /\ r.p = s.p /\ r.res = s.res /\ r.status = s.status
      /\ r.text = s.text /\ r.closed = s.closed /\ r.current = s.current
      /\ r.fresh = s.fresh /\ r.hkl = s.hkl /\ r.mc = s.mc /\ r.tabs = s.tabs
  BY DEF DialogInv, DialogOK
<1>2. CalcInv(r)
  <2>1. ParamsAt(r, s.f.pos, s.p.curve)
          = ParamsAt(s, s.f.pos, s.p.curve)
    BY <1>1, ParamsSame
  <2> QED
    BY <1>1, <2>1 DEF DialogInv, CalcInv
<1>3. DerivedInv(r)
  BY <1>1 DEF DialogInv, DerivedInv
<1> QED
  BY <1>1, <1>2, <1>3 DEF DialogInv

\* ... nor of the windows, if these stay as they are.
LEMMA WindowsStay ==
  ASSUME NEW s, NEW r, DialogInv(s), r.status = s.status, r.res = s.res,
         r.hkl = s.hkl, r.orient = s.orient, r.mc = s.mc, r.d2 = s.d2, r.d3 = s.d3
  PROVE  WindowInv(r)
<1>1. Matrices(r) = Matrices(s)
  BY DEF Matrices
<1> QED
  BY <1>1 DEF DialogInv, WindowInv

\* The handlers of the fields.
LEMMA FieldStepKeeps ==
  ASSUME DialogInv(rd), FieldStep
  PROVE  DialogInv(rd')
<1>0. DialogOK(rd) /\ FieldsOK(rd.f) /\ rd.tabs = Pages(rd.f.algo)
  BY DEF DialogInv, DialogOK
<1>1. ASSUME NEW g \in FieldNames \ {"pos", "algo"}, NEW v, Edit(g, v),
             g = "focus" => v \in 0 .. 2, g = "live" => v \in BOOLEAN
      PROVE  DialogInv(rd')
  <2> DEFINE r == [rd EXCEPT !.f[g] = v]
  <2>1. /\ DOMAIN r = DOMAIN rd /\ \A x \in DOMAIN rd \ {"f"} : r[x] = rd[x]
        /\ r.f = [rd.f EXCEPT ![g] = v]
    BY <1>0 DEF DialogOK
  <2>2. rd' = Calc(r)
    BY <1>1 DEF Edit
  <2> HIDE DEF r
  <2>3. FieldsOK(r.f) /\ r.f.pos = rd.f.pos /\ r.f.algo = rd.f.algo
    BY <1>0, <1>1, <2>1 DEF FieldsOK, FieldNames
  <2>4. r.tabs = rd.tabs
    BY <1>0, <2>1 DEF DialogOK
  <2> QED
    BY <1>0, <2>1, <2>2, <2>3, <2>4, FieldsKeep
<1>2. ASSUME NEW q, EditPos(q)
      PROVE  DialogInv(rd')
  <2> DEFINE r == [rd EXCEPT !.f.pos = q]
  <2>1. /\ DOMAIN r = DOMAIN rd /\ \A x \in DOMAIN rd \ {"f"} : r[x] = rd[x]
        /\ r.f = [rd.f EXCEPT !.pos = q]
    BY <1>0 DEF DialogOK
  <2>2. rd' = RefreshQEPos(r)
    BY <1>2 DEF EditPos
  <2> HIDE DEF r
  <2>3. FieldsOK(r.f) /\ r.f.algo = rd.f.algo
    BY <1>0, <2>1 DEF FieldsOK, FieldNames
  <2>4. /\ r.p = rd.p /\ r.res = rd.res /\ r.status = rd.status
        /\ r.text = rd.text /\ r.auto = rd.auto /\ r.ell = rd.ell
        /\ r.current = rd.current /\ r.fresh = rd.fresh /\ r.hasUB = rd.hasUB
        /\ r.hkl = rd.hkl /\ r.orient = rd.orient /\ r.mc = rd.mc
        /\ r.cache = rd.cache /\ r.tabs = rd.tabs /\ r.d2 = rd.d2
        /\ r.d3 = rd.d3 /\ r.closed = rd.closed
    BY <1>0, <2>1 DEF DialogOK
  <2>5. DialogOK(r)
    BY <1>0, <2>1, <2>3, <2>4 DEF DialogOK
  <2>6. DerivedInv(r)
    BY <2>4 DEF DialogInv, DerivedInv
  <2>7. WindowInv(r)
    BY <2>4, WindowsStay
  <2> QED
    BY <1>0, <2>2, <2>3, <2>4, <2>5, <2>6, <2>7, RefreshKeeps
<1>3. ASSUME NEW a \in Algos, SelectAlgo(a)
      PROVE  DialogInv(rd')
  <2> DEFINE r == AlgoChanged([rd EXCEPT !.f.algo = a])
  <2>1. /\ DOMAIN r = DOMAIN rd
        /\ \A x \in DOMAIN rd \ {"f", "tabs"} : r[x] = rd[x]
        /\ r.f = [rd.f EXCEPT !.algo = a] /\ r.tabs = Pages(r.f.algo)
    BY <1>0 DEF DialogOK, AlgoChanged
  <2>2. rd' = Calc(r)
    BY <1>3 DEF SelectAlgo
  <2> HIDE DEF r
  <2>3. FieldsOK(r.f) /\ r.f.pos = rd.f.pos
    BY <1>0, <2>1 DEF FieldsOK, FieldNames
  <2> QED
    BY <2>1, <2>2, <2>3, FieldsKeep
<1>4. ASSUME NEW e \in Edits
      PROVE  /\ e[1] \in FieldNames \ {"pos", "algo"}
             /\ e[1] = "focus" => e[2] \in 0 .. 2
             /\ e[1] # "live"
  BY ResoAssumption
<1>5. CASE \E e \in Edits : Edit(e[1], e[2])
  BY <1>1, <1>4, <1>5
<1>6. CASE \E q \in Places4 \union {Open} : EditPos(q)
  BY <1>2, <1>6
<1>7. CASE \E a \in Algos : SelectAlgo(a)
  BY <1>3, <1>7
<1>8. CASE \E name \in {c[2] : c \in ReflCurves} \union {NoName, "none"} :
             Edit("file", name)
  BY <1>1, <1>8 DEF FieldNames
<1>9. CASE \E on \in BOOLEAN : Edit("live", on)
  BY <1>1, <1>9 DEF FieldNames
<1> QED
  BY <1>5, <1>6, <1>7, <1>8, <1>9 DEF FieldStep

\* What the main window tells.
LEMMA MainStepKeeps ==
  ASSUME DialogInv(rd), MainStep
  PROVE  DialogInv(rd')
<1>0. DialogOK(rd) /\ FieldsOK(rd.f) /\ rd.tabs = Pages(rd.f.algo)
  BY DEF DialogInv, DialogOK
<1>1. ASSUME NEW d, ResoParamsChanged(d)
      PROVE  DialogInv(rd')
  <2> DEFINE r == [rd EXCEPT !.f.d = d, !.main = d]
  <2>1. /\ DOMAIN r = DOMAIN rd
        /\ \A x \in DOMAIN rd \ {"f", "main"} : r[x] = rd[x]
        /\ r.f = [rd.f EXCEPT !.d = d]
    BY <1>0 DEF DialogOK
  <2>2. rd' = Calc(r)
    BY <1>1 DEF ResoParamsChanged
  <2> HIDE DEF r
  <2>3. FieldsOK(r.f) /\ r.f.pos = rd.f.pos /\ r.f.algo = rd.f.algo
    BY <1>0, <2>1 DEF FieldsOK, FieldNames
  <2>4. r.tabs = rd.tabs
    BY <1>0, <2>1 DEF DialogOK
  <2> QED
    BY <1>0, <2>1, <2>2, <2>3, <2>4, FieldsKeep
<1>2. ASSUME NEW q \in Places4, Move(q)
      PROVE  DialogInv(rd')
  BY <1>0, <1>2, MoveKeeps DEF Move
<1>3. ASSUME NEW u, SampleParamsChanged(u)
      PROVE  DialogInv(rd')
  <2>1. /\ DOMAIN rd' = DOMAIN rd /\ rd'.hasUB \in BOOLEAN
        /\ \A x \in DOMAIN rd \ {"hasUB", "ub"} : rd'[x] = rd[x]
    BY <1>0, <1>3 DEF DialogOK, SampleParamsChanged
  <2>2. /\ rd'.f = rd.f /\ rd'.p = rd.p /\ rd'.status = rd.status
        /\ rd'.closed = rd.closed /\ rd'.auto = rd.auto
        /\ rd'.current = rd.current /\ rd'.fresh = rd.fresh
        /\ rd'.cache = rd.cache /\ rd'.d2 = rd.d2 /\ rd'.d3 = rd.d3
        /\ rd'.res = rd.res /\ rd'.hkl = rd.hkl /\ rd'.orient = rd.orient
        /\ rd'.mc = rd.mc /\ rd'.ell = rd.ell
    BY <1>0, <2>1 DEF DialogOK
  <2>3. DialogOK(rd')
    BY <1>0, <2>1, <2>2 DEF DialogOK
  <2>4. WindowInv(rd')
    BY <2>2, WindowsStay
  <2>5. rd'.current => rd'.ell = CalcEllipsoid4(rd'.res)
    BY <2>2 DEF DialogInv, DerivedInv
  <2> QED
    BY <2>1, <2>3, <2>4, <2>5, OthersKeep
<1> QED
  BY <1>1, <1>2, <1>3 DEF MainStep

\* The ellipsoid and the neutrons.
LEMMA ButtonStepKeeps ==
  ASSUME DialogInv(rd), ButtonStep
  PROVE  DialogInv(rd')
<1>0. DialogOK(rd)
  BY DEF DialogInv
<1>1. /\ DOMAIN rd' = DOMAIN rd /\ rd'.auto \in BOOLEAN
      /\ \A x \in DOMAIN rd \ {"auto", "ell", "file"} : rd'[x] = rd[x]
      /\ rd'.ell = rd.ell \/ rd'.ell = CalcEllipsoid4(rd.res)
  <2>1. CASE ToggleAuto
    <3> DEFINE s == [rd EXCEPT !.auto = ~@]
    <3>1. /\ DOMAIN s = DOMAIN rd /\ s.auto \in BOOLEAN
          /\ \A x \in DOMAIN rd \ {"auto"} : s[x] = rd[x]
          /\ s.ell = rd.ell /\ s.res = rd.res
      BY <1>0 DEF DialogOK
    <3>2. rd' = s \/ rd' = CalcElli4d(s)
      BY <2>1 DEF ToggleAuto
    <3> HIDE DEF s
    <3> QED
      BY <1>0, <3>1, <3>2 DEF DialogOK, CalcElli4d
  <2>2. CASE MCGenerate
    <3> DEFINE s == IF rd.current THEN rd ELSE CalcElli4d(rd)
    <3>1. /\ DOMAIN s = DOMAIN rd
          /\ \A x \in DOMAIN rd \ {"ell"} : s[x] = rd[x]
          /\ s.ell = rd.ell \/ s.ell = CalcEllipsoid4(rd.res)
      BY <1>0 DEF DialogOK, CalcElli4d
    <3>2. rd' = [s EXCEPT !.file = McNeutrons(s.ell, "rlu",
                                      [angle |-> s.angle, ub |-> s.ub])]
      BY <2>2 DEF MCGenerate
    <3> HIDE DEF s
    <3>3. rd.auto \in BOOLEAN
      BY <1>0 DEF DialogOK
    <3> QED
      BY <1>0, <3>1, <3>2, <3>3 DEF DialogOK
  <2> QED
    BY <2>1, <2>2 DEF ButtonStep
<1>2. /\ rd'.f = rd.f /\ rd'.p = rd.p /\ rd'.status = rd.status
      /\ rd'.closed = rd.closed /\ rd'.hasUB = rd.hasUB
      /\ rd'.current = rd.current /\ rd'.fresh = rd.fresh
      /\ rd'.cache = rd.cache /\ rd'.d2 = rd.d2 /\ rd'.d3 = rd.d3
      /\ rd'.res = rd.res /\ rd'.hkl = rd.hkl /\ rd'.orient = rd.orient
      /\ rd'.mc = rd.mc
  BY <1>0, <1>1 DEF DialogOK
<1>3. DialogOK(rd')
  BY <1>0, <1>1, <1>2 DEF DialogOK
<1>4. WindowInv(rd')
  BY <1>2, WindowsStay
<1>5. rd'.current => rd'.ell = CalcEllipsoid4(rd'.res)
  BY <1>1, <1>2 DEF DialogInv, DerivedInv
<1> QED
  BY <1>1, <1>3, <1>4, <1>5, OthersKeep

\* A window is changed to r[w], which draws what it has been given.
LEMMA WindowKeeps ==
  ASSUME DialogInv(rd), NEW w \in {"d2", "d3"}, NEW r, DOMAIN r = DOMAIN rd,
         \A x \in DOMAIN rd \ {w} : r[x] = rd[x],
         rd[w].open, r[w].open = rd[w].open, DOMAIN r[w] = DOMAIN NoWindow,
         r[w].coord \in {"angs", "rlu", "orient"}, r[w].mats = rd[w].mats,
         r[w].drawn.mat = r[w].mats[r[w].coord],
         r[w].drawn.coord = r[w].coord,
         r[w].drawn.mc # <<>> => r[w].drawn.mc \in {r.mc.direct, r.mc.hkl}
  PROVE  DialogInv(r)
<1>0. DialogOK(rd) /\ WindowInv(rd)
  BY DEF DialogInv
<1>1. /\ r.f = rd.f /\ r.p = rd.p /\ r.status = rd.status
      /\ r.closed = rd.closed /\ r.hasUB = rd.hasUB /\ r.auto = rd.auto
      /\ r.current = rd.current /\ r.fresh = rd.fresh
      /\ r.cache = rd.cache /\ r.res = rd.res /\ r.hkl = rd.hkl
      /\ r.orient = rd.orient /\ r.mc = rd.mc /\ r.ell = rd.ell
  BY <1>0 DEF DialogOK
<1>2. \A v \in {"d2", "d3"} : v # w => r[v] = rd[v]
  BY <1>0 DEF DialogOK
<1>3. rd[w].open \in BOOLEAN
  BY <1>0 DEF DialogOK
<1>4. DialogOK(r)
  <2>1. \A v \in {"d2", "d3"} :
          /\ DOMAIN r[v] = DOMAIN NoWindow
          /\ r[v].coord \in {"angs", "rlu", "orient"} /\ r[v].open \in BOOLEAN
    <3> TAKE v \in {"d2", "d3"}
    <3>1. CASE v = w
      BY <1>3, <3>1
    <3>2. CASE v # w
      BY <1>0, <1>2, <3>2 DEF DialogOK
    <3> QED
      BY <3>1, <3>2
  <2> QED
    BY <1>0, <1>1, <2>1 DEF DialogOK
<1>5. Matrices(r) = Matrices(rd)
  BY <1>1 DEF Matrices
<1>6. WindowInv(r)
  <2> SUFFICES ASSUME r.status = "ok", NEW v \in {"d2", "d3"}, r[v].open
               PROVE  /\ r[v].mats = Matrices(r)
                      /\ r[v].drawn.mat = Matrices(r)[r[v].coord]
                      /\ r[v].drawn.coord = r[v].coord
                      /\ r[v].drawn.mc # <<>> =>
                           r[v].drawn.mc \in {r.mc.direct, r.mc.hkl}
    BY DEF WindowInv
  <2>1. CASE v = w
    <3>1. rd[w].mats = Matrices(rd)
      BY <1>0, <1>1 DEF WindowInv
    <3> QED
      BY <1>5, <2>1, <3>1
  <2>2. CASE v # w
    BY <1>0, <1>1, <1>2, <1>5, <2>2 DEF WindowInv
  <2> QED
    BY <2>1, <2>2
<1>7. r.current => r.ell = CalcEllipsoid4(r.res)
  BY <1>1 DEF DialogInv, DerivedInv
<1>8. \A x \in DOMAIN rd \ {"hasUB", "ub", "auto", "ell", "file", "dir",
                          "d2", "d3"} : r[x] = rd[x]
  OBVIOUS
<1> QED
  BY <1>4, <1>6, <1>7, <1>8, OthersKeep

\* The windows are opened and changed.
LEMMA WindowStepKeeps ==
  ASSUME DialogInv(rd), WindowStep
  PROVE  DialogInv(rd')
<1>0. DialogOK(rd)
  BY DEF DialogInv
<1>1. ASSUME NEW w \in {"d2", "d3"}, OpenWindow(w)
      PROVE  DialogInv(rd')
  <2> DEFINE s == [rd EXCEPT ![w].open = TRUE]
  <2>1. /\ DOMAIN s = DOMAIN rd
        /\ \A x \in DOMAIN rd \ {"d2", "d3"} : s[x] = rd[x]
        /\ \A v \in {"d2", "d3"} :
             /\ DOMAIN s[v] = DOMAIN NoWindow
             /\ s[v].coord = rd[v].coord /\ s[v].open \in BOOLEAN
    BY <1>0 DEF DialogOK, NoWindow
  <2>2. rd' = EmitResults(s)
    BY <1>1 DEF OpenWindow
  <2> HIDE DEF s
  <2>3. /\ s.f = rd.f /\ s.p = rd.p /\ s.status = rd.status
        /\ s.closed = rd.closed /\ s.hasUB = rd.hasUB /\ s.auto = rd.auto
        /\ s.current = rd.current /\ s.fresh = rd.fresh
        /\ s.cache = rd.cache
    BY <1>0, <2>1 DEF DialogOK
  <2>4. DialogOK(s)
    BY <1>0, <2>1, <2>3 DEF DialogOK
  <2>5. /\ rd' = [s EXCEPT !.d2 = rd'.d2, !.d3 = rd'.d3]
        /\ DialogOK(rd') /\ WindowInv(rd')
    BY <2>2, <2>4, Emitted
  <2>6. /\ DOMAIN rd' = DOMAIN rd
        /\ \A x \in DOMAIN rd \ {"d2", "d3"} : rd'[x] = rd[x]
    BY <2>1, <2>5
  <2>7. rd'.current => rd'.ell = CalcEllipsoid4(rd'.res)
    <3>1. rd'.current = rd.current /\ rd'.ell = rd.ell /\ rd'.res = rd.res
      BY <1>0, <2>6 DEF DialogOK
    <3> QED
      BY <3>1 DEF DialogInv, DerivedInv
  <2> QED
    BY <2>5, <2>6, <2>7, OthersKeep
<1>2. ASSUME NEW w \in {"d2", "d3"}, NEW c \in {"angs", "rlu", "orient"},
             SetCoord(w, c)
      PROVE  DialogInv(rd')
  <2> DEFINE x == [rd[w] EXCEPT !.coord = c]
             d == IF w = "d2" THEN Draw2D(x, rd.mc) ELSE Draw3D(x)
  <2>1. rd[w].open /\ rd' = [rd EXCEPT ![w] = d]
    BY <1>2 DEF SetCoord
  <2>2. /\ DOMAIN x = DOMAIN NoWindow /\ x.coord = c /\ x.open = rd[w].open
        /\ x.mats = rd[w].mats
    BY <1>0 DEF DialogOK, NoWindow
  <2> HIDE DEF x
  <2>3. /\ DOMAIN d = DOMAIN NoWindow /\ d.coord = c /\ d.open = rd[w].open
        /\ d.mats = rd[w].mats /\ d.drawn.mat = d.mats[c] /\ d.drawn.coord = c
        /\ d.drawn.mc # <<>> => d.drawn.mc \in {rd.mc.direct, rd.mc.hkl}
    BY <2>2 DEF Draw2D, Draw3D, NoWindow
  <2> HIDE DEF d
  <2>4. /\ DOMAIN rd' = DOMAIN rd /\ rd'[w] = d /\ rd'.mc = rd.mc
        /\ \A y \in DOMAIN rd \ {w} : rd'[y] = rd[y]
    BY <1>0, <2>1 DEF DialogOK
  <2>5. /\ rd'[w].open = rd[w].open /\ DOMAIN rd'[w] = DOMAIN NoWindow
        /\ rd'[w].coord \in {"angs", "rlu", "orient"}
        /\ rd'[w].mats = rd[w].mats
        /\ rd'[w].drawn.mat = rd'[w].mats[rd'[w].coord]
        /\ rd'[w].drawn.coord = rd'[w].coord
        /\ rd'[w].drawn.mc # <<>> =>
             rd'[w].drawn.mc \in {rd'.mc.direct, rd'.mc.hkl}
    BY <2>3, <2>4
  <2> HIDE DEF d
  <2> QED
    BY <2>1, <2>4, <2>5, WindowKeeps
<1>3. ASSUME SetCenterOn0
      PROVE  DialogInv(rd')
  <2> DEFINE x == [rd.d2 EXCEPT !.centre = ~@]
             d == Draw2D(x, rd.mc)
  <2>1. rd.d2.open /\ rd' = [rd EXCEPT !.d2 = d]
    BY <1>3 DEF SetCenterOn0
  <2>2. /\ DOMAIN x = DOMAIN NoWindow /\ x.coord = rd.d2.coord
        /\ x.open = rd.d2.open /\ x.mats = rd.d2.mats
        /\ rd.d2.coord \in {"angs", "rlu", "orient"}
    BY <1>0 DEF DialogOK, NoWindow
  <2> HIDE DEF x
  <2>3. /\ DOMAIN d = DOMAIN NoWindow /\ d.coord = x.coord
        /\ d.open = rd.d2.open /\ d.mats = rd.d2.mats
        /\ d.drawn.mat = d.mats[x.coord] /\ d.drawn.coord = x.coord
        /\ d.drawn.mc # <<>> => d.drawn.mc \in {rd.mc.direct, rd.mc.hkl}
    BY <2>2 DEF Draw2D, NoWindow
  <2> HIDE DEF d
  <2>4. /\ DOMAIN rd' = DOMAIN rd /\ rd'["d2"] = d /\ rd'.mc = rd.mc
        /\ \A y \in DOMAIN rd \ {"d2"} : rd'[y] = rd[y]
    BY <1>0, <2>1 DEF DialogOK
  <2> QED
    BY <2>1, <2>2, <2>3, <2>4, WindowKeeps
<1> QED
  BY <1>1, <1>2, <1>3 DEF WindowStep

\* The constructor.
LEMMA NewDialogKeeps ==
  ASSUME NEW f, FieldsOK(f)
  PROVE  DialogInv(NewDialog(f)) /\ NewDialog(f).f = f
<1> DEFINE s == AlgoChanged(
    [f |-> f,
     p |-> [pos |-> Open, theta |-> [pos |-> Open, d |-> 0], curve |-> <<>>],
     res |-> Failed, status |-> "none", text |-> NoReso, closed |-> FALSE,
     auto |-> TRUE, ell |-> NoReso, current |-> FALSE, fresh |-> FALSE,
     hasUB |-> FALSE, ub |-> 0, angle |-> Open, main |-> Start0.d,
     hkl |-> NoReso, orient |-> NoReso,
     mc |-> [direct |-> <<>>, hkl |-> <<>>], file |-> <<>>,
     cache |-> <<>>, dir |-> StartHere, tabs |-> {},
     d2 |-> NoWindow, d3 |-> NoWindow])
<1>1. NewDialog(f) = RefreshQEPos(s)
  BY DEF NewDialog
<1>2. /\ DOMAIN s = {"f", "p", "res", "status", "text", "closed", "auto", "ell",
                    "current", "fresh", "hasUB", "ub", "angle", "main", "hkl",
                    "orient", "mc", "file", "cache", "dir", "tabs", "d2", "d3"}
      /\ s.f = f /\ s.tabs = Pages(f.algo) /\ s.status = "none"
      /\ DOMAIN s.p = {"pos", "theta", "curve"}
      /\ s.closed = FALSE /\ s.auto = TRUE /\ s.current = FALSE
      /\ s.fresh = FALSE /\ s.hasUB = FALSE /\ s.cache = <<>>
      /\ s.d2 = NoWindow /\ s.d3 = NoWindow
  BY DEF AlgoChanged
<1> HIDE DEF s
<1>3. DialogOK(s)
  <2>1. /\ NoWindow.coord \in {"angs", "rlu", "orient"}
        /\ NoWindow.open \in BOOLEAN
    BY DEF NoWindow
  <2>2. DOMAIN s.cache = {}
    BY <1>2
  <2>3. \A n \in DOMAIN s.cache : s.cache[n] = <<"bad">> \/ s.cache[n][2] = n
    BY <2>2
  <2>4. FieldsOK(s.f) /\ {"pos", "theta", "curve"} \subseteq DOMAIN s.p
    BY <1>2
  <2> QED
    BY <1>2, <2>1, <2>3, <2>4 DEF DialogOK
<1>4. DerivedInv(s) /\ WindowInv(s)
  BY <1>2 DEF DerivedInv, WindowInv
<1>5. DialogInv(RefreshQEPos(s))
  BY <1>2, <1>3, <1>4, RefreshKeeps
<1>6. RefreshQEPos(s).f = f
  <2>1. CASE s.f.pos = Open
    BY <1>2, <2>1 DEF RefreshQEPos
  <2>2. CASE s.f.pos # Open
    <3> DEFINE r == [s EXCEPT !.p.pos = s.f.pos,
                              !.p.theta = [pos |-> s.f.pos, d |-> s.f.d],
                              !.closed = TRUE]
    <3>1. /\ DOMAIN r = DOMAIN s /\ r.closed = TRUE
          /\ \A x \in DOMAIN s \ {"closed", "p"} : r[x] = s[x]
          /\ DOMAIN r.p = DOMAIN s.p
      BY <1>2
    <3>2. Calc(r) = RefreshQEPos(s)
      BY <2>2 DEF RefreshQEPos
    <3> HIDE DEF r
    <3>3. /\ r.f = s.f /\ r.auto = s.auto /\ r.current = s.current
          /\ r.fresh = s.fresh /\ r.hasUB = s.hasUB /\ r.status = s.status
          /\ r.cache = s.cache /\ r.d2 = s.d2 /\ r.d3 = s.d3
      BY <1>2, <3>1
    <3>4. DialogOK(r)
      BY <1>3, <3>1, <3>3 DEF DialogOK
    <3> QED
      BY <1>2, <3>2, <3>3, <3>4, CalcFacts
  <2> QED
    BY <2>1, <2>2
<1> QED
  BY <1>1, <1>5, <1>6

\* Files are loaded and saved, and the program is started again.
LEMMA LoadConfKeeps ==
  ASSUME NEW s, DialogInv(s), NEW f, FieldsOK(f)
  PROVE  DialogInv(LoadConf(s, f))
<1> DEFINE now == s.current /\ [f EXCEPT !.pos = s.f.pos] = s.f
           r == AlgoChanged([s EXCEPT !.f = f, !.current = now])
<1>0. DialogOK(s)
  BY DEF DialogInv
<1>1. now \in BOOLEAN /\ (now => s.current)
  BY <1>0 DEF DialogOK
<1>2. LoadConf(s, f) = RefreshQEPos(r)
  BY <1>0 DEF LoadConf, DialogOK
<1> HIDE DEF now
<1>3. /\ DOMAIN r = DOMAIN s /\ r.f = f /\ r.tabs = Pages(f.algo)
      /\ r.current = now
      /\ \A x \in DOMAIN s \ {"f", "current", "tabs"} : r[x] = s[x]
  BY <1>0 DEF AlgoChanged, DialogOK
<1> HIDE DEF r
<1>4. /\ r.p = s.p /\ r.res = s.res /\ r.status = s.status
      /\ r.text = s.text /\ r.auto = s.auto /\ r.ell = s.ell
      /\ r.fresh = s.fresh /\ r.hasUB = s.hasUB
      /\ r.hkl = s.hkl /\ r.orient = s.orient /\ r.mc = s.mc
      /\ r.cache = s.cache /\ r.d2 = s.d2
      /\ r.d3 = s.d3 /\ r.closed = s.closed
  BY <1>0, <1>3 DEF DialogOK
<1>5. DialogOK(r)
  BY <1>0, <1>1, <1>3, <1>4 DEF DialogOK
<1>6. DerivedInv(r)
  BY <1>1, <1>3, <1>4 DEF DialogInv, DerivedInv
<1>7. WindowInv(r)
  BY <1>4, WindowsStay
<1> QED
  BY <1>2, <1>3, <1>5, <1>6, <1>7, RefreshKeeps

\* Saving and loading, the stored configuration, and a restart.
LEMMA FileStepKeeps ==
  ASSUME DialogInv(rd), FilesInv, FileStep2
  PROVE  DialogInv(rd') /\ FilesInv'
<1>0. DialogOK(rd) /\ FieldsOK(rd.f)
  BY DEF DialogInv, DialogOK
<1>1. CASE (\E c \in ReflCurves : SaveRes(c[1])) /\ UNCHANGED setts2
  <2>1. PICK dir : saved' = [dir |-> dir, f |-> rd.f]
    BY <1>1 DEF SaveRes, FieldsOf
  <2> QED
    BY <1>0, <1>1, <2>1 DEF FilesInv, SaveRes
<1>2. CASE LoadRes /\ UNCHANGED setts2
  <2> DEFINE s == LoadConf(rd, saved.f)
  <2>1. DialogInv(s)
    BY <1>2, LoadConfKeeps DEF LoadRes, FilesInv
  <2>2. rd' = [s EXCEPT !.dir = saved.dir]
    BY <1>2 DEF LoadRes
  <2> HIDE DEF s
  <2>3. DialogOK(s)
    BY <2>1 DEF DialogInv
  <2>4. /\ DOMAIN rd' = DOMAIN s
        /\ \A x \in DOMAIN s \ {"dir"} : rd'[x] = s[x]
    BY <2>2, <2>3 DEF DialogOK
  <2>5. /\ rd'.f = s.f /\ rd'.p = s.p /\ rd'.status = s.status
        /\ rd'.closed = s.closed /\ rd'.hasUB = s.hasUB /\ rd'.auto = s.auto
        /\ rd'.current = s.current /\ rd'.fresh = s.fresh
        /\ rd'.cache = s.cache /\ rd'.res = s.res /\ rd'.hkl = s.hkl
        /\ rd'.orient = s.orient /\ rd'.mc = s.mc /\ rd'.ell = s.ell
        /\ rd'.d2 = s.d2 /\ rd'.d3 = s.d3
    BY <2>3, <2>4 DEF DialogOK
  <2>6. DialogOK(rd')
    BY <2>3, <2>4, <2>5 DEF DialogOK
  <2>7. WindowInv(rd')
    BY <2>1, <2>5, WindowsStay
  <2>8. rd'.current => rd'.ell = CalcEllipsoid4(rd'.res)
    BY <2>1, <2>5 DEF DialogInv, DerivedInv
  <2>9. DialogInv(rd')
    BY <2>1, <2>4, <2>6, <2>7, <2>8, OthersKeep
  <2> QED
    BY <1>2, <2>9 DEF LoadRes, FilesInv
<1>3. CASE WriteLastConfig /\ UNCHANGED <<rd, saved>>
  BY <1>0, <1>3 DEF WriteLastConfig, FilesInv
<1>4. CASE Restart /\ UNCHANGED <<saved, setts2>>
  <2>1. FieldsOK(IF setts2 = <<>> THEN Start0 ELSE setts2)
    BY ResoAssumption DEF FilesInv
  <2>2. DialogInv(rd')
    BY <1>4, <2>1, NewDialogKeeps DEF Restart
  <2> QED
    BY <1>4, <2>2 DEF FilesInv
<1> QED
  BY <1>1, <1>2, <1>3, <1>4 DEF FileStep2

-----------------------------------------------------------------------------
\* The loader of the convolution.

\* A calculation of the loader gives a record like that of the dialog.
LEMMA ResultFields ==
  ASSUME NEW t, t.algo \in Algos, NEW p
  PROVE  DOMAIN TasCalc(t, p) = DOMAIN Failed
<1>1. t.algo \in {"cn", "pop", "eck", "viol", "simple"}
  BY ResoAssumption
<1>2. \A x, y : DOMAIN Resolved(x, y) = DOMAIN Failed
  BY DEF Failed, Resolved
<1> QED
  BY <1>1, <1>2 DEF TasCalc, RunAlgo, CalcCn, CalcPop, CalcEck, CalcViol,
                    CalcSimple

\* The parameters that a file gives.
LEMMA TasParamsFacts ==
  ASSUME NEW c
  PROVE  LET p == TasParams(c)
         IN  /\ DOMAIN p = {"coll", "guide", "size", "focus", "curv", "vert",
                            "offset", "tof", "sig", "flags", "pos", "theta",
                            "curve"}
             /\ p.coll = c.f.coll /\ p.flags = c.f.flags
             /\ p.guide = c.f.guide /\ p.size = c.f.size
             /\ p.focus = FocusOf(c.f.focus) /\ p.curv = c.f.curv
             /\ p.vert = c.f.vert /\ p.offset = c.f.offset
             /\ p.tof = c.f.tof /\ p.sig = c.f.sig
  BY DEF TasParams

\* A calculation of the loader.
LEMMA SetHKLEKeeps ==
  ASSUME TasInv, NEW q \in Places4, NEW up \in BOOLEAN, SetHKLE(q, up)
  PROVE  TasInv'
<1> DEFINE r == Reached(tas, q)
           foc == IF tas.foc = {} THEN tas.p.focus
                  ELSE Focused(CHOOSE x \in tas.foc : TRUE, tas.p.focus)
           p1 == [tas.p EXCEPT !.pos = r, !.theta = [pos |-> r, d |-> tas.d],
                               !.focus = foc]
           p2 == [p1 EXCEPT !.offset = OffsetIn(tas)]
           p3 == [p2 EXCEPT !.offset = 0]
           t == IF tas.ub = 0 THEN [tas EXCEPT !.res.ok = FALSE]
                ELSE IF up THEN [tas EXCEPT !.p = p1, !.res.ok = FALSE]
                ELSE [tas EXCEPT !.p = p3, !.angle = q,
                                 !.res = TasCalc(tas, p2)]
<1>1. /\ tas # <<>> /\ DOMAIN tas = DOMAIN NewTas
      /\ DOMAIN tas.p = DOMAIN TasParams(tas.src)
      /\ DOMAIN tas.res = DOMAIN Failed /\ FieldsOK(tas.src.f)
      /\ tas.algo = tas.src.f.algo /\ tas.d = tas.src.f.d /\ tas.many \in BOOLEAN
      /\ tas.calls = "none" => tas.p = TasParams(tas.src) /\ tas.angle = Open
  BY DEF SetHKLE, TasInv
<1>2. tas' = [t EXCEPT !.calls = IF tas.calls = "none" /\ ~tas.many /\ tas.foc = {}
                                 THEN "plain" ELSE "other"]
  <2>1. t.calls = tas.calls
    BY <1>1 DEF NewTas
  <2> QED
    BY <2>1 DEF SetHKLE
<1>3. /\ DOMAIN p1 = DOMAIN tas.p /\ DOMAIN p3 = DOMAIN tas.p
      /\ p3.pos = r
  BY <1>1, TasParamsFacts
<1>4. DOMAIN TasCalc(tas, p2) = DOMAIN Failed
  BY <1>1, ResultFields DEF FieldsOK
<1>5. /\ DOMAIN t = DOMAIN NewTas
      /\ \A x \in DOMAIN NewTas \ {"p", "angle", "res"} : t[x] = tas[x]
      /\ DOMAIN t.p = DOMAIN tas.p /\ DOMAIN t.res = DOMAIN Failed
      /\ \/ t.angle = tas.angle
         \/ t.angle = q /\ t.p = p3 /\ t.res = TasCalc(tas, p2)
  <2> HIDE DEF p1, p2, p3
  <2>1. CASE tas.ub = 0 \/ (tas.ub # 0 /\ up)
    BY <1>1, <1>3, <2>1 DEF NewTas, Failed
  <2>2. CASE tas.ub # 0 /\ ~up
    BY <1>1, <1>3, <1>4, <2>2 DEF NewTas, Failed
  <2> QED
    BY <2>1, <2>2
<1> HIDE DEF t
<1>6. /\ DOMAIN tas' = DOMAIN NewTas
      /\ tas'.calls = IF tas.calls = "none" /\ ~tas.many /\ tas.foc = {}
                      THEN "plain" ELSE "other"
      /\ \A x \in DOMAIN NewTas \ {"calls"} : tas'[x] = t[x]
  BY <1>2, <1>5 DEF NewTas
<1>7. /\ tas'.algo = tas.algo /\ tas'.d = tas.d /\ tas'.many = tas.many
      /\ tas'.src = tas.src /\ tas'.p = t.p /\ tas'.res = t.res
      /\ tas'.angle = t.angle
  BY <1>5, <1>6 DEF NewTas
<1>8. ASSUME tas'.calls = "plain", tas'.angle # Open
      PROVE  LET p == [TasParams(tas.src) EXCEPT !.pos = tas'.p.pos,
                         !.theta = [pos |-> tas'.p.pos, d |-> tas.d]]
             IN tas'.p = [p EXCEPT !.offset = 0] /\ tas'.res = TasCalc(tas, p)
  <2>1. tas.calls = "none" /\ ~tas.many /\ tas.foc = {}
    BY <1>6, <1>8
  <2>2. tas'.p = p3 /\ tas'.res = TasCalc(tas, p2)
    BY <1>1, <1>5, <1>7, <1>8, <2>1
  <2>3. foc = tas.p.focus /\ OffsetIn(tas) = tas.p.offset
    BY <2>1 DEF OffsetIn
  <2>4. p2 = [TasParams(tas.src) EXCEPT !.pos = r,
                !.theta = [pos |-> r, d |-> tas.d]]
    BY <1>1, <2>1, <2>3, TasParamsFacts
  <2> QED
    BY <1>3, <2>2, <2>4
<1>9. \A p : TasCalc(tas', p) = TasCalc(tas, p)
  BY <1>7 DEF TasCalc
<1>10. tas'.calls # "none"
  BY <1>6
<1>11. tas'.calls = "plain" /\ tas'.angle # Open =>
         LET p == [TasParams(tas'.src) EXCEPT !.pos = tas'.p.pos,
                     !.theta = [pos |-> tas'.p.pos, d |-> tas'.d]]
         IN tas'.p = [p EXCEPT !.offset = 0] /\ tas'.res = TasCalc(tas', p)
  BY <1>7, <1>8, <1>9
<1>12. /\ DOMAIN tas'.p = DOMAIN TasParams(tas'.src)
       /\ DOMAIN tas'.res = DOMAIN Failed /\ FieldsOK(tas'.src.f)
       /\ tas'.algo = tas'.src.f.algo /\ tas'.d = tas'.src.f.d
       /\ tas'.many \in BOOLEAN
  BY <1>1, <1>5, <1>7
<1> QED
  BY <1>6, <1>10, <1>11, <1>12 DEF TasInv

\* What is only set changes nothing of a calculation.
LEMMA TasSet ==
  ASSUME TasInv, tas # <<>>, DOMAIN tas' = DOMAIN tas, tas'.many \in BOOLEAN,
         \A x \in DOMAIN tas \ {"kifix", "many", "foc"} : tas'[x] = tas[x]
  PROVE  TasInv'
<1>1. DOMAIN tas = DOMAIN NewTas
  BY DEF TasInv
<1>2. /\ tas'.algo = tas.algo /\ tas'.p = tas.p /\ tas'.d = tas.d
      /\ tas'.angle = tas.angle /\ tas'.res = tas.res
      /\ tas'.calls = tas.calls /\ tas'.src = tas.src
  BY <1>1 DEF NewTas
<1>3. \A p : TasCalc(tas', p) = TasCalc(tas, p)
  BY <1>2 DEF TasCalc
<1> QED
  BY <1>2, <1>3 DEF TasInv

\* Every operation of the loader.
LEMMA TasStepKeeps ==
  ASSUME TasInv, FilesInv, TasStep
  PROVE  TasInv'
<1>1. ASSUME NEW u, TasLoad(u)
      PROVE  TasInv'
  <2> DEFINE t == LoadTas(NewTas, saved)
  <2>1. saved # <<>> /\ FieldsOK(saved.f)
    BY <1>1 DEF TasLoad, FilesInv
  <2>2. /\ DOMAIN t = DOMAIN NewTas /\ t.p = TasParams(saved) /\ t.src = saved
        /\ t.algo = saved.f.algo /\ t.d = saved.f.d /\ t.many = FALSE
        /\ t.calls = "none" /\ t.angle = Open /\ t.res = Failed
    BY DEF LoadTas, NewTas
  <2>3. tas' = t \/ tas' = [t EXCEPT !.ub = u]
    BY <1>1 DEF TasLoad, SetLattice
  <2> HIDE DEF t
  <2>4. /\ DOMAIN tas' = DOMAIN NewTas /\ tas'.p = TasParams(saved)
        /\ tas'.src = saved
        /\ tas'.algo = saved.f.algo /\ tas'.d = saved.f.d /\ tas'.many = FALSE
        /\ tas'.calls = "none" /\ tas'.angle = Open /\ tas'.res = Failed
    BY <2>2, <2>3 DEF NewTas
  <2> QED
    BY <2>1, <2>4 DEF TasInv
<1>2. ASSUME SetKiFix \/ SetMany \/ \E foc : SetFoc(foc)
      PROVE  TasInv'
  <2>1. tas # <<>> /\ DOMAIN tas = DOMAIN NewTas /\ tas.many \in BOOLEAN
    BY <1>2 DEF SetKiFix, SetMany, SetFoc, TasInv
  <2>2. /\ DOMAIN tas' = DOMAIN tas /\ tas'.many \in BOOLEAN
        /\ \A x \in DOMAIN tas \ {"kifix", "many", "foc"} : tas'[x] = tas[x]
    BY <1>2, <2>1 DEF SetKiFix, SetMany, SetFoc, NewTas
  <2> QED
    BY <2>1, <2>2, TasSet
<1>3. ASSUME NEW q \in Places4, NEW up \in BOOLEAN, SetHKLE(q, up)
      PROVE  TasInv'
  BY <1>3, SetHKLEKeeps
<1> QED
  BY <1>1, <1>2, <1>3 DEF TasStep

-----------------------------------------------------------------------------
\* The invariant, and what follows from it.

\* The dialog on its own and the one that the main window opens.
LEMMA RsInitI == RsInit => RsIInv
<1> SUFFICES ASSUME RsInit PROVE RsIInv
  OBVIOUS
<1>1. PICK algo \in Algos :
        LET s == NewDialog([Start0 EXCEPT !.algo = algo])
        IN rd \in {s, Opened(s)}
  BY DEF RsInit
<1> DEFINE f == [Start0 EXCEPT !.algo = algo]
           s == NewDialog(f)
<1>2. FieldsOK(f) /\ f.pos = Start0.pos
  BY ResoAssumption DEF FieldsOK, FieldNames
<1> HIDE DEF f
<1>3. DialogInv(s) /\ s.f = f
  BY <1>2, NewDialogKeeps
<1>4. rd \in {s, Opened(s)}
  BY <1>1 DEF f
<1> HIDE DEF s
<1>5. DialogOK(s) /\ s.tabs = Pages(s.f.algo)
  BY <1>3 DEF DialogInv
<1>6. DialogInv(Opened(s))
  <2> DEFINE t == [s EXCEPT !.hasUB = TRUE, !.ub = 1]
  <2>1. Opened(s) = RealParamsChanged(RecipParamsChanged(t, s.f.pos), s.f.pos)
    BY DEF Opened
  <2>2. /\ DOMAIN t = DOMAIN s /\ t.hasUB = TRUE
        /\ \A x \in DOMAIN s \ {"hasUB", "ub"} : t[x] = s[x]
    BY <1>5 DEF DialogOK
  <2> HIDE DEF t
  <2>3. /\ t.f = s.f /\ t.p = s.p /\ t.status = s.status
        /\ t.closed = s.closed /\ t.auto = s.auto
        /\ t.current = s.current /\ t.fresh = s.fresh
        /\ t.cache = s.cache /\ t.d2 = s.d2 /\ t.d3 = s.d3 /\ t.tabs = s.tabs
    BY <1>5, <2>2 DEF DialogOK
  <2>4. DialogOK(t)
    BY <1>5, <2>2, <2>3 DEF DialogOK
  <2>5. s.f.pos \in Places4
    BY <1>2, <1>3, ResoAssumption
  <2> QED
    BY <1>5, <2>1, <2>3, <2>4, <2>5, MoveKeeps
<1>7. DialogInv(rd)
  BY <1>3, <1>4, <1>6
<1> QED
  BY <1>7 DEF RsIInv, RsInit, FilesInv, TasInv

\* Every event keeps the invariant.
LEMMA RsStepI == RsIInv /\ [RsNext]_rsvars => RsIInv'
<1> SUFFICES ASSUME RsIInv, [RsNext]_rsvars
             PROVE  RsIInv'
  OBVIOUS
<1>0. DialogInv(rd) /\ FilesInv /\ TasInv
  BY DEF RsIInv
<1>1. CASE FieldStep
  BY <1>0, <1>1, FieldStepKeeps DEF RsIInv, FieldStep, FilesInv, TasInv
<1>2. CASE MainStep
  BY <1>0, <1>2, MainStepKeeps DEF RsIInv, MainStep, FilesInv, TasInv
<1>3. CASE ButtonStep
  BY <1>0, <1>3, ButtonStepKeeps DEF RsIInv, ButtonStep, FilesInv, TasInv
<1>4. CASE FileStep2
  BY <1>0, <1>4, FileStepKeeps DEF RsIInv, FileStep2, TasInv
<1>5. CASE WindowStep
  BY <1>0, <1>5, WindowStepKeeps DEF RsIInv, WindowStep, FilesInv, TasInv
<1>6. CASE TasStep
  BY <1>0, <1>6, TasStepKeeps DEF RsIInv, TasStep, FilesInv
<1>7. CASE UNCHANGED rsvars
  BY <1>0, <1>7 DEF rsvars, RsIInv, FilesInv, TasInv
<1> QED
  BY <1>1, <1>2, <1>3, <1>4, <1>5, <1>6, <1>7 DEF RsNext

-----------------------------------------------------------------------------
(* The indices of the plots' axes, however many were removed before.       *)

\* What is left of a sequence.
LEMMA RemoveAtFacts ==
  ASSUME NEW S, NEW s \in Seq(S), NEW i \in 1 .. Len(s)
  PROVE  /\ RemoveAt(s, i) \in Seq(S) /\ Len(RemoveAt(s, i)) = Len(s) - 1
         /\ \A j \in 1 .. Len(s) - 1 :
              RemoveAt(s, i)[j] = IF j < i THEN s[j] ELSE s[j + 1]
<1> DEFINE a == SubSeq(s, 1, i - 1)
           b == SubSeq(s, i + 1, Len(s))
<1>1. a \in Seq(S) /\ Len(a) = i - 1 /\ \A j \in 1 .. i - 1 : a[j] = s[j]
  BY SubSeqProperties
<1>2. /\ b \in Seq(S) /\ Len(b) = Len(s) - i
      /\ \A j \in 1 .. Len(s) - i : b[j] = s[i + j]
  BY SubSeqProperties
<1> HIDE DEF a, b
<1>3. /\ a \o b \in Seq(S) /\ Len(a \o b) = Len(s) - 1
      /\ \A j \in 1 .. Len(s) - 1 :
           (a \o b)[j] = IF j <= Len(a) THEN a[j] ELSE b[j - Len(a)]
  <2>1. /\ a \o b \in Seq(S) /\ Len(a \o b) = Len(a) + Len(b)
        /\ \A j \in 1 .. Len(a) + Len(b) :
             (a \o b)[j] = IF j <= Len(a) THEN a[j] ELSE b[j - Len(a)]
    BY <1>1, <1>2, ConcatProperties
  <2>2. Len(a) + Len(b) = Len(s) - 1
    BY <1>1, <1>2
  <2> QED
    BY <2>1, <2>2
<1>4. ASSUME NEW j \in 1 .. Len(s) - 1
      PROVE  (a \o b)[j] = IF j < i THEN s[j] ELSE s[j + 1]
  <2>1. CASE j < i
    BY <1>1, <1>3, <2>1
  <2>2. CASE ~(j < i)
    <3>1. (a \o b)[j] = b[j - (i - 1)]
      BY <1>1, <1>3, <2>2
    <3>2. j - (i - 1) \in 1 .. Len(s) - i /\ i + (j - (i - 1)) = j + 1
      BY <2>2
    <3> QED
      BY <1>2, <2>2, <3>1, <3>2
  <2> QED
    BY <2>1, <2>2
<1> QED
  BY <1>3, <1>4 DEF RemoveAt, a, b

\* An axis, over which axes were integrated.
Axis(name, S) == [axis |-> name, int |-> S]

\* The axes of a result, none of which was integrated over.
LEMMA AxesAre ==
  Axes = <<Axis("para", {}), Axis("ortho", {}), Axis("up", {}), Axis("E", {})>>
  BY DEF Axes, Axis

\* The axes that are left when one is removed.
LEMMA Remove4 ==
  ASSUME NEW a, NEW b, NEW c, NEW d
  PROVE  /\ RemoveElems(<<a, b, c, d>>, 0) = <<b, c, d>>
         /\ RemoveElems(<<a, b, c, d>>, 1) = <<a, c, d>>
         /\ RemoveElems(<<a, b, c, d>>, 2) = <<a, b, d>>
         /\ RemoveElems(<<a, b, c, d>>, 3) = <<a, b, c>>
<1> DEFINE s == <<a, b, c, d>>
           S == {a, b, c, d}
<1>1. s \in Seq(S) /\ Len(s) = 4
  OBVIOUS
<1>2. ASSUME NEW i \in 0 .. 3
      PROVE  /\ RemoveElems(s, i) \in Seq(S) /\ Len(RemoveElems(s, i)) = 3
             /\ \A j \in 1 .. 3 :
                  RemoveElems(s, i)[j] = IF j < i + 1 THEN s[j] ELSE s[j + 1]
  <2> HIDE DEF s, S
  <2>1. i + 1 \in 1 .. Len(s)
    BY <1>1
  <2> DEFINE r == RemoveAt(s, i + 1)
  <2>2. /\ r \in Seq(S) /\ Len(r) = Len(s) - 1
        /\ \A j \in 1 .. Len(s) - 1 :
             r[j] = IF j < i + 1 THEN s[j] ELSE s[j + 1]
    BY <1>1, <2>1, RemoveAtFacts
  <2> HIDE DEF r
  <2>3. RemoveElems(s, i) = r
    BY DEF RemoveElems, r
  <2> QED
    BY <1>1, <2>2, <2>3
<1>3. ASSUME NEW t \in Seq(S), Len(t) = 3
      PROVE  t = <<t[1], t[2], t[3]>>
  BY <1>3
<1>4. \A i \in 0 .. 3 :
        RemoveElems(s, i) = <<RemoveElems(s, i)[1], RemoveElems(s, i)[2],
                              RemoveElems(s, i)[3]>>
  <2> TAKE i \in 0 .. 3
  <2> DEFINE r == RemoveElems(s, i)
  <2>1. r \in Seq(S) /\ Len(r) = 3
    BY <1>2
  <2> HIDE DEF r, s, S
  <2>2. r = <<r[1], r[2], r[3]>>
    BY <1>3, <2>1
  <2> QED
    BY <2>2 DEF r
<1>5. s[1] = a /\ s[2] = b /\ s[3] = c /\ s[4] = d
  OBVIOUS
<1> HIDE DEF s, S
<1>6. RemoveElems(s, 0) = <<b, c, d>>
  <2>1. /\ RemoveElems(s, 0)[1] = b
        /\ RemoveElems(s, 0)[2] = c
        /\ RemoveElems(s, 0)[3] = d
    BY <1>2, <1>5
  <2> QED
    BY <1>4, <2>1
<1>7. RemoveElems(s, 1) = <<a, c, d>>
  <2>1. /\ RemoveElems(s, 1)[1] = a
        /\ RemoveElems(s, 1)[2] = c
        /\ RemoveElems(s, 1)[3] = d
    BY <1>2, <1>5
  <2> QED
    BY <1>4, <2>1
<1>8. RemoveElems(s, 2) = <<a, b, d>>
  <2>1. /\ RemoveElems(s, 2)[1] = a
        /\ RemoveElems(s, 2)[2] = b
        /\ RemoveElems(s, 2)[3] = d
    BY <1>2, <1>5
  <2> QED
    BY <1>4, <2>1
<1>9. RemoveElems(s, 3) = <<a, b, c>>
  <2>1. /\ RemoveElems(s, 3)[1] = a
        /\ RemoveElems(s, 3)[2] = b
        /\ RemoveElems(s, 3)[3] = c
    BY <1>2, <1>5
  <2> QED
    BY <1>4, <2>1
<1> QED
  BY <1>6, <1>7, <1>8, <1>9 DEF s

\* Integration over an axis adds it to those of the others.
Over(a, x) == [a EXCEPT !.int = @ \union {x.axis}]

\* Integration over one of four axes.
LEMMA Integrate4 ==
  ASSUME NEW a, NEW b, NEW c, NEW d
  PROVE  /\ GaussInt(<<a, b, c, d>>, 2) = <<Over(a, c), Over(b, c), Over(d, c)>>
         /\ GaussInt(<<a, b, c, d>>, 3) = <<Over(a, d), Over(b, d), Over(c, d)>>
<1> DEFINE q == <<a, b, c, d>>
<1>1. \A i \in {2, 3} : GaussInt(q, i) =
        [j \in 1 .. 3 |-> Over(RemoveElems(q, i)[j], q[i + 1])]
  BY DEF GaussInt, Over
<1>2. ASSUME NEW f, f = [j \in 1 .. 3 |-> f[j]]
      PROVE  f = <<f[1], f[2], f[3]>>
  BY <1>2
<1>3. /\ GaussInt(q, 2) = <<Over(a, c), Over(b, c), Over(d, c)>>
  <2> DEFINE f == [j \in 1 .. 3 |-> Over(RemoveElems(q, 2)[j], c)]
  <2>1. GaussInt(q, 2) = f
    BY <1>1
  <2>2. f[1] = Over(a, c) /\ f[2] = Over(b, c) /\ f[3] = Over(d, c)
    BY Remove4
  <2>3. f = [j \in 1 .. 3 |-> f[j]]
    OBVIOUS
  <2> HIDE DEF f
  <2>4. f = <<f[1], f[2], f[3]>>
    BY <1>2, <2>3
  <2> QED
    BY <2>1, <2>2, <2>4
<1>4. /\ GaussInt(q, 3) = <<Over(a, d), Over(b, d), Over(c, d)>>
  <2> DEFINE f == [j \in 1 .. 3 |-> Over(RemoveElems(q, 3)[j], d)]
  <2>1. GaussInt(q, 3) = f
    BY <1>1
  <2>2. f[1] = Over(a, d) /\ f[2] = Over(b, d) /\ f[3] = Over(c, d)
    BY Remove4
  <2>3. f = [j \in 1 .. 3 |-> f[j]]
    OBVIOUS
  <2> HIDE DEF f
  <2>4. f = <<f[1], f[2], f[3]>>
    BY <1>2, <2>3
  <2> QED
    BY <2>1, <2>2, <2>4
<1> QED
  BY <1>3, <1>4

\* What is left of a matrix, at the shifted indices, in the same order.
Keeps(m, r, k) ==
  /\ Len(m) = k - 1
  /\ \A x \in 0 .. k - 1 : x # r => Shift(x, r) \in 0 .. k - 2
  /\ \A x, y \in 0 .. k - 1 :
       x < y /\ x # r /\ y # r => Shift(x, r) < Shift(y, r)

LEMMA RemovedIs ==
  ASSUME NEW S, NEW s \in Seq(S), NEW n \in Nat, Len(s) = n,
         NEW r \in 0 .. n - 1
  PROVE  /\ RemoveElems(s, r) \in Seq(S) /\ Keeps(RemoveElems(s, r), r, n)
         /\ \A x \in 0 .. n - 1 :
              x # r => RemoveElems(s, r)[Shift(x, r) + 1] = s[x + 1]
<1> DEFINE m == RemoveElems(s, r)
<1>1. /\ m \in Seq(S) /\ Len(m) = n - 1
      /\ \A j \in 1 .. n - 1 : m[j] = IF j < r + 1 THEN s[j] ELSE s[j + 1]
  <2> DEFINE u == RemoveAt(s, r + 1)
  <2>1. r + 1 \in 1 .. Len(s)
    OBVIOUS
  <2>2. /\ u \in Seq(S) /\ Len(u) = Len(s) - 1
        /\ \A j \in 1 .. Len(s) - 1 :
             u[j] = IF j < r + 1 THEN s[j] ELSE s[j + 1]
    BY <2>1, RemoveAtFacts
  <2> HIDE DEF u
  <2>3. m = u
    BY DEF RemoveElems, u
  <2> HIDE DEF m
  <2> QED
    BY <2>2, <2>3
<1> HIDE DEF m
<1>2. Keeps(m, r, n)
  BY <1>1 DEF Keeps, Shift
<1>3. ASSUME NEW x \in 0 .. n - 1, x # r
      PROVE  m[Shift(x, r) + 1] = s[x + 1]
  <2>1. CASE x >= r
    <3>1. Shift(x, r) + 1 = x /\ x \in 1 .. n - 1 /\ ~(x < r + 1)
      BY <1>3, <2>1 DEF Shift
    <3> QED
      BY <1>1, <3>1
  <2>2. CASE ~(x >= r)
    <3>1. Shift(x, r) + 1 = x + 1 /\ x + 1 \in 1 .. n - 1 /\ x + 1 < r + 1
      BY <1>3, <2>2 DEF Shift
    <3> QED
      BY <1>1, <3>1
  <2> QED
    BY <2>1, <2>2
<1> QED
  BY <1>1, <1>2, <1>3 DEF m

LEMMA IntegratedIs ==
  ASSUME NEW S, NEW s \in Seq(S), NEW n \in Nat, Len(s) = n,
         NEW r \in 0 .. n - 1
  PROVE  /\ Keeps(GaussInt(s, r), r, n)
         /\ \A x \in 0 .. n - 1 :
              x # r => GaussInt(s, r)[Shift(x, r) + 1] = Over(s[x + 1], s[r + 1])
<1> DEFINE m == RemoveElems(s, r)
           g == GaussInt(s, r)
<1>1. /\ Keeps(m, r, n)
      /\ \A x \in 0 .. n - 1 : x # r => m[Shift(x, r) + 1] = s[x + 1]
  BY RemovedIs
<1>2. g = [j \in 1 .. n - 1 |-> Over(m[j], s[r + 1])]
  BY DEF GaussInt, Over
<1> HIDE DEF m, g
<1>3. Len(g) = n - 1
  BY <1>2
<1>4. ASSUME NEW x \in 0 .. n - 1, x # r
      PROVE  g[Shift(x, r) + 1] = Over(s[x + 1], s[r + 1])
  <2>1. Shift(x, r) + 1 \in 1 .. n - 1
    BY <1>1, <1>4 DEF Keeps
  <2> QED
    BY <1>1, <1>2, <1>4, <2>1
<1>5. Keeps(g, r, n)
  BY <1>1, <1>3 DEF Keeps
<1> QED
  BY <1>4, <1>5 DEF g

\* Two of four axes are left, x before y, when r and then t is gone.
LEMMA TwoLeft ==
  ASSUME NEW S, NEW s \in Seq(S), Len(s) = 4, NEW x \in 0 .. 3,
         NEW y \in 0 .. 3, NEW r \in 0 .. 3, NEW t \in 0 .. 3,
         x < y, r # t, x # r, x # t, y # r, y # t
  PROVE  LET m == RemoveElems(s, r)
             u == Shift(t, r)
         IN  /\ u \in 0 .. 2
             /\ Shift(Shift(x, r), u) = 0 /\ Shift(Shift(y, r), u) = 1
             /\ Len(RemoveElems(m, u)) = 2 /\ Len(GaussInt(m, u)) = 2
             /\ RemoveElems(m, u)[1] = s[x + 1]
             /\ RemoveElems(m, u)[2] = s[y + 1]
             /\ GaussInt(m, u)[1] = Over(s[x + 1], s[t + 1])
             /\ GaussInt(m, u)[2] = Over(s[y + 1], s[t + 1])
<1> DEFINE m == RemoveElems(s, r)
           u == Shift(t, r)
           v == Shift(x, r)
           w == Shift(y, r)
           p == RemoveElems(m, u)
           g == GaussInt(m, u)
<1>1. /\ m \in Seq(S) /\ Keeps(m, r, 4)
      /\ \A k \in 0 .. 3 : k # r => m[Shift(k, r) + 1] = s[k + 1]
  <2>1. /\ m \in Seq(S) /\ Keeps(m, r, 4)
        /\ \A k \in 0 .. 4 - 1 : k # r => m[Shift(k, r) + 1] = s[k + 1]
    <3>1. r \in 0 .. 4 - 1 /\ 4 \in Nat
      OBVIOUS
    <3> QED
      BY <3>1, RemovedIs, Zenon
  <2> QED
    BY <2>1
<1>2. /\ Len(m) = 3 /\ u \in 0 .. 2 /\ v \in 0 .. 2 /\ w \in 0 .. 2
      /\ v < w /\ v # u /\ w # u
  BY <1>1 DEF Keeps, Shift
<1>3. m[v + 1] = s[x + 1] /\ m[w + 1] = s[y + 1] /\ m[u + 1] = s[t + 1]
  BY <1>1
<1> HIDE DEF m, u, v, w
<1>4. /\ Keeps(p, u, 3)
      /\ \A k \in 0 .. 2 : k # u => p[Shift(k, u) + 1] = m[k + 1]
  <2>1. u \in 0 .. 3 - 1 /\ 3 \in Nat
    BY <1>2
  <2>2. /\ Keeps(p, u, 3)
        /\ \A k \in 0 .. 3 - 1 :
             k # u => p[Shift(k, u) + 1] = m[k + 1]
    BY <1>1, <1>2, <2>1, RemovedIs, Zenon
  <2> QED
    BY <2>2
<1>5. /\ Keeps(g, u, 3)
      /\ \A k \in 0 .. 2 :
           k # u => g[Shift(k, u) + 1] = Over(m[k + 1], m[u + 1])
  <2>1. u \in 0 .. 3 - 1
    BY <1>2
  <2>2. /\ Keeps(g, u, 3)
        /\ \A k \in 0 .. 3 - 1 :
             k # u => g[Shift(k, u) + 1] = Over(m[k + 1], m[u + 1])
    BY <1>1, <1>2, <2>1, IntegratedIs
  <2> QED
    BY <2>2
<1>6. Shift(v, u) = 0 /\ Shift(w, u) = 1
  BY <1>2 DEF Shift
<1> HIDE DEF p, g
<1>7. Len(p) = 2 /\ Len(g) = 2
  BY <1>4, <1>5 DEF Keeps
<1>8. p[1] = m[v + 1] /\ p[2] = m[w + 1]
  <2>1. p[Shift(v, u) + 1] = m[v + 1] /\ p[Shift(w, u) + 1] = m[w + 1]
    BY <1>2, <1>4
  <2> QED
    BY <1>6, <2>1
<1>9. g[1] = Over(m[v + 1], m[u + 1]) /\ g[2] = Over(m[w + 1], m[u + 1])
  <2>1. /\ g[Shift(v, u) + 1] = Over(m[v + 1], m[u + 1])
        /\ g[Shift(w, u) + 1] = Over(m[w + 1], m[u + 1])
    BY <1>2, <1>5
  <2> QED
    BY <1>6, <2>1
<1> QED
  BY <1>2, <1>3, <1>6, <1>7, <1>8, <1>9 DEF m, u, v, w, p, g

\* The indices of a plot: the two of the plot, and one of the other three is
\* missing.
LEMMA ConfigurableIs ==
  ASSUME NEW q \in Configurable
  PROVE  /\ q[1] \in 0 .. 3 /\ q[2] \in 0 .. 3 /\ q[1] < q[2]
         /\ \A i, j \in 1 .. 5 : i # j => q[i] # q[j]
         /\ \A i \in 1 .. 5 : q[i] \in 0 .. 3 \/ q[i] = -1
         /\ q[3] = -1 \/ q[4] = -1 \/ q[5] = -1
<1>1. q \in [1 .. 5 -> -1 .. 3] /\ 0 <= q[1] /\ q[1] < q[2]
      /\ Range(q) = -1 .. 3
  BY DEF Configurable
<1>2. \A v \in -1 .. 3 : \E i \in 1 .. 5 : q[i] = v
  BY <1>1 DEF Range
<1>3. \A v \in -1 .. 3 : v = q[1] \/ v = q[2] \/ v = q[3] \/ v = q[4]
                        \/ v = q[5]
  BY <1>2
<1>4. /\ q[1] \in -1 .. 3 /\ q[2] \in -1 .. 3 /\ q[3] \in -1 .. 3
      /\ q[4] \in -1 .. 3 /\ q[5] \in -1 .. 3
  BY <1>1
<1> DEFINE x == q[1]  y == q[2]  i == q[3]  r == q[4]  t == q[5]
<1>5. /\ x \in 0 .. 3 /\ y \in 0 .. 3 /\ x < y
      /\ i \in -1 .. 3 /\ r \in -1 .. 3 /\ t \in -1 .. 3
  BY <1>1, <1>4
<1>6. /\ -1 \in {x, y, i, r, t} /\ 0 \in {x, y, i, r, t}
      /\ 1 \in {x, y, i, r, t} /\ 2 \in {x, y, i, r, t}
      /\ 3 \in {x, y, i, r, t}
  BY <1>3
<1> HIDE DEF x, y, i, r, t
<1>7. /\ x # i /\ x # r /\ x # t /\ y # i /\ y # r /\ y # t
      /\ i # r /\ i # t /\ r # t
      /\ i = -1 \/ r = -1 \/ t = -1
  BY <1>5, <1>6
<1> QED
  BY <1>5, <1>7 DEF x, y, i, r, t

\* A plot of the settings shows the axes that it is labelled with.
LEMMA EllipseIs ==
  ASSUME NEW q \in Configurable
  PROVE  LET e == Ellipse(q)
             want == <<Axes[q[1] + 1].axis, Axes[q[2] + 1].axis>>
         IN /\ [i \in 1 .. Len(e.quad) |-> e.quad[i].axis] = want
            /\ e.offs = want
            /\ \A i \in 1 .. 2 : e.quad[i].int =
                 IF q[3] < 0 THEN {} ELSE {Axes[q[3] + 1].axis}
<1> DEFINE x == q[1]  y == q[2]  i == q[3]  r == q[4]  t == q[5]
           e == CalcEllipse(Axes, x, y, i, r, t)
           a == Axes[x + 1]
           b == Axes[y + 1]
           want == <<a.axis, b.axis>>
           S == {Axis("para", {}), Axis("ortho", {}), Axis("up", {}),
                 Axis("E", {})}
<1>1. Axes \in Seq(S) /\ Len(Axes) = 4
  BY AxesAre
<1>2. \A k \in 0 .. 3 : Axes[k + 1].int = {}
                         /\ DOMAIN Axes[k + 1] = {"axis", "int"}
  BY AxesAre DEF Axis
<1>3. /\ x \in 0 .. 3 /\ y \in 0 .. 3 /\ x < y
      /\ x # i /\ x # r /\ x # t /\ y # i /\ y # r /\ y # t
      /\ i # r /\ i # t /\ r # t
      /\ i \in 0 .. 3 \/ i = -1
      /\ r \in 0 .. 3 \/ r = -1
      /\ t \in 0 .. 3 \/ t = -1
      /\ i = -1 \/ r = -1 \/ t = -1
  BY ConfigurableIs
<1> HIDE DEF x, y, i, r, t, S
<1>4. ASSUME NEW m, NEW I, Len(m) = 2, m[1].axis = a.axis, m[2].axis = b.axis,
             m[1].int = I, m[2].int = I
      PROVE  /\ [k \in 1 .. Len(m) |-> m[k].axis] = want
             /\ \A k \in 1 .. 2 : m[k].int = I
  BY <1>4
<1>5. \A k \in 0 .. 3, n \in 0 .. 3 :
        /\ Over(Axes[k + 1], Axes[n + 1]).axis = Axes[k + 1].axis
        /\ Over(Axes[k + 1], Axes[n + 1]).int = {Axes[n + 1].axis}
  BY <1>2 DEF Over
<1>6. \A n \in 0 .. 3 : Shift(-1, n) = -1
  BY DEF Shift
<1> DEFINE J == IF i < 0 THEN {} ELSE {Axes[i + 1].axis}
           Right == /\ [k \in 1 .. Len(e.quad) |-> e.quad[k].axis] = want
                    /\ e.offs = want
                    /\ \A k \in 1 .. 2 : e.quad[k].int = J
<1> SUFFICES Right
  BY DEF Ellipse, x, y, i, r, t
<1>7. CASE i = -1
  <2> DEFINE u == Shift(t, r)
             m == RemoveElems(RemoveElems(Axes, r), u)
  <2>1. r \in 0 .. 3 /\ t \in 0 .. 3
    BY <1>3, <1>7
  <2>2. /\ u \in 0 .. 2
        /\ Shift(Shift(x, r), u) = 0 /\ Shift(Shift(y, r), u) = 1
        /\ Len(m) = 2 /\ m[1] = a /\ m[2] = b
    BY <1>1, <1>3, <2>1, TwoLeft
  <2>3. Shift(-1, r) = -1 /\ Shift(-1, u) = -1
    BY <1>6, <2>1, <2>2
  <2> HIDE DEF u, m
  <2>4. e = [quad |-> m, offs |-> <<m[1].axis, m[2].axis>>]
    BY <1>7, <2>1, <2>2, <2>3 DEF CalcEllipse, u, m
  <2>5. J = {} /\ a.int = {} /\ b.int = {}
    BY <1>2, <1>3, <1>7
  <2> HIDE DEF e, a, b, want, J
  <2>6. e.quad = m /\ e.offs = <<a.axis, b.axis>>
    BY <2>2, <2>4
  <2>7. /\ [k \in 1 .. Len(m) |-> m[k].axis] = want
        /\ \A k \in 1 .. 2 : m[k].int = J
    <3>1. Len(m) = 2 /\ m[1].axis = a.axis /\ m[2].axis = b.axis
      BY <2>2, <2>5
    <3>2. m[1].int = J /\ m[2].int = J
      BY <2>2, <2>5
    <3> HIDE DEF J, m
    <3> QED
      BY <1>4, <3>1, <3>2
  <2> QED
    BY <2>6, <2>7 DEF want
<1>8. CASE r = -1
  <2> DEFINE u == Shift(i, t)
             m == GaussInt(RemoveElems(Axes, t), u)
  <2>1. i \in 0 .. 3 /\ t \in 0 .. 3
    BY <1>3, <1>8
  <2>2. /\ u \in 0 .. 2
        /\ Shift(Shift(x, t), u) = 0 /\ Shift(Shift(y, t), u) = 1
        /\ Len(m) = 2 /\ m[1] = Over(a, Axes[i + 1])
        /\ m[2] = Over(b, Axes[i + 1])
    BY <1>1, <1>3, <2>1, TwoLeft
  <2> HIDE DEF u, m
  <2>3. e = [quad |-> m, offs |-> <<m[1].axis, m[2].axis>>]
    BY <1>8, <2>1, <2>2 DEF CalcEllipse, u, m
  <2>4. /\ J = {Axes[i + 1].axis} /\ m[1].axis = a.axis /\ m[2].axis = b.axis
        /\ m[1].int = J /\ m[2].int = J
    <3>1. J = {Axes[i + 1].axis}
      BY <2>1
    <3>2. /\ Over(a, Axes[i + 1]).axis = a.axis
          /\ Over(a, Axes[i + 1]).int = {Axes[i + 1].axis}
          /\ Over(b, Axes[i + 1]).axis = b.axis
          /\ Over(b, Axes[i + 1]).int = {Axes[i + 1].axis}
      BY <1>3, <1>5, <2>1
    <3> QED
      BY <2>2, <3>1, <3>2
  <2> HIDE DEF e, a, b, want, J
  <2>5. e.quad = m /\ e.offs = <<a.axis, b.axis>>
    BY <2>3, <2>4
  <2>6. /\ [k \in 1 .. Len(m) |-> m[k].axis] = want
        /\ \A k \in 1 .. 2 : m[k].int = J
    <3>1. Len(m) = 2 /\ m[1].axis = a.axis /\ m[2].axis = b.axis
      BY <2>2, <2>4
    <3>2. m[1].int = J /\ m[2].int = J
      BY <2>2, <2>4
    <3> HIDE DEF J, m
    <3> QED
      BY <1>4, <3>1, <3>2
  <2> QED
    BY <2>5, <2>6 DEF want
<1>9. CASE t = -1
  <2> DEFINE u == Shift(i, r)
             m == GaussInt(RemoveElems(Axes, r), u)
  <2>1. i \in 0 .. 3 /\ r \in 0 .. 3
    BY <1>3, <1>9
  <2>2. /\ u \in 0 .. 2
        /\ Shift(Shift(x, r), u) = 0 /\ Shift(Shift(y, r), u) = 1
        /\ Len(m) = 2 /\ m[1] = Over(a, Axes[i + 1])
        /\ m[2] = Over(b, Axes[i + 1])
    BY <1>1, <1>3, <2>1, TwoLeft
  <2>3. Shift(-1, r) = -1
    BY <1>6, <2>1
  <2> HIDE DEF u, m
  <2>4. e = [quad |-> m, offs |-> <<m[1].axis, m[2].axis>>]
    BY <1>9, <2>1, <2>2, <2>3 DEF CalcEllipse, u, m
  <2>5. /\ J = {Axes[i + 1].axis} /\ m[1].axis = a.axis /\ m[2].axis = b.axis
        /\ m[1].int = J /\ m[2].int = J
    <3>1. J = {Axes[i + 1].axis}
      BY <2>1
    <3>2. /\ Over(a, Axes[i + 1]).axis = a.axis
          /\ Over(a, Axes[i + 1]).int = {Axes[i + 1].axis}
          /\ Over(b, Axes[i + 1]).axis = b.axis
          /\ Over(b, Axes[i + 1]).int = {Axes[i + 1].axis}
      BY <1>3, <1>5, <2>1
    <3> QED
      BY <2>2, <3>1, <3>2
  <2> HIDE DEF e, a, b, want, J
  <2>6. e.quad = m /\ e.offs = <<a.axis, b.axis>>
    BY <2>4, <2>5
  <2>7. /\ [k \in 1 .. Len(m) |-> m[k].axis] = want
        /\ \A k \in 1 .. 2 : m[k].int = J
    <3>1. Len(m) = 2 /\ m[1].axis = a.axis /\ m[2].axis = b.axis
      BY <2>2, <2>5
    <3>2. m[1].int = J /\ m[2].int = J
      BY <2>2, <2>5
    <3> HIDE DEF J, m
    <3> QED
      BY <1>4, <3>1, <3>2
  <2> QED
    BY <2>6, <2>7 DEF want
<1> HIDE DEF Right
<1> QED
  BY <1>3, <1>7, <1>8, <1>9

\* The plots that are shown without settings are such ones.
LEMMA DefaultsConfigurable == Range(Plots2D) \subseteq Configurable
<1> SUFFICES ASSUME NEW q \in Range(Plots2D) PROVE q \in Configurable
  OBVIOUS
<1>1. q \in {<<0, 3, 1, 2, -1>>, <<1, 3, 0, 2, -1>>, <<2, 3, 0, 1, -1>>,
              <<0, 1, 3, 2, -1>>, <<0, 3, -1, 2, 1>>, <<1, 3, -1, 2, 0>>,
              <<2, 3, -1, 1, 0>>, <<0, 1, -1, 2, 3>>}
  BY DEF Range, Plots2D
<1>2. /\ DOMAIN q = 1 .. 5 /\ q = [k \in 1 .. 5 |-> q[k]]
      /\ q[1] \in -1 .. 3 /\ q[2] \in -1 .. 3 /\ q[3] \in -1 .. 3
      /\ q[4] \in -1 .. 3 /\ q[5] \in -1 .. 3
      /\ 0 <= q[1] /\ q[1] < q[2]
  BY <1>1
<1>3. {q[1], q[2], q[3], q[4], q[5]} = {-1, 0, 1, 2, 3}
  BY <1>1
<1>4. -1 .. 3 = {-1, 0, 1, 2, 3}
  OBVIOUS
<1>5. Range(q) = {q[1], q[2], q[3], q[4], q[5]}
  BY <1>2 DEF Range
<1>6. q \in [1 .. 5 -> -1 .. 3]
  BY <1>2
<1> QED
  BY <1>2, <1>3, <1>4, <1>5, <1>6 DEF Configurable

\* The plots in 3D, one by one.
LEMMA Plots3DAre ==
  LET Shows(e, x, y, z, S) ==
        /\ e.quad = <<Axis(x, S), Axis(y, S), Axis(z, S)>>
        /\ e.offs = <<x, y, z>>
  IN
  /\ Shows(Ellipsoid(<<0, 1, 3, 2, -1>>), "para", "ortho", "E", {"up"})
  /\ Shows(Ellipsoid(<<0, 1, 2, 3, -1>>), "para", "ortho", "up", {"E"})
  /\ Shows(Ellipsoid(<<0, 1, 3, -1, 2>>), "para", "ortho", "E", {})
  /\ Shows(Ellipsoid(<<0, 1, 2, -1, 3>>), "para", "ortho", "up", {})
<1> DEFINE P == Axis("para", {})
           O == Axis("ortho", {})
           U == Axis("up", {})
           E == Axis("E", {})
<1>1. \A x, y : Over(Axis(x, {}), Axis(y, {})) = Axis(x, {y})
  BY DEF Over, Axis
<1>2. \A x, S : Axis(x, S).axis = x
  BY DEF Axis
<1>3. Axes = <<P, O, U, E>>
  BY AxesAre
<1>4. ASSUME NEW f, f = [j \in 1 .. 3 |-> f[j]]
      PROVE  f = <<f[1], f[2], f[3]>>
  BY <1>4
<1>5. /\ Ellipsoid(<<0, 1, 3, 2, -1>>).quad = <<Axis("para", {"up"}), Axis("ortho", {"up"}), Axis("E", {"up"})>>
      /\ Ellipsoid(<<0, 1, 3, 2, -1>>).offs = <<"para", "ortho", "E">>
  <2> DEFINE f == Ellipsoid(<<0, 1, 3, 2, -1>>).offs
             quad == <<Axis("para", {"up"}), Axis("ortho", {"up"}), Axis("E", {"up"})>>
  <2>1. GaussInt(<<P, O, U, E>>, 2) = quad
    BY <1>1, Integrate4
  <2>2. Ellipsoid(<<0, 1, 3, 2, -1>>).quad = quad
    BY <1>3, <2>1 DEF Ellipsoid, CalcEllipsoid3, Shift
  <2>3. f = [k \in 1 .. 3 |-> quad[(<<0, 1, 2>>[k]) + 1].axis]
    BY <1>3, <2>1 DEF Ellipsoid, CalcEllipsoid3, Shift
  <2>4. f = [k \in 1 .. 3 |-> f[k]] /\ f[1] = "para" /\ f[2] = "ortho" /\ f[3] = "E"
    BY <1>2, <2>3
  <2> HIDE DEF f
  <2> QED
    BY <1>4, <2>2, <2>4 DEF f
<1>6. /\ Ellipsoid(<<0, 1, 2, 3, -1>>).quad = <<Axis("para", {"E"}), Axis("ortho", {"E"}), Axis("up", {"E"})>>
      /\ Ellipsoid(<<0, 1, 2, 3, -1>>).offs = <<"para", "ortho", "up">>
  <2> DEFINE f == Ellipsoid(<<0, 1, 2, 3, -1>>).offs
             quad == <<Axis("para", {"E"}), Axis("ortho", {"E"}), Axis("up", {"E"})>>
  <2>1. GaussInt(<<P, O, U, E>>, 3) = quad
    BY <1>1, Integrate4
  <2>2. Ellipsoid(<<0, 1, 2, 3, -1>>).quad = quad
    BY <1>3, <2>1 DEF Ellipsoid, CalcEllipsoid3, Shift
  <2>3. f = [k \in 1 .. 3 |-> quad[(<<0, 1, 2>>[k]) + 1].axis]
    BY <1>3, <2>1 DEF Ellipsoid, CalcEllipsoid3, Shift
  <2>4. f = [k \in 1 .. 3 |-> f[k]] /\ f[1] = "para" /\ f[2] = "ortho" /\ f[3] = "up"
    BY <1>2, <2>3
  <2> HIDE DEF f
  <2> QED
    BY <1>4, <2>2, <2>4 DEF f
<1>7. /\ Ellipsoid(<<0, 1, 3, -1, 2>>).quad = <<Axis("para", {}), Axis("ortho", {}), Axis("E", {})>>
      /\ Ellipsoid(<<0, 1, 3, -1, 2>>).offs = <<"para", "ortho", "E">>
  <2> DEFINE f == Ellipsoid(<<0, 1, 3, -1, 2>>).offs
             quad == <<Axis("para", {}), Axis("ortho", {}), Axis("E", {})>>
  <2>1. RemoveElems(<<P, O, U, E>>, 2) = quad
    BY <1>1, Remove4
  <2>2. Ellipsoid(<<0, 1, 3, -1, 2>>).quad = quad
    BY <1>3, <2>1 DEF Ellipsoid, CalcEllipsoid3, Shift
  <2>3. f = [k \in 1 .. 3 |-> quad[(<<0, 1, 2>>[k]) + 1].axis]
    BY <1>3, <2>1 DEF Ellipsoid, CalcEllipsoid3, Shift
  <2>4. f = [k \in 1 .. 3 |-> f[k]] /\ f[1] = "para" /\ f[2] = "ortho" /\ f[3] = "E"
    BY <1>2, <2>3
  <2> HIDE DEF f
  <2> QED
    BY <1>4, <2>2, <2>4 DEF f
<1>8. /\ Ellipsoid(<<0, 1, 2, -1, 3>>).quad = <<Axis("para", {}), Axis("ortho", {}), Axis("up", {})>>
      /\ Ellipsoid(<<0, 1, 2, -1, 3>>).offs = <<"para", "ortho", "up">>
  <2> DEFINE f == Ellipsoid(<<0, 1, 2, -1, 3>>).offs
             quad == <<Axis("para", {}), Axis("ortho", {}), Axis("up", {})>>
  <2>1. RemoveElems(<<P, O, U, E>>, 3) = quad
    BY <1>1, Remove4
  <2>2. Ellipsoid(<<0, 1, 2, -1, 3>>).quad = quad
    BY <1>3, <2>1 DEF Ellipsoid, CalcEllipsoid3, Shift
  <2>3. f = [k \in 1 .. 3 |-> quad[(<<0, 1, 2>>[k]) + 1].axis]
    BY <1>3, <2>1 DEF Ellipsoid, CalcEllipsoid3, Shift
  <2>4. f = [k \in 1 .. 3 |-> f[k]] /\ f[1] = "para" /\ f[2] = "ortho" /\ f[3] = "up"
    BY <1>2, <2>3
  <2> HIDE DEF f
  <2> QED
    BY <1>4, <2>2, <2>4 DEF f
<1> QED
  BY <1>5, <1>6, <1>7, <1>8

\* Every plot has the axes of its labels.
LEMMA IndicesI == IndicesRight
<1>1. /\ Axes[1].axis = "para" /\ Axes[2].axis = "ortho"
      /\ Axes[3].axis = "up" /\ Axes[4].axis = "E"
  BY AxesAre DEF Axis
<1>2. \A x, S : Axis(x, S).axis = x /\ Axis(x, S).int = S
  BY DEF Axis
<1>3. ASSUME NEW q \in Configurable
      PROVE  LET e == Ellipse(q)
                 want == <<Axes[q[1] + 1].axis, Axes[q[2] + 1].axis>>
             IN /\ [i \in 1 .. Len(e.quad) |-> e.quad[i].axis] = want
                /\ e.offs = want
                /\ \A i \in 1 .. 2 : e.quad[i].int =
                     IF q[3] < 0 THEN {} ELSE {Axes[q[3] + 1].axis}
  BY <1>3, EllipseIs
<1>4. ASSUME NEW q \in Range(Plots3D)
      PROVE  LET e == Ellipsoid(q)
                 want == [i \in 1 .. 3 |-> Axes[q[i] + 1].axis]
             IN /\ {e.quad[i].axis : i \in 1 .. Len(e.quad)} = Range(want)
                /\ e.offs = want
  <2> DEFINE want == [i \in 1 .. 3 |-> Axes[q[i] + 1].axis]
             e == Ellipsoid(q)
  <2>1. ASSUME NEW x, NEW y, NEW z, NEW S,
               e.quad = <<Axis(x, S), Axis(y, S), Axis(z, S)>>,
               e.offs = <<x, y, z>>, want[1] = x, want[2] = y, want[3] = z
        PROVE  /\ {e.quad[i].axis : i \in 1 .. Len(e.quad)} = Range(want)
               /\ e.offs = want
    <3> HIDE DEF e
    <3>1. /\ Len(e.quad) = 3 /\ e.quad[1] = Axis(x, S)
          /\ e.quad[2] = Axis(y, S) /\ e.quad[3] = Axis(z, S)
      BY <2>1
    <3>2. {e.quad[i].axis : i \in 1 .. Len(e.quad)} = {x, y, z}
      BY <1>2, <3>1
    <3>3. DOMAIN want = 1 .. 3
      OBVIOUS
    <3>4. want = [i \in 1 .. 3 |-> want[i]]
      OBVIOUS
    <3> HIDE DEF want
    <3>5. Range(want) = {x, y, z}
      BY <2>1, <3>3 DEF Range
    <3>6. want = <<x, y, z>>
      BY <2>1, <3>4
    <3> QED
      BY <2>1, <3>2, <3>5, <3>6
  <2>2. q \in {<<0, 1, 3, 2, -1>>, <<0, 1, 2, 3, -1>>, <<0, 1, 3, -1, 2>>,
               <<0, 1, 2, -1, 3>>}
    BY <1>4 DEF Range, Plots3D
  <2> HIDE DEF e
  <2>3. CASE q = <<0, 1, 3, 2, -1>>
    <3>1. want[1] = "para" /\ want[2] = "ortho" /\ want[3] = "E"
      BY <1>1, <2>3
    <3>2. /\ e.quad = <<Axis("para", {"up"}), Axis("ortho", {"up"}), Axis("E", {"up"})>>
          /\ e.offs = <<"para", "ortho", "E">>
      BY <2>3, Plots3DAre DEF e
    <3> HIDE DEF want
    <3>3. /\ {e.quad[i].axis : i \in 1 .. Len(e.quad)} = Range(want)
          /\ e.offs = want
      BY <2>1, <3>1, <3>2
    <3> QED
      BY <3>3 DEF want, e
  <2>4. CASE q = <<0, 1, 2, 3, -1>>
    <3>1. want[1] = "para" /\ want[2] = "ortho" /\ want[3] = "up"
      BY <1>1, <2>4
    <3>2. /\ e.quad = <<Axis("para", {"E"}), Axis("ortho", {"E"}), Axis("up", {"E"})>>
          /\ e.offs = <<"para", "ortho", "up">>
      BY <2>4, Plots3DAre DEF e
    <3> HIDE DEF want
    <3>3. /\ {e.quad[i].axis : i \in 1 .. Len(e.quad)} = Range(want)
          /\ e.offs = want
      BY <2>1, <3>1, <3>2
    <3> QED
      BY <3>3 DEF want, e
  <2>5. CASE q = <<0, 1, 3, -1, 2>>
    <3>1. want[1] = "para" /\ want[2] = "ortho" /\ want[3] = "E"
      BY <1>1, <2>5
    <3>2. /\ e.quad = <<Axis("para", {}), Axis("ortho", {}), Axis("E", {})>>
          /\ e.offs = <<"para", "ortho", "E">>
      BY <2>5, Plots3DAre DEF e
    <3> HIDE DEF want
    <3>3. /\ {e.quad[i].axis : i \in 1 .. Len(e.quad)} = Range(want)
          /\ e.offs = want
      BY <2>1, <3>1, <3>2
    <3> QED
      BY <3>3 DEF want, e
  <2>6. CASE q = <<0, 1, 2, -1, 3>>
    <3>1. want[1] = "para" /\ want[2] = "ortho" /\ want[3] = "up"
      BY <1>1, <2>6
    <3>2. /\ e.quad = <<Axis("para", {}), Axis("ortho", {}), Axis("up", {})>>
          /\ e.offs = <<"para", "ortho", "up">>
      BY <2>6, Plots3DAre DEF e
    <3> HIDE DEF want
    <3>3. /\ {e.quad[i].axis : i \in 1 .. Len(e.quad)} = Range(want)
          /\ e.offs = want
      BY <2>1, <3>1, <3>2
    <3> QED
      BY <3>3 DEF want, e
  <2> QED
    BY <2>2, <2>3, <2>4, <2>5, <2>6
<1>5. Range(Plots2D) \subseteq Configurable
  BY DefaultsConfigurable
<1> QED
  BY <1>3, <1>4, <1>5 DEF IndicesRight

-----------------------------------------------------------------------------
(* The theorems.                                                           *)

\* What is shown follows from the invariant.
LEMMA ResultsI == RsIInv => ResultsTrue
<1> SUFFICES ASSUME RsIInv PROVE ResultsTrue
  OBVIOUS
<1>1. /\ DialogOK(rd) /\ CalcInv(rd) /\ DerivedInv(rd)
      /\ rd.tabs = Pages(rd.f.algo)
  BY DEF RsIInv, DialogInv
<1>2. ASSUME rd.closed, rd.status = "ok"
      PROVE  LET p == ParamsAt(rd, rd.f.pos, rd.p.curve)
             IN rd.res = RunAlgo(rd.f.algo, p) /\ p.theta.pos = rd.f.pos
  BY <1>1, <1>2 DEF CalcInv
<1> QED
  BY <1>1, <1>2 DEF CalcInv, DerivedInv, ResultsTrue

\* The loader's parameters are those of the dialog, but for a given
\* curvature, which Cooper-Nathans does not read.
LEMMA ResolutionI == RsIInv => SameResolution
<1> SUFFICES ASSUME RsIInv, SameSource
             PROVE  /\ tas.res = rd.res
                    /\ (/\ rd.status = "ok" /\ rd.fresh /\ rd.mc.hkl # <<>>
                        /\ rd.mc.hkl.opts = [angle |-> tas.angle, ub |-> tas.ub])
                         => GenerateMC(tas) = rd.mc.hkl
  BY DEF SameResolution
<1>1. /\ DialogOK(rd) /\ CalcInv(rd) /\ DerivedInv(rd) /\ TasInv
      /\ FieldsOK(rd.f)
  BY DEF RsIInv, DialogInv, DialogOK
<1>2. /\ tas.src.f = rd.f /\ tas.p.pos = rd.p.pos /\ tas.angle = rd.p.pos
      /\ rd.p.theta.d = rd.f.d /\ tas.p.curve = rd.p.curve
      /\ rd.f.focus # 2 \/ rd.f.algo = "cn"
      /\ rd.f.algo # "simple" /\ rd.closed /\ tas # <<>>
      /\ tas.calls = "plain"
  BY DEF SameSource
<1>3. /\ rd.f.pos # Open /\ rd.p = ParamsAt(rd, rd.f.pos, rd.p.curve)
      /\ rd.p.theta = [pos |-> rd.f.pos, d |-> rd.p.theta.d]
      /\ rd.res = RunAlgo(rd.f.algo, rd.p)
  BY <1>1, <1>2 DEF CalcInv
<1> DEFINE p == [TasParams(tas.src) EXCEPT !.pos = tas.p.pos,
                   !.theta = [pos |-> tas.p.pos, d |-> tas.d]]
<1>4. /\ DOMAIN rd.p = DOMAIN p /\ rd.p.pos = rd.f.pos
      /\ rd.p.coll = rd.f.coll /\ rd.p.flags = rd.f.flags
      /\ rd.p.guide = rd.f.guide /\ rd.p.size = rd.f.size
      /\ rd.p.focus = rd.f.focus /\ rd.p.curv = rd.f.curv
      /\ rd.p.vert = rd.f.vert /\ rd.p.offset = rd.f.offset
      /\ rd.p.tof = rd.f.tof /\ rd.p.sig = rd.f.sig
  <2> DEFINE o == ParamsOf(rd)
             c == rd.p.curve
  <2>1. /\ DOMAIN o = {"coll", "flags", "pos", "theta", "curve", "guide",
                       "size", "focus", "curv", "vert", "offset", "tof",
                       "sig"}
        /\ o.coll = rd.f.coll /\ o.flags = rd.f.flags
        /\ o.guide = rd.f.guide /\ o.size = rd.f.size
        /\ o.focus = rd.f.focus /\ o.curv = rd.f.curv
        /\ o.vert = rd.f.vert /\ o.offset = rd.f.offset
        /\ o.tof = rd.f.tof /\ o.sig = rd.f.sig
    BY ParamsFacts
  <2>2. rd.p = [o EXCEPT !.pos = rd.f.pos, !.curve = c]
    BY <1>3 DEF ParamsAt
  <2> HIDE DEF o, c
  <2>3. DOMAIN p = DOMAIN o
    BY <2>1, TasParamsFacts
  <2> HIDE DEF p
  <2> QED
    BY <2>1, <2>2, <2>3
<1>5. tas.angle # Open
  BY <1>2, <1>3, <1>4
<1>6. /\ tas.p = [p EXCEPT !.offset = 0] /\ tas.res = TasCalc(tas, p)
      /\ tas.algo = rd.f.algo /\ tas.d = rd.f.d
  BY <1>1, <1>2, <1>5 DEF TasInv
<1>7. /\ p.pos = rd.p.pos /\ p.theta = rd.p.theta
      /\ p.coll = rd.f.coll /\ p.flags = rd.f.flags
      /\ p.guide = rd.f.guide /\ p.size = rd.f.size
      /\ p.focus = FocusOf(rd.f.focus) /\ p.curv = rd.f.curv
      /\ p.vert = rd.f.vert /\ p.offset = rd.f.offset
      /\ p.tof = rd.f.tof /\ p.sig = rd.f.sig
  <2> DEFINE o == TasParams(tas.src)
  <2>1. /\ DOMAIN o = {"coll", "guide", "size", "focus", "curv", "vert",
                       "offset", "tof", "sig", "flags", "pos", "theta",
                       "curve"}
        /\ o.coll = rd.f.coll /\ o.flags = rd.f.flags
        /\ o.guide = rd.f.guide /\ o.size = rd.f.size
        /\ o.focus = FocusOf(rd.f.focus) /\ o.curv = rd.f.curv
        /\ o.vert = rd.f.vert /\ o.offset = rd.f.offset
        /\ o.tof = rd.f.tof /\ o.sig = rd.f.sig
    <3>1. /\ DOMAIN o = {"coll", "guide", "size", "focus", "curv", "vert",
                         "offset", "tof", "sig", "flags", "pos", "theta",
                         "curve"}
          /\ o.coll = tas.src.f.coll /\ o.flags = tas.src.f.flags
          /\ o.guide = tas.src.f.guide /\ o.size = tas.src.f.size
          /\ o.focus = FocusOf(tas.src.f.focus)
          /\ o.curv = tas.src.f.curv /\ o.vert = tas.src.f.vert
          /\ o.offset = tas.src.f.offset /\ o.tof = tas.src.f.tof
          /\ o.sig = tas.src.f.sig
      BY TasParamsFacts
    <3> HIDE DEF o
    <3> QED
      BY <1>2, <3>1
  <2>2. p = [o EXCEPT !.pos = tas.p.pos,
                      !.theta = [pos |-> tas.p.pos, d |-> tas.d]]
    OBVIOUS
  <2>3. tas.p.pos = rd.p.pos
        /\ rd.p.theta = [pos |-> tas.p.pos, d |-> tas.d]
    BY <1>2, <1>3, <1>4, <1>6
  <2> HIDE DEF o, p
  <2> QED
    BY <2>1, <2>2, <2>3
<1>8. DOMAIN p = {"coll", "guide", "size", "focus", "curv", "vert", "offset",
                  "tof", "sig", "flags", "pos", "theta", "curve"}
  BY TasParamsFacts
<1>9. p = [n \in DOMAIN p |-> p[n]] /\ rd.p = [n \in DOMAIN rd.p |-> rd.p[n]]
  <2>1. rd.p = [ParamsOf(rd) EXCEPT !.pos = rd.f.pos, !.curve = rd.p.curve]
    BY <1>3 DEF ParamsAt
  <2> QED
    BY <2>1
<1> HIDE DEF p
<1>10. p.curve = rd.p.curve
  BY <1>2, <1>6, <1>8
<1>11. RunAlgo(rd.f.algo, p) = RunAlgo(rd.f.algo, rd.p)
  <2>1. CASE rd.f.focus # 2
    <3>1. p.focus = rd.p.focus
      BY <1>1, <1>4, <1>7, <2>1 DEF FocusOf, FieldsOK
    <3>2. p = rd.p
      BY <1>4, <1>7, <1>8, <1>9, <1>10, <3>1
    <3> QED
      BY <3>2
  <2>2. CASE rd.f.algo = "cn"
    <3>1. /\ p.pos = rd.p.pos /\ p.theta = rd.p.theta /\ p.coll = rd.p.coll
          /\ p.flags = rd.p.flags /\ p.curve = rd.p.curve
      BY <1>4, <1>7, <1>10
    <3>2. CalcCn(p) = CalcCn(rd.p)
      BY <3>1 DEF CalcCn, MonoAnaRes, ChessR0, Refl, ScatterFactors
    <3> QED
      BY <2>2, <3>2 DEF RunAlgo
  <2> QED
    BY <1>2, <2>1, <2>2
<1>12. tas.res = rd.res
  BY <1>2, <1>3, <1>6, <1>11 DEF TasCalc
<1> QED
  BY <1>1, <1>12 DEF GenerateMC, DerivedInv

\* The windows draw the result.
LEMMA EllipsesI == RsIInv => EllipsesTrue
<1>1. IndicesRight
  BY IndicesI
<1> QED
  BY <1>1 DEF RsIInv, DialogInv, WindowInv, EllipsesTrue

\* After every event of the dialog, the main window, the windows or the
\* loader, the dialog, its files and the loader are in a state that the
\* inductive invariant describes.
THEOREM RsInvariance == RsSpec => []RsIInv
<1>1. RsInit => RsIInv
  BY RsInitI
<1>2. RsIInv /\ [RsNext]_rsvars => RsIInv'
  BY RsStepI
<1> QED
  BY <1>1, <1>2, PTL DEF RsSpec

\* What the dialog shows is the result of its algorithm for its fields at the
\* last position that could be used, whatever order the fields, the main
\* window and the files came in (ResoDlg.cpp:286).
THEOREM ShowsResult == RsSpec => []ResultsTrue
<1>1. RsIInv => ResultsTrue
  BY ResultsI
<1> QED
  BY <1>1, RsInvariance, PTL

\* A convolution that reads the dialog's file calculates the dialog's
\* resolution, and the same neutrons (TASReso.cpp:97, :334).
THEOREM ConvolutionAgrees == RsSpec => []SameResolution
<1>1. RsIInv => SameResolution
  BY ResolutionI
<1> QED
  BY <1>1, RsInvariance, PTL

\* The windows draw the last result, with the axes of their labels
\* (EllipseDlg.cpp:117, EllipseDlg3D.cpp:128, ellipse.h:268).
THEOREM EllipsesOfResult == RsSpec => []EllipsesTrue
<1>1. RsIInv => EllipsesTrue
  BY EllipsesI
<1> QED
  BY <1>1, RsInvariance, PTL
==============================================================================
