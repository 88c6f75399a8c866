------------------------------- MODULE ResoCalc -------------------------------
(***************************************************************************)
(* The resolution calculations (tools/res/): Cooper-Nathans (cn.cpp),      *)
(* Popovici (pop.cpp), Eckold-Sobolev (eck.cpp), Violini for               *)
(* time-of-flight (viol.cpp), the simple one (simple.cpp), and the         *)
(* ellipses that are cut out of their result (ellipse.h, helper.h, mc.h).  *)
(*                                                                         *)
(* What is kept of a calculation is which parameters its result depends    *)
(* on, and when it has none: a value of 0 stands for one that is divided   *)
(* by.  The parameters p have the fields                                   *)
(*   pos     ki, kf, Q, E and the angles of the scattering triangle        *)
(*   theta   the monochromator's and analyser's angles                     *)
(*   coll, guide, size, focus, curv, vert, offset                          *)
(*           collimators, guide (0: none), lengths and distances, whether  *)
(*           the crystals are curved, their radius, vertical mosaics, and  *)
(*           the sample's offset                                           *)
(*   tof, sig   those of the time-of-flight and simple algorithms          *)
(*   flags   factors to include                                            *)
(*   curve   reflectivity curve: <<directory, name>>, <<"bad">>, or <<>>   *)
(***************************************************************************)
EXTENDS Integers, Sequences, SequencesExt

CONSTANTS
  Singular,  \* positions with parallel ki and kf
  NoReso     \* no resolution

Failed == [ok |-> FALSE, reso |-> NoReso, r0 |-> NoReso]
Resolved(reso, r0) == [ok |-> TRUE, reso |-> reso, r0 |-> r0]

-----------------------------------------------------------------------------
(* Parts that several algorithms share.                                    *)

\* get_trafo_dkidkf_dQdE, and whether the matrix has an inverse.
Trafo(pos) == [pos |-> pos]
HasInverse(pos) == pos \notin Singular

\* ReflCurve(k): a curve that could not be loaded reflects everything.
Reflectivity(curve, pos) == IF curve = <<"bad">> THEN <<>> ELSE <<curve, pos>>

\* get_scatter_factors
ScatterFactors(p) ==
  [mono |-> IF "ki3" \in p.flags THEN <<p.pos, p.theta>> ELSE <<>>,
   ana |-> IF "kf3" \in p.flags THEN <<p.pos, p.theta>> ELSE <<>>,
   xsec |-> IF "kfki" \in p.flags THEN <<p.pos>> ELSE <<>>]

\* The reflectivities and factors that enter R0; <<>> counts as 1.
Refl(p) ==
  <<ScatterFactors(p),
    IF p.curve = <<>> THEN <<>> ELSE Reflectivity(p.curve, p.pos)>>

\* chess_R0
ChessR0(p) == <<"chess", p.pos, p.theta, p.coll, Refl(p)>>

\* The divergence in front of the monochromator: of the guide, if there is one.
Collimation(p) == [coll |-> p.coll,
                   pre |-> IF p.guide # 0 THEN <<p.guide, p.pos>> ELSE <<p.coll>>]

\* The inverse radii: flat (0), optimal (1) or given (2) curvature.
Curvature(p) == CASE p.focus = 0 -> <<>>
                  [] p.focus = 1 -> <<"optimal", p.size, p.theta>>
                  [] p.focus = 2 -> <<"given", p.curv>>

-----------------------------------------------------------------------------
(* Cooper-Nathans.                                                         *)

\* calc_mono_ana_res: the horizontal matrix and the vertical term.
MonoAnaRes(p) == [theta |-> p.theta, pos |-> p.pos, coll |-> p.coll]

\* calc_cn, which knows neither the guide nor lengths nor curvatures.
CalcCn(p) ==
  IF ~HasInverse(p.pos) \/ p.coll = 0 THEN Failed
  ELSE Resolved([trafo |-> Trafo(p.pos), arms |-> MonoAnaRes(p)],
              ChessR0(p))

-----------------------------------------------------------------------------
(* Popovici.                                                               *)

\* The covariances of the collimators, crystals and components, and the
\* matrices that map them to the angles.
PopMosaics(p) == [pos |-> p.pos, theta |-> p.theta]
PopSizes(p) == p.size
PopGeometry(p) == [size |-> p.size, theta |-> p.theta, curv |-> Curvature(p)]

\* R0 is only calculated if it is asked for.
PopR0(p) == IF "r0" \notin p.flags THEN <<>>
                  ELSE <<"pop", Collimation(p), PopGeometry(p), Refl(p)>>

\* calc_pop
CalcPop(p) ==
  IF PopSizes(p) = 0 \/ p.coll = 0 \/ (p.focus = 2 /\ p.curv = 0)
  THEN Failed
  ELSE Resolved([trafo |-> Trafo(p.pos), coll |-> Collimation(p),
               mos |-> PopMosaics(p), geo |-> PopGeometry(p)],
              PopR0(p))

-----------------------------------------------------------------------------
(* Eckold-Sobolev.                                                         *)

\* get_mono_vals, also used for the analyser
MonoVals(p) == [size |-> p.size, theta |-> p.theta, pos |-> p.pos,
                coll |-> Collimation(p), vert |-> p.vert,
                curv |-> Curvature(p), offset |-> p.offset]

\* Which of two prefactors is used.
EckR0(p) ==
  <<IF "general" \in p.flags THEN "mitch" ELSE "eck", MonoVals(p),
    Refl(p)>>

\* calc_eck
CalcEck(p) ==
  IF p.size = 0 \/ p.coll = 0 \/ p.vert = 0 \/ (p.focus = 2 /\ p.curv = 0)
  THEN Failed
  ELSE Resolved([trafo |-> Trafo(p.pos), arms |-> MonoVals(p)], EckR0(p))

-----------------------------------------------------------------------------
(* Time of flight, and the simple one.                                     *)

\* The derivatives of Q and E by the lengths, times and angles.
Derivs(p) == [pos |-> p.pos, tof |-> p.tof]

\* calc_viol, without R0
CalcViol(p) == IF p.tof = 0 THEN Failed
               ELSE Resolved([jacobi |-> Derivs(p), pos |-> p.pos], <<>>)

\* calc_simplereso, without R0
CalcSimple(p) == IF p.sig = 0 THEN Failed
                 ELSE Resolved([sig |-> p.sig, pos |-> p.pos], <<>>)

-----------------------------------------------------------------------------
(* Ellipses.  A matrix is the sequence of its axes, each with the axes     *)
(* that were integrated over; indices start at 0, and -1 is "none".        *)

\* QuadEllipsoid::RemoveElems
RemoveElems(quad, i) == RemoveAt(quad, i + 1)

\* ellipsoid_gauss_int, elli_gauss_int: the axis' correlations stay.
GaussInt(quad, i) ==
  [j \in 1 .. Len(quad) - 1 |->
     LET a == RemoveElems(quad, i)[j]
     IN [a EXCEPT !.int = @ \union {quad[i + 1].axis}]]

\* Index of an axis once axis rem was removed.
\* Mutant: an index that is equal to the removed one is not shifted.
ShiftAbove(i, rem) == IF i > rem + 1 THEN i - 1 ELSE i
Shift(i, rem) == IF i >= rem THEN i - 1 ELSE i

\* calc_res_ellipse: what is drawn, over which axes.
CalcEllipse(quad0, ix0, iy0, int0, rem1, rem20) ==
  LET quad1 == IF rem1 < 0 THEN quad0 ELSE RemoveElems(quad0, rem1)
      s1(i) == IF rem1 < 0 THEN i ELSE Shift(i, rem1)
      rem2 == s1(rem20)
      quad2 == IF rem2 < 0 THEN quad1 ELSE RemoveElems(quad1, rem2)
      s2(i) == IF rem2 < 0 THEN s1(i) ELSE Shift(s1(i), rem2)
      int == s2(int0)
      quad3 == IF int < 0 THEN quad2 ELSE GaussInt(quad2, int)
      s3(i) == IF int < 0 THEN s2(i) ELSE Shift(s2(i), int)
  IN [quad |-> quad3, offs |-> <<quad3[s3(ix0) + 1].axis,
                                 quad3[s3(iy0) + 1].axis>>]

\* calc_res_ellipsoid
CalcEllipsoid3(quad0, ix0, iy0, iz0, int0, rem) ==
  LET quad1 == IF rem < 0 THEN quad0 ELSE RemoveElems(quad0, rem)
      s1(i) == IF rem < 0 THEN i ELSE Shift(i, rem)
      int == s1(int0)
      quad2 == IF int < 0 THEN quad1 ELSE GaussInt(quad1, int)
      s2(i) == IF int < 0 THEN s1(i) ELSE Shift(s1(i), int)
  IN [quad |-> quad2,
      offs |-> [k \in 1 .. 3 |-> quad2[s2(<<ix0, iy0, iz0>>[k]) + 1].axis]]

\* calc_res_ellipsoid4d: the principal axes and the centre of a result.
CalcEllipsoid4(res) == [reso |-> res.reso]

\* conv_lab_to_rlu, conv_lab_to_rlu_orient
LabToRlu(angle, ub, reso) == [angle |-> angle, ub |-> ub, reso |-> reso]
LabToOrient(angle, ub, reso) ==
  [orient |-> LabToRlu(angle, ub, reso), plane |-> ub]

\* mc_neutrons
McNeutrons(ell, coord, opts) ==
  [ell |-> ell, coord |-> coord, opts |-> opts]

\* calc_bragg_fwhms, calc_vanadium_fwhms
BraggFwhms(reso) == [widths |-> reso]
VanadiumFwhms(quad) == CalcEllipse(quad, 0, 3, 1, 2, -1)
==============================================================================
