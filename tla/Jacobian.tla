------------------------------ MODULE Jacobian ------------------------------
(***************************************************************************)
(* Points of y^2 = x^3 + b over the field of P elements in Jacobian        *)
(* coordinates, in the two implementations of the gem: the Ruby functions  *)
(* of lib/secp256k1.rb, which return early in the exceptional cases, and   *)
(* the C functions of jacobian.c, which compute every case and select the  *)
(* result at the end.  A triple with Z = 0 is the point at infinity.       *)
(*                                                                         *)
(* Field elements are canonical here, as every value that reaches these    *)
(* functions from Point or from the ladder is; the limbs they are made of  *)
(* are the subject of other modules.                                       *)
(***************************************************************************)
EXTENDS Integers, FiniteSets

CONSTANTS
  P,  \* the field prime
  B,  \* the curve's constant: 7
  N   \* the order of the curve

ASSUME PAssumption == P \in Nat /\ P > 3
ASSUME BAssumption == B \in 1..P - 1

Field == 0..P - 1
Triples == [x : Field, y : Field, z : Field]

Jac(x, y, z) == [x |-> x, y |-> y, z |-> z]
JP_INFINITY == Jac(0, 1, 0)

fmul(a, c) == (a * c) % P
fsqr(a) == fmul(a, a)
fsub(a, c) == (a - c) % P
fneg(a) == (P - a) % P

\* P is prime: every element but zero has an inverse.
ASSUME PrimeAssumption == \A a \in Field \ {0} : \E c \in Field : fmul(a, c) = 1

-----------------------------------------------------------------------------
(* The curve itself, as the reference: affine points and the group law. *)

None == [none |-> TRUE]  \* the affine name of the point at infinity (nil)
Affine(x, y) == [ax |-> x, ay |-> y]

\* on_curve?
OnCurve(pt) == pt # None => fsqr(pt.ay) = (fmul(fsqr(pt.ax), pt.ax) + B) % P

AffinePoints ==
  {None} \cup {pt \in {Affine(x, y) : x, y \in Field} : OnCurve(pt)}

\* The order of the curve is odd: no point is its own opposite.
ASSUME OddOrderAssumption == \A x \in Field : (fmul(fsqr(x), x) + B) % P # 0

Inverses == [a \in Field \ {0} |-> CHOOSE c \in Field : fmul(a, c) = 1]

ChordTangent(pt, qt) ==
  IF pt = None THEN qt
  ELSE IF qt = None THEN pt
  ELSE IF pt.ax = qt.ax /\ pt.ay # qt.ay THEN None
  ELSE LET slope == IF pt = qt
                    THEN fmul(fmul(3, fsqr(pt.ax)), Inverses[fmul(2, pt.ay)])
                    ELSE fmul(fsub(qt.ay, pt.ay), Inverses[fsub(qt.ax, pt.ax)])
           x == fsub(fsub(fsqr(slope), pt.ax), qt.ax)
       IN  Affine(x, fsub(fmul(slope, fsub(pt.ax, x)), pt.ay))

\* The curve has N points, as CURVE_N says of secp256k1, infinity one of them.
ASSUME NAssumption == N \in Nat /\ N > 1 /\ N = Cardinality(AffinePoints)

Negated(pt) == IF pt = None THEN None ELSE Affine(pt.ax, fneg(pt.ay))

\* MultiplesOf[pt][n] is n times the point pt, and LogOf[pt] inverts it: the
\* order is prime, so every point is a multiple of every finite one.
MultiplesOf ==
  [pt \in AffinePoints \ {None} |->
    LET f[n \in 0..N - 1] == IF n = 0 THEN None ELSE ChordTangent(f[n - 1], pt) IN f]
LogOf ==
  [pt \in AffinePoints \ {None} |->
    [qt \in AffinePoints |-> CHOOSE n \in 0..N - 1 : MultiplesOf[pt][n] = qt]]

\* jp_to_affine: finv(z) is the inverse of a non-zero z.
jp_to_affine(j) ==
  IF j.z = 0 THEN None
  ELSE LET zinv == Inverses[j.z] IN
       Affine(fmul(j.x, fsqr(zinv)), fmul(j.y, fmul(fsqr(zinv), zinv)))

\* The triples of the curve's points; doubling infinity changes its Y.
FinitePoints == AffinePoints \ {None}
CurveTriples ==
  {Jac(0, y, 0) : y \in Field}
    \cup {Jac(fmul(pt.ax, fsqr(z)), fmul(pt.ay, fmul(fsqr(z), z)), z) :
            pt \in FinitePoints, z \in Field \ {0}}

-----------------------------------------------------------------------------
(* The formulas both implementations share. *)

DoubleFormula(j) ==
  LET y1sq == fsqr(j.y)
      s == fmul(4, fmul(j.x, y1sq))
      m == fmul(3, fsqr(j.x))
      x3 == fsub(fsqr(m), fmul(2, s))
      y3 == fsub(fmul(m, fsub(s, x3)), fmul(8, fsqr(y1sq)))
  IN  Jac(x3, y3, fmul(2, fmul(j.y, j.z)))

U1(j, l) == fmul(j.x, fsqr(l.z))
U2(j, l) == fmul(l.x, fsqr(j.z))
S1(j, l) == fmul(j.y, fmul(fsqr(l.z), l.z))
S2(j, l) == fmul(l.y, fmul(fsqr(j.z), j.z))
H(j, l) == fsub(U2(j, l), U1(j, l))
Rval(j, l) == fsub(S2(j, l), S1(j, l))

AddFormula(j, l) ==
  LET h == H(j, l)
      r == Rval(j, l)
      hh == fsqr(h)
      hhh == fmul(h, hh)
      v == fmul(U1(j, l), hh)
      x3 == fsub(fsub(fsqr(r), hhh), fmul(2, v))
      y3 == fsub(fmul(r, fsub(v, x3)), fmul(S1(j, l), hhh))
  IN  Jac(x3, y3, fmul(h, fmul(j.z, l.z)))

-----------------------------------------------------------------------------
(* lib/secp256k1.rb *)

jp_double(j) == IF j.y = 0 THEN JP_INFINITY ELSE DoubleFormula(j)

\* Mutant: equal points are not told from opposite ones.
jp_addWithoutDouble(j, l) ==
  IF j.z = 0 THEN l
  ELSE IF l.z = 0 THEN j
  ELSE IF H(j, l) = 0 THEN JP_INFINITY
  ELSE AddFormula(j, l)

jp_add(j, l) ==
  IF j.z = 0 THEN l
  ELSE IF l.z = 0 THEN j
  ELSE IF H(j, l) = 0
       THEN IF Rval(j, l) = 0 THEN jp_double(j) ELSE JP_INFINITY
  ELSE AddFormula(j, l)

jp_neg(j) == IF j.z = 0 THEN j ELSE Jac(j.x, fneg(j.y), j.z)

-----------------------------------------------------------------------------
(* ext/secp256k1_native/jacobian.c *)

\* uint256_select on the three coordinates: flag chooses the second operand.
Select(a, c, flag) == IF flag THEN c ELSE a

jp_double_internal(j) == Select(DoubleFormula(j), JP_INFINITY, j.y = 0)

\* Mutant: the selection of the double is forgotten.
jp_add_internalWithoutDouble(j, l) ==
  LET r1 == Select(AddFormula(j, l), JP_INFINITY,
                   H(j, l) = 0 /\ Rval(j, l) # 0)
      r2 == Select(r1, j, l.z = 0)
  IN  Select(r2, l, j.z = 0)

\* Mutant: the operands at infinity are selected before the exceptional sums.
jp_add_internalReordered(j, l) ==
  LET r1 == Select(AddFormula(j, l), j, l.z = 0)
      r2 == Select(r1, l, j.z = 0)
      r3 == Select(r2, jp_double_internal(j), H(j, l) = 0 /\ Rval(j, l) = 0)
  IN  Select(r3, JP_INFINITY, H(j, l) = 0 /\ Rval(j, l) # 0)

jp_add_internal(j, l) ==
  LET r1 == Select(AddFormula(j, l), jp_double_internal(j),
                   H(j, l) = 0 /\ Rval(j, l) = 0)
      r2 == Select(r1, JP_INFINITY, H(j, l) = 0 /\ Rval(j, l) # 0)
      r3 == Select(r2, j, l.z = 0)
  IN  Select(r3, l, j.z = 0)

jp_neg_internal(j) == Jac(j.x, fneg(j.y), j.z)

=============================================================================
