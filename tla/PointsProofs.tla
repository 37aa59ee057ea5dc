---------------------------- MODULE PointsProofs ----------------------------
(***************************************************************************)
(* What a program may rely on of the backend flags, for every curve, every *)
(* extension and every program: native? tells the truth, and the ladder in *)
(* Ruby runs only for those who have allowed it.  And of the functions     *)
(* behind Point: the two backends make the same triples, decoding is the   *)
(* inverse of encoding, and every answer is the group's.                   *)
(***************************************************************************)
EXTENDS Points, JacobianProofs, TLAPS

MethodCount == 4

\* The methods of the list, in its order.
LEMMA MethodsFacts ==
  /\ Len(Methods) = MethodCount
  /\ DOMAIN Methods = 1..MethodCount
  /\ \A n \in 1..MethodCount : Methods[n] \in Range(Methods)
  /\ \A m \in Range(Methods) : \E n \in 1..MethodCount : m = Methods[n]
  /\ "scalar_multiply_ct" \in Range(Methods)
<1>1. Len(Methods) = MethodCount /\ DOMAIN Methods = 1..MethodCount
  BY DEF Methods, MethodCount
<1>2. Methods[4] = "scalar_multiply_ct" /\ 4 \in 1..MethodCount
  BY DEF Methods, MethodCount
<1>3. QED  BY <1>1, <1>2 DEF Range

LoaderTyping ==
  /\ loader \in [at : {"replacing", "ready", "failed", "defining"}, next : Nat]
  /\ replaced \subseteq Range(Methods)
  /\ native \in BOOLEAN

\* The loader has replaced what lies before it in the list.
ReplacedSoFar ==
  loader.at = "replacing" =>
    /\ loader.next \in 1..(MethodCount + 1)
    /\ \A n \in 1..MethodCount : n < loader.next => Methods[n] \in replaced

\* Once the flag is set the loader has nothing left to do.
NativeIsFinal == native => loader.at = "ready"

LoaderInv == LoaderTyping /\ ReplacedSoFar /\ NativeIsFinal /\ NativeMeansAll

\* It holds when the file is first required.
LEMMA LoaderStarts == LoaderInit => LoaderInv
<1> SUFFICES ASSUME LoaderInit PROVE LoaderInv
  OBVIOUS
<1>1. loader = [at |-> "replacing", next |-> 1] /\ replaced = {} /\ native = FALSE
  BY DEF LoaderInit, At
<1>2. loader.at = "replacing" /\ loader.next = 1
  BY <1>1
<1>3. LoaderTyping
  BY <1>1 DEF LoaderTyping
<1>4. ReplacedSoFar
  BY <1>2 DEF ReplacedSoFar, MethodCount
<1>5. NativeIsFinal /\ NativeMeansAll
  BY <1>1 DEF NativeIsFinal, NativeMeansAll
<1>6. QED  BY <1>3, <1>4, <1>5 DEF LoaderInv

\* Each step of the loader keeps it, and so does the program that allows the
\* Ruby ladder; none of them takes the flag back.
LEMMA LoaderStep ==
  ASSUME LoaderInv, Require \/ allow_pure_ruby_ct \/ UNCHANGED backend
  PROVE  LoaderInv' /\ (native => native')
<1> USE DEF LoaderInv, LoaderTyping, ReplacedSoFar, NativeIsFinal, NativeMeansAll, MethodCount
<1>1. CASE NoExtension
  BY <1>1 DEF NoExtension, At
<1>2. CASE Replace
  <2>1. /\ loader.at = "replacing" /\ loader.next \in 1..MethodCount
        /\ replaced' = replaced \cup {Methods[loader.next]}
        /\ loader' = [loader EXCEPT !.next = @ + 1]
        /\ native' = native
    BY <1>2, MethodsFacts DEF Replace
  <2>2. native = FALSE
    BY <2>1
  <2>3. LoaderTyping'
    BY <2>1, MethodsFacts
  <2>4. ReplacedSoFar'
    BY <2>1
  <2>5. QED  BY <2>1, <2>2, <2>3, <2>4
<1>3. CASE MethodMissing
  BY <1>3 DEF MethodMissing, At
<1>4. CASE MarkNative
  <2>1. /\ loader.at = "replacing" /\ loader.next = MethodCount + 1
        /\ native' = TRUE /\ replaced' = replaced
        /\ loader' = [at |-> "ready", next |-> 0]
    BY <1>4, MethodsFacts DEF MarkNative, At
  <2>2. \A n \in 1..MethodCount : Methods[n] \in replaced
    BY <2>1
  <2>3. replaced = Range(Methods)
    BY <2>2, MethodsFacts
  <2>4. QED  BY <2>1, <2>3
<1>5. CASE RequireAgain \/ ResetAllowed
  <2>1. CASE RequireAgain
    BY <2>1 DEF RequireAgain, At
  <2>2. CASE ResetAllowed
    BY <2>2 DEF ResetAllowed, At
  <2>3. QED  BY <1>5, <2>1, <2>2
<1>6. CASE Define
  <2>1. /\ loader.at = "defining" /\ native' = native
        /\ replaced' \subseteq replaced
        /\ \/ loader' = [at |-> "replacing", next |-> 1]
           \/ loader' = [loader EXCEPT !.next = @ + 1]
    BY <1>6 DEF Define, At
  <2>2. native = FALSE
    BY <2>1
  <2>3. QED  BY <2>1, <2>2
<1>7. CASE allow_pure_ruby_ct
  BY <1>7 DEF allow_pure_ruby_ct
<1>8. CASE UNCHANGED backend
  BY <1>8 DEF backend
<1>9. QED  BY <1>1, <1>2, <1>3, <1>4, <1>5, <1>6, <1>7, <1>8 DEF Require

-----------------------------------------------------------------------------
\* The guard of mul still holds when the ladder is called.
GuardHolds ==
  /\ call.op = "mul" => native \/ call.asked
  /\ LadderIsGuarded

IInv == LoaderInv /\ GuardHolds

\* Every step keeps the loader's invariant and the promise made at the guard.
THEOREM PointsInvariant == Spec => []IInv
<1>1. Init => IInv
  <2> SUFFICES ASSUME Init PROVE IInv
    OBVIOUS
  <2>1. LoaderInv
    BY LoaderStarts DEF Init
  <2>2. call = [op |-> "none"]
    BY DEF Init
  <2>3. GuardHolds
    BY <2>2 DEF GuardHolds, LadderIsGuarded
  <2>4. QED  BY <2>1, <2>3 DEF IInv
<1>2. IInv /\ [Next]_vars => IInv'
  <2> SUFFICES ASSUME IInv, [Next]_vars PROVE IInv'
    OBVIOUS
  <2>1. LoaderInv /\ GuardHolds
    BY DEF IInv
  <2>2. LoaderInv' /\ (native => native')
    <3>1. Require \/ allow_pure_ruby_ct \/ UNCHANGED backend
      BY DEF Next, vars, Program, FromBytes, FromCoordinates, Obtain, Keep, TakeTriples,
             CallDouble, CallAdd, CallNeg, Raw, TakeAffine, PointAdd, PointNegate, PointMul,
             MulRefused, PointMulVt, Multiply, Answer, Ladder, scalar_multiply_wnaf, Finish
    <3>2. QED  BY <2>1, <3>1, LoaderStep
  <2>3. GuardHolds'
    <3>1. CASE UNCHANGED call
      BY <2>1, <2>2, <3>1 DEF GuardHolds, LadderIsGuarded
    <3>2. CASE call'.op # "mul" /\ (call'.op # "computed" \/ "guarded" \notin DOMAIN call')
      BY <3>2 DEF GuardHolds, LadderIsGuarded
    <3>3. CASE PointMul
      <4>1. PICK k \in Scalars : Multiply("mul", k)
        BY <3>3 DEF PointMul
      <4>2. native \/ allowed \/ env
        BY <3>3 DEF PointMul
      <4>3. CASE call' = [op |-> "answered", expected |-> Times(k, held)]
        BY <4>3 DEF GuardHolds, LadderIsGuarded
      <4>4. CASE call' = [op |-> "mul", k |-> Normalised(k), expected |-> Times(k, held),
                          asked |-> allowed \/ env]
        <5>1. call'.op = "mul" /\ call'.asked = (allowed \/ env)
          BY <4>4
        <5>2. QED  BY <2>2, <4>2, <5>1 DEF GuardHolds, LadderIsGuarded
      <4>5. QED  BY <4>1, <4>3, <4>4 DEF Multiply, Answer
    <3>4. CASE Ladder
      <4> DEFINE inC == "scalar_multiply_ct" \in replaced
      <4>1. call.op = "mul" /\ (inC \/ call.asked)
        BY <2>1, <3>4, MethodsFacts DEF Ladder, GuardHolds, LoaderInv, NativeMeansAll
      <4>2. CASE call' = [op |-> "raised"]
        BY <4>2 DEF GuardHolds, LadderIsGuarded
      <4>3. CASE call' = [op |-> "computed", expected |-> call.expected,
                          guarded |-> inC \/ call.asked]
        <5>1. call'.op = "computed" /\ call'.guarded = (inC \/ call.asked)
          BY <4>3
        <5>2. QED  BY <4>1, <5>1 DEF GuardHolds, LadderIsGuarded
      <4>4. QED  BY <3>4, <4>2, <4>3 DEF Ladder
    <3>5. CASE TakeTriples
      BY <3>2, <3>5 DEF TakeTriples
    <3>6. CASE TakeAffine
      BY <3>2, <3>6 DEF TakeAffine
    <3>7. CASE MulRefused
      BY <3>2, <3>7 DEF MulRefused
    <3>8. CASE FromBytes \/ FromCoordinates
      <4>1. call'.op \in {"decoded", "constructed"}
        BY <3>8 DEF FromBytes, FromCoordinates
      <4>2. QED  BY <3>2, <4>1
    <3>9. CASE Keep
      BY <3>1, <3>2, <3>9 DEF Keep
    <3>10. CASE CallDouble \/ CallAdd \/ CallNeg
      BY <3>1, <3>10 DEF CallDouble, CallAdd, CallNeg, Raw
    <3>11. CASE PointAdd
      BY <3>2, <3>11 DEF PointAdd, Answer
    <3>12. CASE PointNegate
      BY <3>2, <3>12 DEF PointNegate, Answer
    <3>13. CASE PointMulVt
      BY <3>2, <3>13 DEF PointMulVt, Multiply, Answer
    <3>14. CASE scalar_multiply_wnaf
      BY <3>2, <3>14 DEF scalar_multiply_wnaf
    <3>15. CASE Finish
      BY <3>2, <3>15 DEF Finish, Answer
    <3>16. CASE UNCHANGED vars
      BY <3>1, <3>16 DEF vars
    <3>17. QED
      BY <3>1, <3>3, <3>4, <3>5, <3>6, <3>7, <3>8, <3>9, <3>10, <3>11, <3>12, <3>13,
         <3>14, <3>15, <3>16 DEF Next, Program
  <2>4. QED  BY <2>2, <2>3 DEF IInv
<1>3. QED  BY <1>1, <1>2, PTL DEF Spec

-----------------------------------------------------------------------------
\* When native? says so, no method is left in Ruby: lib/secp256k1.rb sets the
\* flag after the last replacement, and no load that failed has set it.
THEOREM NativeTellsTheTruth == Spec => []NativeMeansAll
<1>1. IInv => NativeMeansAll
  BY DEF IInv, LoaderInv
<1>2. QED  BY <1>1, PointsInvariant, PTL

\* Point#mul runs the ladder in Ruby only for a program that has allowed it,
\* though it asks before it calls and the loader may be at work in between.
THEOREM LadderNeverUnguarded == Spec => []LadderIsGuarded
<1>1. IInv => LadderIsGuarded
  BY DEF IInv, GuardHolds
<1>2. QED  BY <1>1, PointsInvariant, PTL

-----------------------------------------------------------------------------
(* The two backends *)

\* The comment of jp_double_internal ("matches Ruby's jp_double exactly") and
\* what it implies for jp_add, for the triples of every program.
THEOREM BackendsAgree == Spec => []SameTriples
<1>1. SameTriples
  BY SelectionsAreEarlyReturns DEF SameTriples
<1>2. QED  BY <1>1, PTL

\* Wherever the Ruby functions compute the group law, so do the C functions:
\* also jp_neg_internal, which differs from jp_neg at infinity only.
THEOREM NativeIsRightWhereRubyIs == Spec => [](RubyIsGroupLaw => NativeIsGroupLaw)
<1>1. jp_to_affine(jp_neg_internal(held)) = jp_to_affine(jp_neg(held))
  <2>1. CASE held.z = 0
    <3>1. jp_neg_internal(held).z = 0 /\ jp_neg(held).z = 0
      BY <2>1 DEF jp_neg_internal, jp_neg, Jac
    <3>2. QED  BY <3>1 DEF jp_to_affine
  <2>2. CASE held.z # 0
    BY <2>2 DEF jp_neg_internal, jp_neg
  <2>3. QED  BY <2>1, <2>2
<1>2. RubyIsGroupLaw => NativeIsGroupLaw
  BY <1>1, SelectionsAreEarlyReturns DEF RubyIsGroupLaw, NativeIsGroupLaw, IsGroupLaw
<1>3. QED  BY <1>2, PTL

-----------------------------------------------------------------------------
(* Decoding *)

\* The coordinates of points, of their encodings and of byte strings.
LEMMA RecordFacts ==
  /\ \A x, y : Affine(x, y) # None /\ Affine(x, y).ax = x /\ Affine(x, y).ay = y
  /\ \A n, f, x, y : /\ Bytes(n, f, x, y).length = n /\ Bytes(n, f, x, y).prefix = f
                     /\ Bytes(n, f, x, y).x = x /\ Bytes(n, f, x, y).y = y
BY DEF Affine, None, Bytes

\* A finite point has canonical coordinates that satisfy the equation.
LEMMA FinitePointFacts ==
  ASSUME NEW pt \in AffinePoints \ {None}
  PROVE  \E x, y \in Field : /\ pt = Affine(x, y)
                             /\ fsqr(y) = (fmul(fsqr(x), x) + B) % P
<1>1. PICK x \in Field, y \in Field : pt = Affine(x, y) /\ OnCurve(pt)
  BY DEF AffinePoints
<1>2. fsqr(y) = (fmul(fsqr(x), x) + B) % P
  BY <1>1, RecordFacts DEF OnCurve
<1>3. QED  BY <1>1, <1>2

\* Field operations stay in the field.
LEMMA FieldFacts ==
  /\ \A a, c \in Int : fmul(a, c) \in Field
  /\ \A a \in Int : fsqr(a) \in Field
  /\ \A x \in Field : (fmul(fsqr(x), x) + B) % P \in Field
  /\ fsqr(0) = 0
<1> USE PAssumption, BAssumption
<1>1. \A m \in Int : m % P \in Field
  BY DEF Field
<1>2. \A a, c \in Int : a * c \in Int
  OBVIOUS
<1>3. \A a, c \in Int : fmul(a, c) \in Field
  BY <1>1, <1>2 DEF fmul
<1>4. \A a \in Field : a \in Int
  BY DEF Field
<1>5. 0 * 0 = 0 /\ 0 % P = 0
  OBVIOUS
<1>6. \A a \in Int : fsqr(a) \in Field
  BY <1>3 DEF fsqr
<1>7. ASSUME NEW x \in Field PROVE (fmul(fsqr(x), x) + B) % P \in Field
  <2>1. fmul(fsqr(x), x) \in Int
    BY <1>3, <1>4, <1>6
  <2>2. QED  BY <1>1, <2>1
<1>8. QED  BY <1>3, <1>5, <1>6, <1>7 DEF fsqr, fmul

\* Negation gives a non-zero root the other parity, as the prime is odd.
LEMMA ParityFacts ==
  ASSUME NEW r \in Field \ {0}, NEW prefix \in {2, 3}
  PROVE  /\ OfParity(r, prefix) \in Field \ {0}
         /\ (IF OfParity(r, prefix) % 2 = 1 THEN 3 ELSE 2) = prefix
<1> USE PAssumption, RootsAssumption
<1>1. PICK d \in Nat : P = 4 * d + 3
  BY DivMod
<1>2. r \in 1..P - 1
  BY DEF Field
<1>3. P - r \in 1..P - 1
  BY <1>2
<1>4. fneg(r) = P - r
  BY <1>3 DEF fneg
<1>5. PICK h \in Nat, b \in {0, 1} : r = 2 * h + b /\ r % 2 = b
  <2>1. r \in Nat /\ 0..2 - 1 = {0, 1}
    BY <1>2
  <2>2. QED  BY <2>1, DivMod
<1>6. fneg(r) = 2 * (2 * d + 1 - h) + (1 - b) /\ 2 * d + 1 - h \in Int
  BY <1>1, <1>4, <1>5
<1>7. fneg(r) % 2 = 1 - b
  BY <1>5, <1>6
<1>8. fneg(r) \in Field \ {0} 
  BY <1>3, <1>4 DEF Field
<1>9. QED  BY <1>5, <1>7, <1>8 DEF OfParity

\* A record of coordinates is a point if they are canonical and satisfy the
\* equation, and no other is.
LEMMA PointOfCoordinates ==
  ASSUME NEW x, NEW y
  PROVE  /\ Affine(x, y) \in AffinePoints
              <=> x \in Field /\ y \in Field /\ OnCurve(Affine(x, y))
         /\ Affine(x, y) \in AffinePoints => Affine(x, y) # Refused
<1>1. ASSUME Affine(x, y) \in AffinePoints
      PROVE  x \in Field /\ y \in Field /\ OnCurve(Affine(x, y))
  <2>1. PICK u \in Field, v \in Field : Affine(x, y) = Affine(u, v) /\ OnCurve(Affine(u, v))
    BY <1>1, RecordFacts DEF AffinePoints
  <2>2. x = u /\ y = v
    BY <2>1, RecordFacts
  <2>3. QED  BY <2>1, <2>2
<1>2. ASSUME x \in Field, y \in Field, OnCurve(Affine(x, y))
      PROVE  Affine(x, y) \in AffinePoints
  BY <1>2 DEF AffinePoints
<1>3. QED  BY <1>1, <1>2, RefusedAssumption

\* What DecodesExactly asks of one answer to a byte string, ...
RightAnswer(b, pt) ==
  IF pt = Refused
  THEN \A qt \in AffinePoints \ {None}, form \in Forms : to_octet_string(qt, form) # b
  ELSE /\ pt \in AffinePoints \ {None}
       /\ \E form \in Forms : to_octet_string(pt, form) = b

\* ... and to a pair of coordinates.
RightPoint(x, y, pt) ==
  IF pt = Refused
  THEN Affine(x, y) \notin AffinePoints
  ELSE pt = Affine(x, y) /\ pt \in AffinePoints

LEMMA CoordinatesRight ==
  ASSUME NEW x, NEW y
  PROVE  RightPoint(x, y, from_coordinates(x, y))
<1> DEFINE pt == from_coordinates(x, y)
<1>1. CASE x \in Field /\ y \in Field
  <2>1. New(x, y) = Affine(x, y) /\ Affine(x, y) # Refused
    BY <1>1, NilAssumption, RefusedAssumption DEF New
  <2>2. pt = IF OnCurve(Affine(x, y)) THEN Affine(x, y) ELSE Refused
    BY <1>1, <2>1, NilAssumption DEF from_coordinates
  <2> HIDE DEF pt
  <2>3. QED  BY <1>1, <2>1, <2>2, PointOfCoordinates DEF RightPoint, pt
<1>2. CASE ~(x \in Field /\ y \in Field)
  <2>1. pt = Refused
    BY <1>2 DEF from_coordinates, New
  <2> HIDE DEF pt
  <2>2. QED  BY <1>2, <2>1, PointOfCoordinates DEF RightPoint, pt
<1>3. QED  BY <1>1, <1>2

LEMMA UncompressedRight ==
  ASSUME NEW x \in Nat, NEW y \in Nat
  PROVE  RightAnswer(Bytes(65, 4, x, y), uncompressed(x, y))
<1> DEFINE b == Bytes(65, 4, x, y)
           pt == uncompressed(x, y)
<1>0. (x < P <=> x \in Field) /\ (y < P <=> y \in Field)
  BY PAssumption DEF Field
<1>1. CASE x \in Field /\ y \in Field /\ OnCurve(Affine(x, y))
  <2>1. New(x, y) = Affine(x, y)
    BY <1>1, NilAssumption DEF New
  <2>2. pt = Affine(x, y) /\ pt \in AffinePoints /\ pt # Refused /\ pt # None
    <3>1. ~(x >= P) /\ ~(y >= P)
      BY <1>0, <1>1, PAssumption DEF Field
    <3>2. pt = Affine(x, y)
      BY <1>1, <2>1, <3>1 DEF uncompressed
    <3> HIDE DEF pt
    <3>3. QED  BY <1>1, <3>2, PointOfCoordinates, RecordFacts
  <2> HIDE DEF pt
  <2>3. to_octet_string(pt, "uncompressed") = b
    BY <2>2, RecordFacts DEF to_octet_string
  <2>4. RightAnswer(b, pt)
    BY <2>2, <2>3 DEF RightAnswer, Forms
  <2>5. QED  BY <2>2, <2>4 DEF pt
<1>2. CASE ~(x \in Field /\ y \in Field /\ OnCurve(Affine(x, y)))
  <2>1. pt = Refused
    <3>1. CASE ~(x \in Field /\ y \in Field)
      <4>1. x >= P \/ y >= P
        BY <1>0, <3>1, PAssumption
      <4>2. QED  BY <4>1 DEF uncompressed
    <3>2. CASE x \in Field /\ y \in Field /\ ~OnCurve(Affine(x, y))
      <4>1. New(x, y) = Affine(x, y)
        BY <3>2, NilAssumption DEF New
      <4>2. QED  BY <3>2, <4>1 DEF uncompressed
    <3>3. QED  BY <1>2, <3>1, <3>2
  <2>2. ASSUME NEW qt \in AffinePoints \ {None}, NEW form \in Forms,
               to_octet_string(qt, form) = b
        PROVE  FALSE
    <3>1. PICK x1 \in Field, y1 \in Field :
            /\ qt = Affine(x1, y1)
            /\ fsqr(y1) = (fmul(fsqr(x1), x1) + B) % P
      BY FinitePointFacts
    <3>2. b = Bytes(65, 4, x1, y1)
      BY <2>2, <3>1, RecordFacts DEF to_octet_string, Forms
    <3>3. x = x1 /\ y = y1
      BY <3>2, RecordFacts
    <3>4. OnCurve(Affine(x, y))
      BY <3>1, <3>3, RecordFacts DEF OnCurve
    <3>5. QED  BY <1>2, <3>3, <3>4
  <2> HIDE DEF pt, b
  <2>3. QED  BY <2>1, <2>2 DEF RightAnswer, pt, b
<1>3. QED  BY <1>1, <1>2

\* The prime field's canonical representatives are what Point.new takes.
LEMMA NewFacts ==
  ASSUME NEW x \in Field, NEW y \in Field
  PROVE  New(x, y) = Affine(x, y)
BY NilAssumption DEF New

LEMMA CompressedRight ==
  ASSUME NEW x \in Nat, NEW prefix \in {2, 3}
  PROVE  RightAnswer(Bytes(33, prefix, x, 0), decompress(x, prefix))
<1> DEFINE b == Bytes(33, prefix, x, 0)
           pt == decompress(x, prefix)
           a == (fmul(fsqr(x), x) + B) % P
           roots == fsqrt(a)
\* A string that is refused encodes no point, if there is none at its x.
<1>1. ASSUME pt = Refused, x \notin Field \/ \A y \in Field : fsqr(y) # a
      PROVE  RightAnswer(b, pt)
  <2>1. ASSUME NEW qt \in AffinePoints \ {None}, NEW form \in Forms,
               to_octet_string(qt, form) = b
        PROVE  FALSE
    <3>1. PICK x1 \in Field, y1 \in Field :
            /\ qt = Affine(x1, y1)
            /\ fsqr(y1) = (fmul(fsqr(x1), x1) + B) % P
      BY FinitePointFacts
    <3>2. b.length = 33 /\ b.x = x
      BY RecordFacts
    <3>3. form = "compressed"
      BY <2>1, <3>2, RecordFacts DEF to_octet_string, Forms
    <3>4. x = x1
      BY <2>1, <3>1, <3>2, <3>3, RecordFacts DEF to_octet_string
    <3>5. QED  BY <1>1, <3>1, <3>4
  <2>2. QED  BY <1>1, <2>1 DEF RightAnswer
<1>2. CASE x >= P
  <2>1. pt = Refused
    BY <1>2 DEF decompress
  <2>2. x \notin Field
    BY <1>2, PAssumption DEF Field
  <2>3. QED  BY <1>1, <2>1, <2>2
<1>3. CASE ~(x >= P) /\ roots = {}
  <2>1. pt = Refused
    BY <1>3 DEF decompress
  <2>2. x \in Field
    BY <1>3, PAssumption DEF Field
  <2>3. a \in Field
    BY <2>2, FieldFacts
  <2>4. \A y \in Field : fsqr(y) # a
    BY <1>3, <2>3, SquareRootsAssumption
  <2>5. QED  BY <1>1, <2>1, <2>4
<1>4. CASE ~(x >= P) /\ roots # {}
  <2> DEFINE r == CHOOSE y \in roots : TRUE
             s == OfParity(r, prefix)
  <2>1. x \in Field
    BY <1>4, PAssumption DEF Field
  <2>2. a \in Field /\ a # 0
    BY <2>1, FieldFacts, OddOrderAssumption
  <2>3. r \in roots
    BY <1>4
  <2>4. r \in Field
    BY <2>2, <2>3, SquareRootsAssumption
  <2>5. \A y : y \in fsqrt(a) => fsqr(y) = a
    <3> HIDE DEF a
    <3>1. QED  BY DEF fsqrt
  <2>6. r # 0
    BY <2>2, <2>3, <2>5, FieldFacts
  <2>7. s \in Field \ {0} /\ (IF s % 2 = 1 THEN 3 ELSE 2) = prefix
    <3> HIDE DEF r
    <3>1. QED  BY <2>4, <2>6, ParityFacts
  <2>8. pt = Affine(x, s)
    <3>1. pt = New(x, s)
      BY <1>4 DEF decompress
    <3>2. QED  BY <2>1, <2>7, <3>1, NewFacts
\* The opposite of a root is one.
  <2>9. Affine(x, s) \in AffinePoints
    <3>1. fsqr(r) = a /\ Affine(x, r) \in FinitePoints
      <4>1. fsqr(r) = a
        BY <2>3, <2>5
      <4> HIDE DEF r
      <4>2. OnCurve(Affine(x, r))
        BY <4>1, RecordFacts DEF OnCurve
      <4>3. QED  BY <2>1, <2>4, <4>1, <4>2, PointOfCoordinates, RecordFacts DEF FinitePoints
    <3> HIDE DEF r
    <3>2. Negated(Affine(x, r)) = Affine(x, fneg(r)) /\ Negated(Affine(x, r)) \in AffinePoints
      BY <3>1, OppositeIsUnique, RecordFacts DEF Negated, FinitePoints
    <3>3. QED  BY <3>1, <3>2 DEF OfParity, FinitePoints
  <2>10. pt \in AffinePoints \ {None} /\ pt # Refused
    BY <2>8, <2>9, PointOfCoordinates, RecordFacts
  <2>11. to_octet_string(pt, "compressed") = b
    <3> HIDE DEF s
    <3>1. QED  BY <2>7, <2>8, RecordFacts DEF to_octet_string
  <2> HIDE DEF pt, b
  <2>12. QED  BY <2>10, <2>11 DEF RightAnswer, Forms, pt, b
<1>5. QED  BY <1>2, <1>3, <1>4

\* The integers of the strings that have a form.
LEMMA StringsFacts ==
  ASSUME NEW b \in ByteStrings
  PROVE  /\ \E n, f, x, y : b = Bytes(n, f, x, y)
         /\ b.length = 65 /\ b.prefix = 4 => b.x \in Nat /\ b.y \in Nat
         /\ b.length = 33 => b.x \in Nat /\ b.y = 0
<1> USE MaxIntAssumption
<1>1. PICK n, f, x, y :
        /\ b = Bytes(n, f, x, y)
        /\ n = 65 /\ f = 4 => x \in Nat /\ y \in Nat
        /\ n = 33 => x \in Nat /\ y = 0
  <2>1. CASE b \in {Bytes(65, 4, x, y) : x, y \in 0..MaxInt}
    BY <2>1
  <2>2. CASE b \in {Bytes(65, prefix, pt.ax, pt.ay) :
                      prefix \in {2, 6}, pt \in AffinePoints \ {None}}
    BY <2>2
  <2>3. CASE b \in {Bytes(33, prefix, x, 0) : prefix \in {2, 3, 4, 5}, x \in 0..MaxInt}
    BY <2>3
  <2>4. CASE b \in {Bytes(length, prefix, 0, 0) :
                      length \in {0, 1, 64}, prefix \in {0, 2, 4}}
    BY <2>4
  <2>5. QED  BY <2>1, <2>2, <2>3, <2>4 DEF ByteStrings
<1>2. QED  BY <1>1, RecordFacts

\* Every byte string gets the right answer, those of unknown forms too.
LEMMA FromBytesRight ==
  ASSUME NEW b \in ByteStrings PROVE RightAnswer(b, from_bytes(b))
<1>1. PICK n, f, x, y :
        /\ b = Bytes(n, f, x, y)
        /\ n = 65 /\ f = 4 => x \in Nat /\ y \in Nat
        /\ n = 33 => x \in Nat /\ y = 0
  BY StringsFacts, RecordFacts
<1>2. b.length = n /\ b.prefix = f /\ b.x = x /\ b.y = y
  BY <1>1, RecordFacts
<1>3. CASE n = 65 /\ f = 4
  BY <1>1, <1>2, <1>3, UncompressedRight DEF from_bytes
<1>4. CASE n = 33 /\ f \in {2, 3}
  <2>1. from_bytes(b) = decompress(x, f)
    BY <1>2, <1>4 DEF from_bytes
  <2>2. QED  BY <1>1, <1>4, <2>1, CompressedRight
<1>5. CASE ~(n = 65 /\ f = 4) /\ ~(n = 33 /\ f \in {2, 3})
  <2>1. from_bytes(b) = Refused
    BY <1>2, <1>5 DEF from_bytes
  <2>2. ASSUME NEW qt, NEW form \in Forms, to_octet_string(qt, form) = b PROVE FALSE
    <3>1. \/ b.length = 33 /\ b.prefix \in {2, 3}
          \/ b.length = 65 /\ b.prefix = 4
      BY <2>2, RecordFacts DEF to_octet_string
    <3>2. QED  BY <1>2, <1>5, <3>1
  <2>3. QED  BY <2>1, <2>2 DEF RightAnswer
<1>6. QED  BY <1>3, <1>4, <1>5

\* from_bytes is the inverse of to_octet_string: what it accepts is a finite point
\* of the curve in the one encoding of its form, and it refuses no encoding of a
\* point, on any curve of odd order over a field where the power of fsqrt finds
\* the roots.  from_coordinates answers the finite point of just these coordinates,
\* whatever it is passed for them, and refuses no finite point's.
THEOREM DecodingIsExact == Spec => []DecodesExactly
<1> DEFINE Right == /\ call.op = "decoded" => RightAnswer(call.bytes, call.answer)
                    /\ call.op = "constructed" => RightPoint(call.x, call.y, call.answer)
<1>0. DecodesExactly <=> Right
  BY DEF DecodesExactly, RightAnswer, RightPoint
<1>1. Init => Right
  BY DEF Init
<1>2. Right /\ [Next]_vars => Right'
  <2> SUFFICES ASSUME Right, [Next]_vars PROVE Right'
    OBVIOUS
  <2>1. CASE FromBytes
    <3>1. PICK b \in ByteStrings :
            call' = [op |-> "decoded", bytes |-> b, answer |-> from_bytes(b)]
      BY <2>1 DEF FromBytes
    <3>2. RightAnswer(b, from_bytes(b))
      BY FromBytesRight
    <3>3. call'.op = "decoded" /\ call'.bytes = b /\ call'.answer = from_bytes(b)
      BY <3>1
    <3>4. QED  BY <3>2, <3>3
  <2>2. CASE FromCoordinates
    <3>1. PICK x \in Arguments, y \in Arguments :
            call' = [op |-> "constructed", x |-> x, y |-> y,
                     answer |-> from_coordinates(x, y)]
      BY <2>2 DEF FromCoordinates
    <3>2. RightPoint(x, y, from_coordinates(x, y))
      BY CoordinatesRight
    <3>3. /\ call'.op = "constructed" /\ call'.x = x /\ call'.y = y
          /\ call'.answer = from_coordinates(x, y)
      BY <3>1
    <3>4. QED  BY <3>2, <3>3
  <2>3. CASE ~FromBytes /\ ~FromCoordinates
    <3>1. call' = call \/ call'.op \notin {"decoded", "constructed"}
      BY <2>3 DEF Next, vars, Program, Keep, TakeTriples, CallDouble, CallAdd, CallNeg,
                  Raw, TakeAffine, PointAdd, PointNegate, PointMul, MulRefused,
                  PointMulVt, Multiply, Answer, Ladder, scalar_multiply_wnaf, Finish
    <3>2. QED  BY <3>1
  <2>4. QED  BY <2>1, <2>2, <2>3
<1> HIDE DEF Right
<1>3. QED  BY <1>0, <1>1, <1>2, PTL DEF Spec

-----------------------------------------------------------------------------
(* Scalars out of range *)

\* The scalar on its way to the ladder is reduced.
InRange ==
  /\ call.op = "mul" => call.k \in 0..N - 1
  /\ call.op # "raised"

\* Neither ladder refuses a multiplication: mul has reduced the scalar before
\* it calls whichever of them is in place, so the k >= N of the C one that
\* raises ArgumentError is never met, whatever integer the program passes.
THEOREM MulNeverRaises == Spec => [](call.op # "raised")
<1>1. Init => InRange
  BY DEF Init, InRange
<1>2. InRange /\ [Next]_vars => InRange'
  <2> SUFFICES ASSUME InRange, [Next]_vars PROVE InRange'
    OBVIOUS
  <2>1. CASE call' = call
    BY <2>1 DEF InRange
  <2>2. CASE call'.op \notin {"mul", "raised"}
    BY <2>2 DEF InRange
  <2>3. CASE PointMul
    <3>1. PICK k \in Scalars : Multiply("mul", k)
      BY <2>3 DEF PointMul
    <3>2. Normalised(k) \in 0..N - 1
      <4>1. k \in Int
        BY ScalarsAssumption
      <4>2. QED  BY <4>1, NAssumption DEF Normalised
    <3>3. CASE call' = [op |-> "mul", k |-> Normalised(k), expected |-> Times(k, held),
                        asked |-> allowed \/ env]
      <4>1. call'.op = "mul" /\ call'.k = Normalised(k)
        BY <3>3
      <4>2. QED  BY <3>2, <4>1 DEF InRange
    <3>4. CASE call' = [op |-> "answered", expected |-> Times(k, held)]
      BY <2>2, <3>4
    <3>5. QED  BY <3>1, <3>3, <3>4 DEF Multiply, Answer
  <2>4. CASE Ladder
    <3>1. ~(call.k >= N)
      <4>1. call.k \in 0..N - 1
        BY <2>4 DEF Ladder, InRange
      <4>2. QED  BY <4>1, NAssumption
    <3>2. QED  BY <2>2, <2>4, <3>1 DEF Ladder
  <2>5. CASE ~PointMul /\ ~Ladder
    <3>1. call' = call \/ call'.op \notin {"mul", "raised"}
      BY <2>5 DEF Next, vars, Program, FromBytes, FromCoordinates, Obtain, Keep,
                  TakeTriples, CallDouble, CallAdd, CallNeg, Raw, TakeAffine, PointAdd,
                  PointNegate, MulRefused, PointMulVt, Multiply, Answer,
                  scalar_multiply_wnaf, Finish
    <3>2. QED  BY <2>1, <2>2, <3>1
  <2>6. QED  BY <2>3, <2>4, <2>5
<1>3. InRange => call.op # "raised"
  BY DEF InRange
<1>4. QED  BY <1>1, <1>2, <1>3, PTL DEF Spec

-----------------------------------------------------------------------------
(* The group *)

\* What is decoded or constructed is a point of the curve.
LEMMA DecodedOnCurve ==
  /\ \A b \in ByteStrings : from_bytes(b) \in AffinePoints \cup {Refused}
  /\ \A x, y : from_coordinates(x, y) \in AffinePoints \cup {Refused}
BY FromBytesRight, CoordinatesRight DEF RightAnswer, RightPoint

\* A Point handed to the functions and taken back is the same.
LEMMA LiftFacts ==
  ASSUME NEW pt \in AffinePoints
  PROVE  /\ Lift(pt) \in CurveTriples /\ jp_to_affine(Lift(pt)) = pt
         /\ pt # None => New(pt.ax, pt.ay) = pt /\ New(pt.ax, fneg(pt.ay)) = Negated(pt)
<1> USE PAssumption
<1>1. CASE pt = None
  BY <1>1, TriplesOfPoints DEF Lift
<1>2. CASE pt # None
  <2>1. pt \in FinitePoints
    BY <1>2 DEF FinitePoints
  <2>2. PICK x \in Field, y \in Field : /\ pt = Affine(x, y) /\ pt.ax = x /\ pt.ay = y
                                       /\ On(x, y) /\ Mod(2 * y) # 0 /\ y # 0
    BY <2>1, Coordinates
  <2>3. fsqr(1) = 1 /\ fmul(1, 1) = 1 /\ fmul(x, 1) = x /\ fmul(y, 1) = y
    <3>1. x \in Int /\ y \in Int /\ x % P = x /\ y % P = y /\ 1 % P = 1
      BY Canonical, TwoIsNotZero DEF Mod
    <3>2. x * 1 = x /\ y * 1 = y /\ 1 * 1 = 1
      BY <3>1
    <3>3. QED  BY <3>1, <3>2 DEF fsqr, fmul
  <2>4. Lift(pt) = Jac(fmul(pt.ax, fsqr(1)), fmul(pt.ay, fmul(fsqr(1), 1)), 1)
    BY <1>2, <2>2, <2>3 DEF Lift
  <2>5. 1 \in Field \ {0}
    BY DEF Field
  <2>6. Lift(pt) \in CurveTriples /\ jp_to_affine(Lift(pt)) = pt
    BY <2>1, <2>4, <2>5, TriplesOfPoints
  <2>7. fneg(y) \in Field
    BY <2>2, OppositeFacts
  <2>8. New(x, y) = Affine(x, y) /\ New(x, fneg(y)) = Affine(x, fneg(y))
    BY <2>2, <2>7, NewFacts
  <2>9. QED  BY <1>2, <2>2, <2>6, <2>8 DEF Negated
<1>3. QED  BY <1>1, <1>2

\* What the calls of Point have computed so far is the group's.
GroupInv ==
  /\ call.op = "raw" => held \in CurveTriples /\ other \in CurveTriples
  /\ call.op # "raw" => other \in AffinePoints
  /\ Idle => held \in AffinePoints
  /\ call.op = "answered" => held = call.expected
  /\ call.op \in {"mul", "mul_vt"} =>
       /\ held \in FinitePoints
       /\ call.k \in 0..N - 1
       /\ call.expected = MultiplesOf[held][call.k]
  /\ call.op = "computed" =>
       held \in CurveTriples /\ jp_to_affine(held) = call.expected
  /\ call.op \in {"none", "answered", "refused", "decoded", "constructed", "raw", "mul", "mul_vt", "computed"}

\* An answer is right, and a point.
LEMMA Answered ==
  ASSUME NEW pt \in AffinePoints, Answer(pt, pt), other' \in AffinePoints
  PROVE  GroupInv'
<1>1. call'.op = "answered" /\ call'.expected = pt /\ held' = pt
  BY DEF Answer
<1>2. QED  BY <1>1 DEF GroupInv, Idle

\* A ladder leaves some triple of the multiple.
LEMMA Represented ==
  ASSUME held \in FinitePoints, call.k \in 0..N - 1, Represents(call.k)
  PROVE  held' \in CurveTriples /\ jp_to_affine(held') = MultiplesOf[held][call.k]
<1>1. PICK z \in Field \ {0} :
        LET pt == Times(call.k, held) IN
        held' = IF pt = None THEN JP_INFINITY
                ELSE Jac(fmul(pt.ax, fsqr(z)), fmul(pt.ay, fmul(fsqr(z), z)), z)
  BY DEF Represents
<1>2. Times(call.k, held) = MultiplesOf[held][call.k]
  <2>1. call.k % N = call.k
    BY NAssumption
  <2>2. QED  BY <2>1 DEF Times, FinitePoints
<1>3. MultiplesOf[held][call.k] \in AffinePoints
  BY MultiplesFacts
<1>4. QED  BY <1>1, <1>2, <1>3, TriplesOfPoints DEF FinitePoints

\* What mul and mul_vt do before the loop.
LEMMA Multiplied ==
  ASSUME GroupInv, Idle, NEW op \in {"mul", "mul_vt"}, NEW k \in Int, Multiply(op, k)
  PROVE  GroupInv'
<1>1. held \in AffinePoints /\ other \in AffinePoints /\ other' = other
  BY DEF GroupInv, Idle, Multiply
<1>2. k % N \in 0..N - 1 /\ Normalised(k) = k % N
  BY NAssumption DEF Normalised
<1>3. CASE held = None \/ Normalised(k) = 0
  <2>1. Times(k, held) = None
    <3>1. CASE held = None
      BY <3>1 DEF Times
    <3>2. CASE held # None
      BY <1>1, <1>2, <1>3, <3>2, MultiplesFacts DEF Times, FinitePoints
    <3>3. QED  BY <3>1, <3>2
  <2>2. None \in AffinePoints
    BY DEF AffinePoints
  <2>3. Answer(None, None)
    BY <1>3, <2>1 DEF Multiply
  <2>4. QED  BY <1>1, <2>2, <2>3, Answered
<1>4. CASE ~(held = None \/ Normalised(k) = 0)
  <2>1. /\ call' = [op |-> op, k |-> Normalised(k), expected |-> Times(k, held),
                    asked |-> allowed \/ env]
        /\ held' = held
    BY <1>4 DEF Multiply
  <2>2. call'.op = op /\ call'.k = k % N /\ call'.expected = MultiplesOf[held][k % N]
    BY <1>2, <1>4, <2>1 DEF Times
  <2>3. QED  BY <1>1, <1>2, <1>4, <2>1, <2>2 DEF GroupInv, Idle, FinitePoints
<1>5. QED  BY <1>3, <1>4

LEMMA GroupStep == GroupInv /\ [Next]_vars => GroupInv'
<1> SUFFICES ASSUME GroupInv, [Next]_vars PROVE GroupInv'
  OBVIOUS
<1>0. None \in AffinePoints
  BY DEF AffinePoints
<1>1. CASE UNCHANGED <<held, other, call>>
  BY <1>1 DEF GroupInv, Idle
<1>2. ASSUME NEW pt \in AffinePoints \cup {Refused}, EmptyHanded, Obtain(pt),
             call'.op \in {"decoded", "constructed"}
      PROVE  GroupInv'
  <2>1. other' = other /\ call.op = "none"
    BY <1>2 DEF EmptyHanded, Obtain
  <2>2. held' \in AffinePoints
    BY <1>2, <2>1 DEF EmptyHanded, Obtain, GroupInv, Idle
  <2>3. QED  BY <1>2, <2>1, <2>2 DEF GroupInv, Idle
<1>3. CASE FromBytes
  <2>1. PICK b \in ByteStrings : Obtain(from_bytes(b)) /\ call'.op = "decoded"
    BY <1>3 DEF FromBytes
  <2>2. EmptyHanded
    BY <1>3 DEF FromBytes
  <2>3. QED  BY <1>2, <2>1, <2>2, DecodedOnCurve
<1>4. CASE FromCoordinates
  <2>1. PICK x \in Arguments, y \in Arguments :
          Obtain(from_coordinates(x, y)) /\ call'.op = "constructed"
    BY <1>4 DEF FromCoordinates
  <2>2. EmptyHanded
    BY <1>4 DEF FromCoordinates
  <2>3. QED  BY <1>2, <2>1, <2>2, DecodedOnCurve
<1>5. CASE Keep
  <2>1. CASE Idle
    <3>1. call'.op = "none" /\ held' = other /\ other' = held
      BY <1>5, <2>1 DEF Keep
    <3>2. QED  BY <2>1, <3>1 DEF GroupInv, Idle
  <2>2. CASE ~Idle
    BY <1>5, <2>2 DEF Keep, GroupInv, Idle
  <2>3. QED  BY <2>1, <2>2
<1>6. CASE TakeTriples
  <2>1. call'.op = "raw" /\ held' = Lift(held) /\ other' = Lift(other)
    BY <1>6 DEF TakeTriples
  <2>2. held \in AffinePoints /\ other \in AffinePoints
    BY <1>6 DEF TakeTriples, GroupInv, Idle
  <2>3. QED  BY <2>1, <2>2, LiftFacts DEF GroupInv, Idle
<1>7. ASSUME NEW j \in CurveTriples, Raw(j) PROVE GroupInv'
  BY <1>7 DEF Raw, GroupInv, Idle
<1>8. CASE CallDouble \/ CallAdd \/ CallNeg
  <2>1. held \in CurveTriples /\ other \in CurveTriples
    BY <1>8 DEF CallDouble, CallAdd, CallNeg, GroupInv
  <2>2. Double(held) \in CurveTriples /\ Add(held, other) \in CurveTriples
        /\ Neg(held) \in CurveTriples
    BY <2>1, FormulasAreTheGroupLaw DEF Double, Add, Neg
  <2>3. QED  BY <1>7, <1>8, <2>2 DEF CallDouble, CallAdd, CallNeg
<1>9. CASE TakeAffine
  <2>1. call'.op = "none" /\ held' = jp_to_affine(held) /\ other' = jp_to_affine(other)
    BY <1>9 DEF TakeAffine
  <2>2. held \in CurveTriples /\ other \in CurveTriples
    BY <1>9 DEF TakeAffine, GroupInv
  <2>3. QED  BY <2>1, <2>2, FormulasAreTheGroupLaw DEF GroupInv, Idle
<1>10. CASE PointAdd
  <2>1. held \in AffinePoints /\ other \in AffinePoints /\ other' = other
    BY <1>10 DEF PointAdd, GroupInv, Idle
  <2>2. CASE held = None
    <3>1. Answer(other, other)
      BY <1>10, <2>2 DEF PointAdd, ChordTangent
    <3>2. QED  BY <2>1, <3>1, Answered
  <2>3. CASE held # None /\ other = None
    <3>1. Answer(held, held)
      BY <1>10, <2>3 DEF PointAdd, ChordTangent
    <3>2. QED  BY <2>1, <3>1, Answered
  <2>4. CASE held # None /\ other # None
    <3>1. /\ held' = Add(Lift(held), Lift(other))
          /\ call'.op = "computed" /\ call'.expected = ChordTangent(held, other)
      BY <1>10, <2>4 DEF PointAdd
    <3>2. held' \in CurveTriples /\ jp_to_affine(held') = ChordTangent(held, other)
      BY <2>1, <3>1, LiftFacts, FormulasAreTheGroupLaw DEF Add
    <3>3. QED  BY <2>1, <3>1, <3>2 DEF GroupInv, Idle
  <2>5. QED  BY <2>2, <2>3, <2>4
<1>11. CASE PointNegate
  <2>1. held \in AffinePoints /\ other \in AffinePoints /\ other' = other
    BY <1>11 DEF PointNegate, GroupInv, Idle
  <2> DEFINE opposite == CHOOSE pt \in AffinePoints : ChordTangent(held, pt) = None
  <2>2. Negated(held) \in AffinePoints
        /\ \A pt \in AffinePoints : ChordTangent(held, pt) = None <=> pt = Negated(held)
    BY <2>1, OppositeIsUnique
  <2>3. opposite = Negated(held)
    BY <2>2
  <2>4. (IF held = None THEN held ELSE New(held.ax, fneg(held.ay))) = Negated(held)
    BY <2>1, LiftFacts DEF Negated
  <2>5. Answer(Negated(held), Negated(held))
    BY <1>11, <2>3, <2>4 DEF PointNegate
  <2>6. QED  BY <2>1, <2>2, <2>5, Answered
<1>12. CASE PointMul \/ PointMulVt
  BY <1>12, Multiplied, ScalarsAssumption DEF PointMul, PointMulVt
<1>13. CASE MulRefused
  <2>1. call'.op = "refused" /\ held' = held /\ other' = other
    BY <1>13 DEF MulRefused
  <2>2. held \in AffinePoints /\ other \in AffinePoints
    BY <1>13 DEF MulRefused, GroupInv, Idle
  <2>3. QED  BY <2>1, <2>2 DEF GroupInv, Idle
<1>14. CASE Ladder \/ scalar_multiply_wnaf
  <2>1. /\ held \in FinitePoints /\ call.k \in 0..N - 1 /\ other \in AffinePoints
        /\ call.expected = MultiplesOf[held][call.k] /\ other' = other
    BY <1>14 DEF Ladder, scalar_multiply_wnaf, GroupInv
  <2>2. ~(call.k >= N)
    BY <2>1, NAssumption
  <2>3. Represents(call.k) /\ call'.op = "computed" /\ call'.expected = call.expected
    BY <1>14, <2>2 DEF Ladder, scalar_multiply_wnaf
  <2>4. held' \in CurveTriples /\ jp_to_affine(held') = call'.expected
    BY <2>1, <2>3, Represented
  <2>5. QED  BY <2>1, <2>3, <2>4 DEF GroupInv, Idle
<1>15. CASE Finish
  <2>1. /\ held \in CurveTriples /\ jp_to_affine(held) = call.expected
        /\ other \in AffinePoints /\ other' = other
    BY <1>15 DEF Finish, GroupInv
  <2> DEFINE pt == jp_to_affine(held)
  <2>2. pt \in AffinePoints
    BY <2>1, FormulasAreTheGroupLaw
  <2>3. (IF pt = None THEN None ELSE New(pt.ax, pt.ay)) = pt
    <3> HIDE DEF pt
    <3>1. QED  BY <2>2, LiftFacts
  <2>4. Answer(pt, pt)
    BY <1>15, <2>1, <2>3 DEF Finish
  <2>5. QED  BY <2>1, <2>2, <2>4, Answered
<1>16. QED
  BY <1>1, <1>3, <1>4, <1>5, <1>6, <1>8, <1>9, <1>10, <1>11, <1>12, <1>13, <1>14, <1>15
     DEF Next, Program, vars

LEMMA GroupInvariant == Spec => []GroupInv
<1>1. Init => GroupInv
  BY DEF Init, GroupInv, Idle, AffinePoints
<1>2. QED  BY <1>1, GroupStep, PTL DEF Spec

\* Whatever a program does with points, in whatever mixture of the backends the
\* loader leaves it: what add, negate, mul and mul_vt answer is the group law.
THEOREM PointsAnswerTheGroupLaw == Spec => []PointsAreTheGroup
<1>1. GroupInv => PointsAreTheGroup
  BY DEF GroupInv, PointsAreTheGroup, Idle
<1>2. QED  BY <1>1, GroupInvariant, PTL

\* On all triples a program can come by jp_double, jp_add and jp_neg in Ruby
\* compute the group law.
THEOREM RubyComputesTheGroupLaw == Spec => []RubyIsGroupLaw
<1>1. GroupInv => RubyIsGroupLaw
  BY FormulasAreTheGroupLaw DEF GroupInv, RubyIsGroupLaw, IsGroupLaw
<1>2. QED  BY <1>1, GroupInvariant, PTL

\* So do the branchless C functions.
THEOREM NativeComputesTheGroupLaw == Spec => []NativeIsGroupLaw
<1>1. GroupInv => NativeIsGroupLaw
  BY FormulasAreTheGroupLaw DEF GroupInv, NativeIsGroupLaw, IsGroupLaw
<1>2. QED  BY <1>1, GroupInvariant, PTL

=============================================================================
