------------------------------- MODULE Points -------------------------------
(***************************************************************************)
(* A program that works with Secp256k1::Point: it builds points from bytes *)
(* and coordinates, adds, negates and multiplies them, or takes them to    *)
(* Jacobian triples and calls jp_double, jp_add and jp_neg itself.  All    *)
(* the while the methods it calls may be in the hands of the loader        *)
(* (module Backend), and a call of Point that calls several of them meets  *)
(* each as it is at that moment.                                           *)
(*                                                                         *)
(* The loops inside scalar_multiply_ct and scalar_multiply_wnaf are here   *)
(* what Ladder, NativeLadder and Wnaf show them to be: some representation *)
(* of the multiple.                                                        *)
(***************************************************************************)
EXTENDS MixedBackend

CONSTANTS
  MaxInt,   \* the greatest integer that 32 bytes can hold
  Scalars,  \* the scalars the program multiplies by, integers of any size
  Nil,      \* nil, which only Point.new has a use for
  Arguments,  \* what the program passes for coordinates: anything
  Refused   \* the answer of a constructor that raises ArgumentError

ASSUME MaxIntAssumption == MaxInt \in Nat /\ MaxInt >= P
ASSUME ScalarsAssumption == Scalars \subseteq Int
ASSUME NilAssumption == Nil \notin Field
ASSUME RootsAssumption == P % 4 = 3

VARIABLES
  env,          \* is SECP256K1_ALLOW_PURE_RUBY_CT in the environment?
  held, other,  \* the program's operands: two Points or two triples
  call          \* the call of Point in progress, or the last one

vars == <<backend, env, held, other, call>>

-----------------------------------------------------------------------------
(* Building points *)

fsqrt(a) ==
  LET pow[n \in Nat] == IF n = 0 THEN 1 ELSE fmul(a, pow[n - 1])
      r == pow[(P + 1) \div 4]
  IN  IF fsqr(r) = a THEN {r} ELSE {}

\* P is a prime that is 3 modulo 4: the power fsqrt takes is a root of every
\* element that has one.
ASSUME SquareRootsAssumption ==
  \A a \in Field : /\ fsqrt(a) \subseteq Field
                   /\ (\E y \in Field : fsqr(y) = a) => fsqrt(a) # {}

\* An exception is no point.
ASSUME RefusedAssumption == \A x, y \in Field : Refused # Affine(x, y)

\* Mutant: a coordinate is only compared with P.
NewUnsigned(x, y) ==
  IF x = Nil /\ y = Nil THEN None
  ELSE IF {x, y} \subseteq Int /\ x < P /\ y < P THEN Affine(x, y)
  ELSE Refused

\* Point.new: nil twice for infinity, or two integers in [0, P).
New(x, y) ==
  IF x = Nil /\ y = Nil THEN None
  ELSE IF {x, y} \subseteq Field THEN Affine(x, y)
  ELSE Refused

from_coordinates(x, y) ==
  IF Nil \in {x, y} THEN Refused
  ELSE LET pt == New(x, y) IN IF pt # Refused /\ OnCurve(pt) THEN pt ELSE Refused

\* The uncompressed form of from_bytes.
uncompressed(x, y) ==
  IF x >= P \/ y >= P THEN Refused
  ELSE LET pt == New(x, y) IN IF OnCurve(pt) THEN pt ELSE Refused

OfParity(y, prefix) == IF (y % 2 = 1) = (prefix = 3) THEN y ELSE fneg(y)

\* The compressed form of from_bytes.
decompress(x, prefix) ==
  IF x >= P THEN Refused
  ELSE LET roots == fsqrt((fmul(fsqr(x), x) + B) % P) IN
       IF roots = {} THEN Refused
       ELSE New(x, OfParity(CHOOSE y \in roots : TRUE, prefix))

\* A byte string is its length, its first byte and the integers that follow:
\* y where the length leaves room for it.
Bytes(length, prefix, x, y) == [length |-> length, prefix |-> prefix, x |-> x, y |-> y]

from_bytes(b) ==
  IF b.length = 65 /\ b.prefix = 4 THEN uncompressed(b.x, b.y)
  ELSE IF b.length = 33 /\ b.prefix \in {2, 3} THEN decompress(b.x, b.prefix)
  ELSE Refused

Forms == {"compressed", "uncompressed"}

to_octet_string(pt, form) ==
  IF form = "compressed"
  THEN Bytes(33, IF pt.ay % 2 = 1 THEN 3 ELSE 2, pt.ax, 0)
  ELSE Bytes(65, 4, pt.ax, pt.ay)

\* Every prefix the standard knows (0 is its point at infinity, 6 and 7 its
\* hybrid form) and one it does not, at both lengths, and other lengths.
ByteStrings ==
  {Bytes(65, 4, x, y) : x, y \in 0..MaxInt}
    \cup {Bytes(65, prefix, pt.ax, pt.ay) : prefix \in {2, 6}, pt \in AffinePoints \ {None}}
    \cup {Bytes(33, prefix, x, 0) : prefix \in {2, 3, 4, 5}, x \in 0..MaxInt}
    \cup {Bytes(length, prefix, 0, 0) : length \in {0, 1, 64}, prefix \in {0, 2, 4}}

-----------------------------------------------------------------------------
(* The program *)

Idle == call.op \in {"none", "answered", "refused", "decoded", "constructed"}

Init ==
  /\ LoaderInit
  /\ env \in BOOLEAN
  /\ held = None
  /\ other = None
  /\ call = [op |-> "none"]

Answer(pt, expected) ==
  /\ held' = pt
  /\ call' = [op |-> "answered", expected |-> expected]

\* The program makes points with an empty hand, one at a time.
EmptyHanded == call.op = "none" /\ held = None

Obtain(pt) ==
  /\ held' = IF pt = Refused THEN held ELSE pt
  /\ UNCHANGED <<backend, env, other>>

FromBytes ==
  /\ EmptyHanded
  /\ \E b \in ByteStrings :
       LET pt == from_bytes(b) IN
       Obtain(pt) /\ call' = [op |-> "decoded", bytes |-> b, answer |-> pt]

FromCoordinates ==
  /\ EmptyHanded
  /\ \E x, y \in Arguments :
       LET pt == from_coordinates(x, y) IN
       Obtain(pt) /\ call' = [op |-> "constructed", x |-> x, y |-> y, answer |-> pt]

\* The program works on its other point.
Keep ==
  /\ Idle \/ call.op = "raw"
  /\ held' = other
  /\ other' = held
  /\ call' = IF Idle THEN [op |-> "none"] ELSE call
  /\ UNCHANGED <<backend, env>>

-----------------------------------------------------------------------------
(* Calls of the module's functions, of the version in place *)

Lift(pt) == IF pt = None THEN JP_INFINITY ELSE Jac(pt.ax, pt.ay, 1)

TakeTriples ==
  /\ Idle
  /\ held' = Lift(held)
  /\ other' = Lift(other)
  /\ call' = [op |-> "raw"]
  /\ UNCHANGED <<backend, env>>

Raw(triple) ==
  /\ call.op = "raw"
  /\ held' = triple
  /\ UNCHANGED <<backend, env, other, call>>

CallDouble == call.op = "raw" /\ Raw(Double(held))
CallAdd == call.op = "raw" /\ Raw(Add(held, other))
CallNeg == call.op = "raw" /\ Raw(Neg(held))

\* jp_to_affine and Point.new of what comes out.
TakeAffine ==
  /\ call.op = "raw"
  /\ held' = jp_to_affine(held)
  /\ other' = jp_to_affine(other)
  /\ call' = [op |-> "none"]
  /\ UNCHANGED <<backend, env>>

-----------------------------------------------------------------------------
(* Point#add, #negate, #mul and #mul_vt *)

PointAdd ==
  /\ Idle
  /\ CASE held = None -> Answer(other, ChordTangent(held, other))
       [] held # None /\ other = None -> Answer(held, ChordTangent(held, other))
       [] OTHER -> /\ held' = Add(Lift(held), Lift(other))
                   /\ call' = [op |-> "computed", expected |-> ChordTangent(held, other)]
  /\ UNCHANGED <<backend, env, other>>

PointNegate ==
  /\ Idle
  /\ Answer(IF held = None THEN held ELSE New(held.ax, fneg(held.ay)),
            CHOOSE pt \in AffinePoints : ChordTangent(held, pt) = None)
  /\ UNCHANGED <<backend, env, other>>

Times(k, pt) == IF pt = None THEN None ELSE MultiplesOf[pt][k % N]

\* Mutant: the scalar is handed on as the caller gave it.
NormalisedUnreduced(k) == k

\* normalise_scalar
Normalised(k) == k % N

\* What is left of mul and mul_vt after the guard: the multiple of a point at
\* infinity or by zero is answered at once.
Multiply(op, k) ==
  /\ IF held = None \/ Normalised(k) = 0
     THEN Answer(None, Times(k, held))
     ELSE /\ call' = [op |-> op, k |-> Normalised(k), expected |-> Times(k, held),
                      asked |-> allowed \/ env]
          /\ UNCHANGED held
  /\ UNCHANGED <<backend, env, other>>

\* Mutant: a program that has not allowed it gets the Ruby ladder.
MulUnguarded == Idle /\ \E k \in Scalars : Multiply("mul", k)

PointMul ==
  /\ Idle
  /\ native \/ allowed \/ env
  /\ \E k \in Scalars : Multiply("mul", k)

\* InsecureOperationError, before the operands are looked at.
MulRefused ==
  /\ Idle
  /\ ~(native \/ allowed \/ env)
  /\ call' = [op |-> "refused"]
  /\ UNCHANGED <<backend, env, held, other>>

PointMulVt == Idle /\ \E k \in Scalars : Multiply("mul_vt", k)

\* Some triple of the multiple k of the point that is held.
Represents(k) ==
  \E z \in Field \ {0} :
    LET pt == Times(k, held) IN
    held' = IF pt = None THEN JP_INFINITY
            ELSE Jac(fmul(pt.ax, fsqr(z)), fmul(pt.ay, fmul(fsqr(z), z)), z)

\* scalar_multiply_ct of the version in place: the one in C raises
\* ArgumentError when k >= N.
Ladder ==
  /\ call.op = "mul"
  /\ LET inC == "scalar_multiply_ct" \in replaced IN
     IF inC /\ call.k >= N
     THEN call' = [op |-> "raised"] /\ UNCHANGED held
     ELSE /\ Represents(call.k)
          /\ call' = [op |-> "computed", expected |-> call.expected,
                       guarded |-> inC \/ call.asked]
  /\ UNCHANGED <<backend, env, other>>

scalar_multiply_wnaf ==
  /\ call.op = "mul_vt"
  /\ Represents(call.k)
  /\ call' = [op |-> "computed", expected |-> call.expected]
  /\ UNCHANGED <<backend, env, other>>

\* jp_to_affine and the Point made of it.
Finish ==
  /\ call.op = "computed"
  /\ LET pt == jp_to_affine(held) IN
     Answer(IF pt = None THEN None ELSE New(pt.ax, pt.ay), call.expected)
  /\ UNCHANGED <<backend, env, other>>

-----------------------------------------------------------------------------
Program ==
  \/ FromBytes \/ FromCoordinates \/ Keep
  \/ TakeTriples \/ CallDouble \/ CallAdd \/ CallNeg \/ TakeAffine
  \/ PointAdd \/ PointNegate \/ PointMul \/ MulRefused \/ PointMulVt
  \/ Ladder \/ scalar_multiply_wnaf \/ Finish

Next == Program \/ ((Require \/ allow_pure_ruby_ct) /\ UNCHANGED <<env, held, other, call>>)

Spec == Init /\ [][Next]_vars

-----------------------------------------------------------------------------
\* mul checks its guard, and calls the ladder later.  Between the two, and
\* after a load that stopped half way, the ladder may change hands: still a
\* ladder in Ruby runs only for a program that has allowed it.
LadderIsGuarded ==
  (call.op = "computed" /\ "guarded" \in DOMAIN call) => call.guarded

\* from_bytes accepts exactly the finite points of the curve in the one encoding
\* of each form: what it accepts encodes to the bytes it came from, and what it
\* refuses is the encoding of no point.  from_coordinates accepts exactly their
\* coordinates: no nil, no negative, nothing above P, no other point.
DecodesExactly ==
  /\ call.op = "decoded" =>
       IF call.answer = Refused
       THEN \A pt \in AffinePoints \ {None}, form \in Forms :
              to_octet_string(pt, form) # call.bytes
       ELSE /\ call.answer \in AffinePoints \ {None}
            /\ \E form \in Forms : to_octet_string(call.answer, form) = call.bytes
  /\ call.op = "constructed" =>
       IF call.answer = Refused
       THEN Affine(call.x, call.y) \notin AffinePoints
       ELSE call.answer = Affine(call.x, call.y) /\ call.answer \in AffinePoints

\* add, negate, mul and mul_vt are the group law on the curve, infinity and
\* scalars out of range included, and never raise once they are let in,
\* whatever mixture of methods they meet.
PointsAreTheGroup ==
  /\ call.op = "answered" => held = call.expected
  /\ call.op # "raised"
  /\ Idle => {held, other} \subseteq AffinePoints

-----------------------------------------------------------------------------
(* The triples a program can come by are the operands for which the two    *)
(* versions are compared with each other and with the curve.               *)

IsGroupLaw(double, sum, neg) ==
  LET pt == jp_to_affine(held)
      qt == jp_to_affine(other)
  IN  /\ jp_to_affine(double) = ChordTangent(pt, pt)
      /\ jp_to_affine(sum) = ChordTangent(pt, qt)
      /\ jp_to_affine(neg) = Negated(pt)

\* In every representation that calls can produce, the Ruby functions compute
\* the group law: equal, opposite and infinite operands included.
RubyIsGroupLaw ==
  call.op = "raw" => IsGroupLaw(jp_double(held), jp_add(held, other), jp_neg(held))

\* So do the branchless C functions, whose selections override each other.
NativeIsGroupLaw ==
  call.op = "raw" =>
    IsGroupLaw(jp_double_internal(held), jp_add_internal(held, other), jp_neg_internal(held))

\* jacobian.c says jp_double_internal matches the Ruby function exactly, so
\* that tables made by one backend serve the other; jp_add must then as well:
\* not the same point but the same triple.  (Of jp_neg_internal the comment
\* goes too far: it negates the Y of the point at infinity, jp_neg does not.)
SameTriples ==
  call.op = "raw" =>
    /\ jp_double_internal(held) = jp_double(held)
    /\ jp_add_internal(held, other) = jp_add(held, other)

=============================================================================
