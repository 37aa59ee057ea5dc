------------------------------ MODULE Wrappers ------------------------------
(***************************************************************************)
(* The boundary between Ruby and C: the wrappers of field.c and scalar.c   *)
(* take Ruby integers, refuse what does not fit four limbs, reduce the     *)
(* rest, and call internals that are right for canonical operands only.    *)
(* Sums and differences have one branchless correction each; inverses and  *)
(* square roots are powers, computed by square-and-multiply over the bits  *)
(* of a public exponent.  The Ruby functions that the wrappers replace are *)
(* the reference.  Reductions of products and of operands are taken at     *)
(* what LimbReduce shows of them.                                          *)
(***************************************************************************)
EXTENDS Limbs

CONSTANTS
  P, N,         \* the field prime and the order, below Two256
  Bits,         \* Two256 is 2^Bits
  Numbers,      \* the Ruby integers the wrappers are called with
  WideNumbers,  \* and those that fred is called with
  NotInteger,   \* a Ruby object that is no Integer
  Nil, ArgumentError, TypeError, Pending

\* 1 << n
Shift(n) == 2^n

\* What is used of the powers of two.
ASSUME ShiftAssumption ==
  /\ Bits \in Nat
  /\ Two256 = Shift(Bits) /\ Shift(0) = 1
  /\ \A n \in 1..Bits :
       Shift(n - 1) \in Nat \ {0} /\ Shift(n) = 2 * Shift(n - 1)
ASSUME ModuliAssumption ==
  /\ P \in 2..Two256 - 1 /\ 2 * P > Two256 /\ P % 4 = 3
  /\ N \in 2..Two256 - 1 /\ 2 * N > Two256
\* Both are prime: every residue but zero has an inverse.
ASSUME PrimesAssumption ==
  \A m \in {P, N} : \A x \in 1..m - 1 : \E y \in 1..m - 1 : (x * y) % m = 1
ASSUME NumbersAssumption ==
  Numbers \subseteq Int /\ WideNumbers \subseteq Int /\ NotInteger \notin Int

VARIABLES
  op,      \* the wrapper that is called
  a, b,    \* with these integers
  ua, ub,  \* its operands, unpacked and reduced
  i,       \* the bits of the exponent that are left
  result,  \* the power so far
  out,     \* what the call returns or raises
  pc

vars == <<op, a, b, ua, ub, i, result, out, pc>>

Sums == {"fadd", "fsub", "scalar_add"}
Products == {"fmul", "scalar_mul"}
Powers == {"finv", "fsqrt", "scalar_inv"}
Reductions == {"fred", "scalar_mod"}
Ops == Sums \cup Products \cup Powers \cup Reductions \cup {"fneg", "fsqr"}

OfOrder == {"scalar_add", "scalar_mul", "scalar_inv", "scalar_mod"}
Modulus == IF op \in OfOrder THEN N ELSE P
Exponent == IF op = "fsqrt" THEN (P + 1) \div 4 ELSE Modulus - 2

Zero == FromInt(0)

Init ==
  /\ op \in Ops
  /\ a \in {NotInteger} \cup IF op = "fred" THEN WideNumbers ELSE Numbers
  /\ b \in IF op \in Sums \cup Products THEN {NotInteger} \cup Numbers ELSE {0}
  /\ ua = Zero /\ ub = Zero
  /\ i = Bits
  /\ result = 1
  /\ out = Pending
  /\ pc = "called"

Return(value) == out' = value /\ pc' = "done"

\* What rb_integer_pack takes: eight limbs in rb_fred, four elsewhere;
\* rb_scalar_mod calls Ruby's % first.
Fits(x) ==
  CASE op = "scalar_mod" -> x # NotInteger
    [] op = "fred" -> x \in 0..Two256 * Two256 - 1
    [] OTHER -> x \in 0..Two256 - 1

\* rb_to_uint256 raises TypeError before it looks at the size, and the first
\* operand is unpacked before the second.
Refuse ==
  /\ pc = "called"
  /\ ~Fits(a) \/ ~Fits(b)
  /\ LET refused == IF Fits(a) THEN b ELSE a
     IN  Return(IF refused = NotInteger THEN TypeError ELSE ArgumentError)
  /\ UNCHANGED <<op, a, b, ua, ub, i, result>>

\* Mutant: the operands go to the internals as they came.
UnpackOnly ==
  /\ pc = "called"
  /\ Fits(a) /\ Fits(b)
  /\ op \notin Reductions
  /\ ua' = FromInt(a)
  /\ ub' = FromInt(b)
  /\ pc' = "reduced"
  /\ UNCHANGED <<op, a, b, i, result, out>>

\* "pre-reduce operands so fadd_internal's a, b < P precondition is always
\* satisfied"; the products of field elements do without.
UnpackAndReduce ==
  /\ pc = "called"
  /\ Fits(a) /\ Fits(b)
  /\ op \notin Reductions
  /\ ua' = FromInt(IF op \in {"fmul", "fsqr"} THEN a ELSE a % Modulus)
  /\ ub' = FromInt(IF op \in {"fmul", "fsqr"} THEN b ELSE b % Modulus)
  /\ pc' = "reduced"
  /\ UNCHANGED <<op, a, b, i, result, out>>

\* rb_fred and rb_scalar_mod do nothing but reduce.
ReduceOnly ==
  /\ pc = "called"
  /\ Fits(a)
  /\ op \in Reductions
  /\ Return(a % Modulus)
  /\ UNCHANGED <<op, a, b, ua, ub, i, result>>

-----------------------------------------------------------------------------
(* Sums and products *)

\* fadd_internal and scalar_add_internal: the sum is kept if it neither
\* overflowed nor reaches the modulus.
SumInternal(x, y) ==
  LET sum == uint256_add(x, y)
      reduced == uint256_sub(sum.d, FromInt(Modulus))
  IN  IF sum.carry = 0 /\ reduced.borrow = 1 THEN sum.d ELSE reduced.d

fsub_internal(x, y) ==
  LET diff == uint256_sub(x, y)
      corrected == uint256_add(diff.d, FromInt(P))
  IN  IF diff.borrow = 1 THEN corrected.d ELSE diff.d

fneg_internal(x) ==
  LET negated == uint256_sub(FromInt(P), x)
  IN  IF x = Zero THEN Zero ELSE negated.d

\* fmul_internal and scalar_mul_internal, of any 256 bits.
mul(x, y) == (x * y) % Modulus

Compute ==
  /\ pc = "reduced"
  /\ op \notin Powers
  /\ Return(CASE op \in {"fadd", "scalar_add"} -> Value(SumInternal(ua, ub))
              [] op = "fsub" -> Value(fsub_internal(ua, ub))
              [] op = "fneg" -> Value(fneg_internal(ua))
              [] op \in Products -> mul(Value(ua), Value(ub))
              [] op = "fsqr" -> mul(Value(ua), Value(ua)))
  /\ UNCHANGED <<op, a, b, ua, ub, i, result>>

-----------------------------------------------------------------------------
(* Powers *)

IsZeroUnreduced == a = 0  \* Mutant: the operand is looked at as it came.
IsZero == ua = Zero

\* "inverse is undefined for zero"; fsqrt takes zero as well.
RefuseZero ==
  /\ pc = "reduced"
  /\ op \in {"finv", "scalar_inv"}
  /\ IsZero
  /\ Return(ArgumentError)
  /\ UNCHANGED <<op, a, b, ua, ub, i, result>>

StartPower ==
  /\ pc = "reduced"
  /\ op \in Powers
  /\ op # "fsqrt" => ~IsZero
  /\ pc' = "loop"
  /\ UNCHANGED <<op, a, b, ua, ub, i, result, out>>

uint256_bit(n) == (Exponent \div Shift(n)) % 2

IterateZero ==
  /\ pc = "loop"
  /\ i > 0
  /\ uint256_bit(i - 1) = 0
  /\ result' = mul(result, result)
  /\ i' = i - 1
  /\ UNCHANGED <<op, a, b, ua, ub, out, pc>>

IterateOne ==
  /\ pc = "loop"
  /\ i > 0
  /\ uint256_bit(i - 1) = 1
  /\ result' = mul(mul(result, result), Value(ua))
  /\ i' = i - 1
  /\ UNCHANGED <<op, a, b, ua, ub, out, pc>>

ReturnInverse ==
  /\ pc = "loop"
  /\ i = 0
  /\ op # "fsqrt"
  /\ Return(result)
  /\ UNCHANGED <<op, a, b, ua, ub, i, result>>

\* Mutant: the candidate is returned unchecked.
ReturnRootUnchecked ==
  /\ pc = "loop"
  /\ i = 0
  /\ op = "fsqrt"
  /\ Return(result)
  /\ UNCHANGED <<op, a, b, ua, ub, i, result>>

\* The candidate is a root if its square is the operand.
ReturnRoot ==
  /\ pc = "loop"
  /\ i = 0
  /\ op = "fsqrt"
  /\ Return(IF mul(result, result) = Value(ua) THEN result ELSE Nil)
  /\ UNCHANGED <<op, a, b, ua, ub, i, result>>

Next ==
  \/ Refuse \/ UnpackAndReduce \/ ReduceOnly \/ Compute
  \/ RefuseZero \/ StartPower \/ IterateZero \/ IterateOne
  \/ ReturnInverse \/ ReturnRoot

Spec == Init /\ [][Next]_vars

-----------------------------------------------------------------------------
(* lib/secp256k1.rb, on the same integers. *)

fold(x) == (x % Two256) + (x \div Two256) * (Two256 - P)
fred(x) == LET y == fold(fold(x)) IN IF y >= P THEN y - P ELSE y

fsub(x, y) ==
  LET xr == x % P  yr == y % P IN IF xr >= yr THEN xr - yr ELSE P - (yr - xr)
fneg(x) == IF x % P = 0 THEN 0 ELSE P - (x % P)

Ruby ==
  CASE op = "fadd" -> fred(a + b)
    [] op = "fsub" -> fsub(a, b)
    [] op = "fneg" -> fneg(a)
    [] op = "fmul" -> fred(a * b)
    [] op = "fsqr" -> fred(a * a)
    [] op = "fred" -> fred(a)
    [] op = "scalar_add" -> (a + b) % N
    [] op = "scalar_mul" -> (a * b) % N
    [] op = "scalar_mod" -> LET r == a % N IN IF r < 0 THEN r + N ELSE r

\* The integers of 256 bits and, for fred, of twice as many.
InRange == 0..(IF op = "fred" THEN Two256 * Two256 ELSE Two256) - 1

\* "the result matches the C wrapper": a call returns what Ruby returns, or it
\* raises, a TypeError for what is no integer and an ArgumentError for what is
\* not in range, and for nothing else: a program that keeps to integers in range
\* does not notice which backend it runs on.  scalar_mod takes every integer, as
\* Ruby does.
MatchesRuby ==
  pc = "done" /\ op \notin Powers =>
    \/ NotInteger \notin {a, b} /\ out = Ruby
    \/ NotInteger \in {a, b} /\ out = TypeError
    \/ /\ op # "scalar_mod" /\ ~({a, b} \subseteq InRange \cup {NotInteger})
       /\ out = ArgumentError

\* An inverse is one, and is refused for the multiples of the modulus only,
\* the modulus itself included: it is zero although it is not 0.
InverseOrRefusal ==
  pc = "done" /\ op \in {"finv", "scalar_inv"} /\ Fits(a) =>
    IF a % Modulus = 0 THEN out = ArgumentError
    ELSE out \in 0..Modulus - 1 /\ mul(a, out) = 1

\* nil means that there is no root, and a root that is returned is the one
\* that is a square itself: the choice of y that Point.from_bytes completes.
RootOrNil ==
  pc = "done" /\ op = "fsqrt" /\ Fits(a) =>
    IF \E y \in 0..P - 1 : mul(y, y) = a % P
    THEN /\ out \in 0..P - 1
         /\ mul(out, out) = a % P
         /\ \E y \in 0..P - 1 : mul(y, y) = out
    ELSE out = Nil

=============================================================================
