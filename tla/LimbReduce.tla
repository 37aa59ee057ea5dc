----------------------------- MODULE LimbReduce -----------------------------
(***************************************************************************)
(* The reductions of the C extension on limbs, one action per loop:        *)
(*                                                                         *)
(*  - fmul_internal and fred_internal of field.c, where 2^256 - P is a     *)
(*    constant of one limb (FRED_C), folded in three times;                *)
(*  - scalar_mul_internal, scalar_reduce and scalar_reduce_limbs of        *)
(*    scalar.c, where c_N = 2^256 - N takes two limbs and the bit 2^128:   *)
(*    two folds limb by limb and a residual one.                           *)
(*                                                                         *)
(* Both end in one conditional subtraction.                                *)
(***************************************************************************)
EXTENDS Limbs

CONSTANTS
  FRED_C,         \* 2^256 - P
  CN_LO, CN_MID,  \* the limbs of 2^256 - N below 2^128
  Factors,        \* the operands of fmul_internal and scalar_mul_internal
  Numbers         \* what fred_internal and scalar_reduce are called with

C_N == CN_LO + Word * CN_MID + Word * Word
FIELD_P == FromInt(Two256 - FRED_C)
CURVE_N == FromInt(Two256 - C_N)

ASSUME LimbsAssumption == FRED_C \in Limb \ {0} /\ CN_LO \in Limb /\ CN_MID \in Limb
\* c_N has 129 bits, and its square is 1.6 times 2^256.
ASSUME ScalarAssumption == C_N * C_N <= 2 * Two256 /\ 4 * C_N <= Two256
ASSUME InputsAssumption ==
  Factors \subseteq 0..Two256 - 1 /\ Numbers \subseteq 0..Two256 * Two256 - 1

VARIABLES
  modulo,  \* which of the two: "P" or "N"
  input,   \* the number to reduce: what the call asks for
  t,       \* eight limbs: hi and lo of field.c, t[0..7] of scalar.c
  r,       \* the four limbs of the result
  carry,   \* what the last loop carried out of r; topcarry of scalar.c
  pc

vars == <<modulo, input, t, r, carry, pc>>

Zero == Four(0, 0, 0, 0)

Entered(m, x, limbs) ==
  /\ modulo = m
  /\ input = x
  /\ t = limbs
  /\ r = Zero
  /\ carry = 0
  /\ pc = "entered"

\* Factors need not be below the modulus: rb_fmul passes 256 bits as they
\* come, and "scalar_mul_internal is correct on any 256-bit operand pair".
Init ==
  \E m \in {"P", "N"} :
    \/ \E a, b \in Factors : Entered(m, a * b, Product(FromInt(a), FromInt(b)))
    \/ \E x \in Numbers :
         Entered(m, x, Halves(FromInt(x % Two256), FromInt(x \div Two256)))

Go(label) == pc' = label /\ UNCHANGED <<modulo, input>>

-----------------------------------------------------------------------------
(* field.c *)

\* tmp = hi * FRED_C + lo, in five limbs
FieldFirstFold ==
  /\ modulo = "P" /\ pc = "entered"
  /\ LET fold == Chain([j \in 0..3 |-> t[4 + j] * FRED_C + t[j]], 0)
     IN  t' = [n \in 0..7 |-> CASE n < 4 -> fold.d[n]
                                [] n = 4 -> fold.carry
                                [] OTHER -> 0]
  /\ Go("folded")
  /\ UNCHANGED <<r, carry>>

\* The second and third folds add x * FRED_C, which spans two limbs.
AddSmall(d, x) ==
  LET fold == Wide(x * FRED_C)
  IN  Chain(Four(d[0] + Low(fold), d[1] + High(fold), d[2], d[3]), 0)

FieldSecondFold ==
  /\ modulo = "P" /\ pc = "folded"
  /\ LET sum == AddSmall(t, t[4]) IN r' = sum.d /\ carry' = sum.carry
  /\ Go("foldedTwice")
  /\ UNCHANGED t

\* Mutant: the carry of the second fold is dropped.
FieldThirdFoldMissing ==
  /\ modulo = "P" /\ pc = "foldedTwice"
  /\ Go("foldedThrice")
  /\ UNCHANGED <<t, r, carry>>

FieldThirdFold ==
  /\ modulo = "P" /\ pc = "foldedTwice"
  /\ LET sum == AddSmall(r, carry) IN r' = sum.d /\ carry' = sum.carry
  /\ Go("foldedThrice")
  /\ UNCHANGED t

\* reduced = r - P is kept unless it borrowed.
FieldSubtract ==
  /\ modulo = "P" /\ pc = "foldedThrice"
  /\ LET reduced == uint256_sub(r, FIELD_P)
     IN  r' = IF reduced.borrow # 0 THEN r ELSE reduced.d
  /\ Go("done")
  /\ UNCHANGED <<t, carry>>

-----------------------------------------------------------------------------
(* scalar.c *)

\* Mutant: the carry out of limb i + 3 is lost.
FoldLimbWithoutCarry(s, h, i) ==
  LET fold == Chain(Four(h * CN_LO + s[i], h * CN_MID + s[i + 1],
                         h + s[i + 2], s[i + 3]), 0)
  IN  [n \in 0..7 |-> IF n \in i..i + 3 THEN fold.d[n - i] ELSE s[n]]

\* The body of both loops: h * c_N is added at limb i, and the carry out of
\* limb i + 3 goes to t[i + 4] unless i = 3.
FoldLimb(s, h, i) ==
  LET fold == Chain(Four(h * CN_LO + s[i], h * CN_MID + s[i + 1],
                         h + s[i + 2], s[i + 3]), 0)
  IN  [n \in 0..7 |-> CASE n \in i..i + 3 -> fold.d[n - i]
                        [] n = i + 4 /\ i < 3 -> Low(s[n] + fold.carry)
                        [] OTHER -> s[n]]

\* The limbs above are folded into those below, from the lowest up.
FoldHigh ==
  LET s0 == [n \in 0..7 |-> IF n < 4 THEN t[n] ELSE 0]
      s1 == FoldLimb(s0, t[4], 0)
      s2 == FoldLimb(s1, t[5], 1)
      s3 == FoldLimb(s2, t[6], 2)
  IN  FoldLimb(s3, t[7], 3)

ScalarFirstFold ==
  /\ modulo = "N" /\ pc = "entered"
  /\ t' = FoldHigh
  /\ Go("folded")
  /\ UNCHANGED <<r, carry>>

\* Mutant: the second loop is left out.
ScalarSecondFoldSkipped ==
  /\ modulo = "N" /\ pc = "folded"
  /\ Go("foldedTwice")
  /\ UNCHANGED <<t, r, carry>>

ScalarSecondFold ==
  /\ modulo = "N" /\ pc = "folded"
  /\ t' = FoldHigh
  /\ Go("foldedTwice")
  /\ UNCHANGED <<r, carry>>

\* carry3 = t[4] alone is folded again, and its carry out is topcarry.
ScalarResidualFold ==
  /\ modulo = "N" /\ pc = "foldedTwice"
  /\ LET sum == Chain(Four(t[4] * CN_LO + t[0], t[4] * CN_MID + t[1],
                           t[4] + t[2], t[3]), 0)
     IN  r' = sum.d /\ carry' = sum.carry
  /\ Go("foldedThrice")
  /\ UNCHANGED t

\* Mutant: the top carry does not choose the difference.
ScalarSubtractNoTop ==
  /\ modulo = "N" /\ pc = "foldedThrice"
  /\ LET reduced == uint256_sub(r, CURVE_N)
     IN  r' = IF reduced.borrow = 0 THEN reduced.d ELSE r
  /\ Go("done")
  /\ UNCHANGED <<t, carry>>

\* keep_reduced = topcarry | (1 ^ borrow)
ScalarSubtract ==
  /\ modulo = "N" /\ pc = "foldedThrice"
  /\ LET reduced == uint256_sub(r, CURVE_N)
     IN  r' = IF carry # 0 \/ reduced.borrow = 0 THEN reduced.d ELSE r
  /\ Go("done")
  /\ UNCHANGED <<t, carry>>

Next ==
  \/ FieldFirstFold \/ FieldSecondFold \/ FieldThirdFold \/ FieldSubtract
  \/ ScalarFirstFold \/ ScalarSecondFold \/ ScalarResidualFold \/ ScalarSubtract

Spec == Init /\ [][Next]_vars

-----------------------------------------------------------------------------
\* field.c: "carry is at most 1" after the second fold and "Now carry is
\* guaranteed 0" after the third.  The conditional subtraction looks at r
\* alone, so a carry there would be lost.
CarriesDie ==
  modulo = "P" =>
    /\ pc = "foldedTwice" => carry <= 1
    /\ pc = "foldedThrice" => carry = 0

\* scalar.c drops t[7] when it folds limb 3, and t[5], t[6], t[7] after the
\* second loop, and takes topcarry for one bit: nothing is lost by it.
DroppedLimbsEmpty ==
  modulo = "N" =>
    /\ pc = "folded" => t[7] = 0
    /\ pc = "foldedTwice" => t[5] = 0 /\ t[6] = 0 /\ t[7] = 0
    /\ carry <= 1

\* The number that the limbs stand for, and how far it has been folded.
Folded ==
  CASE pc \in {"entered", "folded"} -> Value8(t)
    [] pc = "foldedTwice" -> IF modulo = "N" THEN Value8(t)
                             ELSE Value(r) + Two256 * carry
    [] pc = "foldedThrice" -> Value(r) + Two256 * carry
    [] pc = "done" -> Value(r)
FoldsDone ==
  CASE pc = "entered" -> 0
    [] pc = "folded" -> 1
    [] pc = "foldedTwice" -> 2
    [] pc = "foldedThrice" -> 3
    [] pc = "done" -> 4

Field == INSTANCE FoldReduce WITH
  R <- Two256, C <- FRED_C, Folds <- 3, Inputs <- Nat, v <- Folded, folds <- FoldsDone
Scalar == INSTANCE FoldReduce WITH
  R <- Two256, C <- C_N, Folds <- 3, Inputs <- Nat, v <- Folded, folds <- FoldsDone

\* The loops over limbs are three folds and a subtraction on numbers: every
\* limb, carry and topcarry accounted for, each step is one of FoldReduce.
FoldsNumbers ==
  /\ IF modulo = "P" THEN Field!Init ELSE Scalar!Init
  /\ [][IF modulo = "P" THEN Field!Next ELSE Scalar!Next]_vars

\* What the limbs hold in the end is the product, or the argument, modulo P
\* or N.
IsReduction == IF modulo = "P" THEN Field!Reduced ELSE Scalar!Reduced

=============================================================================
