-------------------------- MODULE FoldReduceProofs --------------------------
(***************************************************************************)
(* Proofs about FoldReduce, for every word R and every constant C that     *)
(* meets FoldsAssumption, and every input of two words.                    *)
(***************************************************************************)
EXTENDS FoldReduce, TLAPS

-----------------------------------------------------------------------------
(* Division with remainder *)

\* Multiplication distributes over addition.
LEMMA Distribute ==
  ASSUME NEW a \in Int, NEW b \in Int, NEW c \in Int
  PROVE  /\ a * (b + c) = a * b + a * c
         /\ a * (b - c) = a * b - a * c
         /\ a * b \in Int
         /\ a * b = b * a
OBVIOUS

\* Division with remainder, by its quotient and remainder.
LEMMA DivMod ==
  ASSUME NEW a \in Nat, NEW m \in Nat \ {0}
  PROVE  \E d \in Nat, r \in 0..m - 1 :
           a = m * d + r /\ a \div m = d /\ a % m = r
<1>1. /\ a = m * (a \div m) + (a % m)
      /\ a \div m \in Nat
      /\ a % m \in 0..m - 1
  OBVIOUS
<1>2. QED  BY <1>1

\* Quotient and remainder are unique.
LEMMA DivModUnique ==
  ASSUME NEW m \in Nat \ {0}, NEW q \in Int, NEW u \in 0..m - 1,
         NEW a \in Nat, a = m * q + u
  PROVE  a % m = u /\ a \div m = q
<1>1. PICK d \in Nat, s \in 0..m - 1 : a = m * d + s /\ a \div m = d /\ a % m = s
  BY DivMod
<1> DEFINE c == q - d
<1>2. c \in Int /\ m * c = s - u
  BY <1>1
<1>3. ~(c >= 1)
  <2>1. SUFFICES ASSUME c >= 1 PROVE FALSE
    OBVIOUS
  <2>2. m * c = m + m * (c - 1) /\ c - 1 \in Nat /\ m * (c - 1) \in Nat
    BY <1>2, <2>1
  <2>3. QED  BY <1>1, <1>2, <2>2
<1>4. ~(c <= 0 - 1)
  <2>1. SUFFICES ASSUME c <= 0 - 1 PROVE FALSE
    OBVIOUS
  <2> DEFINE n == 0 - c - 1
  <2>2. n \in Nat /\ c = 0 - n - 1 /\ m * n \in Nat
    BY <1>2, <2>1
  <2>3. m * c = (0 - m * n) - m
    BY <2>2
  <2> HIDE DEF n, c
  <2>4. QED  BY <1>1, <1>2, <2>2, <2>3
<1>5. c = 0
  BY <1>2, <1>3, <1>4
<1>6. QED  BY <1>1, <1>2, <1>5

\* Numbers that differ by a multiple of m have the same remainder.
LEMMA ModShift ==
  ASSUME NEW m \in Nat \ {0}, NEW a \in Nat, NEW b \in Nat, NEW q \in Int,
         a = b + m * q
  PROVE  a % m = b % m
<1>0. \A x \in Nat, y \in Int, z \in 0..m - 1 : x = m * y + z => x % m = z
  BY DivModUnique
<1>1. PICK d \in Nat, u \in 0..m - 1 : b = m * d + u /\ b % m = u
  BY DivMod
<1> DEFINE e == q + d
<1>2. e \in Int /\ a = m * e + u
  <2>1. m * (q + d) = m * q + m * d
    OBVIOUS
  <2>2. QED  BY <1>1, <2>1
<1> HIDE DEF e
<1>3. a % m = u
  BY ONLY <1>0, <1>2, a \in Nat, u \in 0..m - 1
<1>4. QED  BY <1>1, <1>3

-----------------------------------------------------------------------------
(* Folding *)

\* Multiplication by a natural number is monotonic.
LEMMA Monotone ==
  ASSUME NEW x \in Int, NEW y \in Int, NEW n \in Nat, x <= y
  PROVE  x * n <= y * n /\ x * n \in Int /\ y * n \in Int
OBVIOUS

LEMMA Moduli ==
  /\ R \in Nat \ {0} /\ C \in Nat \ {0} /\ M \in Nat \ {0}
  /\ R = M + C
BY RAssumption DEF M

\* A fold leaves the residue modulo M alone, since R is C modulo M.
LEMMA FoldCongruent ==
  ASSUME NEW x \in Nat
  PROVE  /\ (x % R) + (x \div R) * C \in Nat
         /\ ((x % R) + (x \div R) * C) % M = x % M
<1>1. PICK d \in Nat, r \in 0..R - 1 :
        x = R * d + r /\ x \div R = d /\ x % R = r
  BY Moduli, DivMod
<1> DEFINE y == r + d * C
<1>2. y = (x % R) + (x \div R) * C
  BY <1>1
<1>3. d * C \in Nat
  BY Moduli, Distribute
<1>4. r \in Nat /\ y \in Nat
  BY <1>1, <1>3, Moduli
<1>5. R * d = M * d + d * C
  <2>1. d * (M + C) = d * M + d * C /\ d * M = M * d /\ d * R = R * d
    BY Moduli, Distribute
  <2>2. QED  BY <2>1, Moduli
<1>6. x = y + M * d
  <2>1. M * d \in Int
    BY Moduli, Distribute
  <2>2. QED  BY <1>1, <1>3, <1>4, <1>5, <2>1
<1> HIDE DEF y
<1>7. x % M = y % M
  <2>1. d \in Int
    BY <1>1
  <2>2. \A m \in Nat \ {0}, a, b \in Nat, q \in Int :
          a = b + m * q => a % m = b % m
    BY ModShift
  <2>3. QED  BY ONLY <1>4, <1>6, <2>1, <2>2, Moduli, x \in Nat
<1>8. QED  BY <1>2, <1>4, <1>7

\* What a fold makes of a number below D + 1 times R.
LEMMA FoldBound ==
  ASSUME NEW x \in Nat, NEW D \in Nat, x < (D + 1) * R
  PROVE  (x % R) + (x \div R) * C <= R - 1 + D * C
<1>1. PICK d \in Nat, r \in 0..R - 1 :
        x = R * d + r /\ x \div R = d /\ x % R = r
  BY Moduli, DivMod
<1>2. d <= D
  <2>1. SUFFICES ASSUME D + 1 <= d PROVE FALSE
    BY <1>1
  <2>2. (D + 1) * R <= d * R /\ d * R = R * d
    BY <2>1, Moduli, Monotone, Distribute
  <2>3. R * d \in Int /\ (D + 1) * R \in Int
    BY Moduli, Distribute
  <2>4. QED  BY <1>1, <2>2, <2>3
<1>3. d * C <= D * C /\ d * C \in Int /\ D * C \in Int
  BY <1>2, Moduli, Monotone
<1>4. QED  BY <1>1, <1>3, Moduli

-----------------------------------------------------------------------------
\* The inductive invariant: the residue of the input, and how far the number
\* has been narrowed after each fold.
IInv ==
  /\ TypeOK
  /\ Congruent
  /\ folds = 0 => v < R * R
  /\ Narrows
  /\ Reduced

\* Every input has at most two words: the 512 bits of a product.
TwoWordInputs == Inputs \subseteq 0..R * R - 1

LEMMA InitHolds == ASSUME TwoWordInputs, Init PROVE IInv
<1>1. R * R \in Nat
  BY Moduli
<1>2. input \in Nat /\ v = input /\ folds = 0 /\ v < R * R
  BY <1>1 DEF Init, TwoWordInputs
<1>3. Folds \in {2, 3}
  BY FoldsAssumption
<1>4. QED
  BY <1>2, <1>3 DEF IInv, TypeOK, Congruent, Narrows, Reduced

LEMMA FoldHolds == ASSUME IInv, Fold PROVE IInv'
<1>1. /\ input \in Nat /\ v \in Nat /\ folds \in 0..Folds - 1
      /\ input' = input /\ folds' = folds + 1
      /\ v' = (v % R) + (v \div R) * C
      /\ Folds \in {2, 3}
      /\ v % M = input % M
  BY FoldsAssumption DEF IInv, TypeOK, Congruent, Fold
<1>2. v' \in Nat /\ v' % M = v % M
  BY <1>1, FoldCongruent
<1>3. C * C \in Nat /\ C * R \in Nat /\ R * R \in Nat
  BY Moduli
<1>4. folds = 0 => v' < (C + 1) * R
  <2>1. SUFFICES ASSUME folds = 0 PROVE v' < (C + 1) * R
    OBVIOUS
  <2>2. v < R * R
    BY <2>1 DEF IInv
  <2> DEFINE D == R - 1
  <2>3. D \in Nat /\ D + 1 = R
    BY Moduli
  <2>4. v' <= R - 1 + D * C
    <3>1. v < (D + 1) * R
      BY <2>2, <2>3
    <3> HIDE DEF D
    <3>2. QED  BY <1>1, <2>3, <3>1, FoldBound
  <2>5. D * C = C * R - C /\ (C + 1) * R = C * R + R
    <3>1. /\ C * (R - 1) = C * R - C * 1 /\ C * D = D * C
          /\ R * (C + 1) = R * C + R * 1
          /\ (C + 1) * R = R * (C + 1) /\ R * C = C * R
      BY <2>3, Moduli, Distribute
    <3>2. QED  BY <3>1, Moduli
  <2>6. QED  BY <1>2, <1>3, <2>4, <2>5, Moduli
<1>5. folds = 1 => v' <= R - 1 + C * C
  <2>1. SUFFICES ASSUME folds = 1 PROVE v' <= R - 1 + C * C
    OBVIOUS
  <2>2. v < (C + 1) * R
    BY <2>1 DEF IInv, Narrows
  <2>3. QED  BY <1>1, <2>2, Moduli, FoldBound
<1>6. folds = 2 => v' <= R - 1 + 2 * C
  <2>1. SUFFICES ASSUME folds = 2 PROVE v' <= R - 1 + 2 * C
    OBVIOUS
  <2>2. v < R + C * C /\ C * C <= 2 * R
    BY <1>1, <2>1, FoldsAssumption DEF IInv, Narrows
  <2>3. v < (2 + 1) * R
    BY <1>1, <1>3, <2>2, Moduli
  <2>4. QED  BY <1>1, <2>3, FoldBound
<1>7. folds' = Folds => v' < 2 * M
  <2>1. CASE Folds = 2
    <3>1. C * C + 2 * C <= R
      BY <2>1, FoldsAssumption
    <3>2. folds' = Folds => v' <= R - 1 + C * C
      BY <1>1, <1>5, <2>1
    <3>3. QED  BY <1>2, <1>3, <3>1, <3>2, Moduli
  <2>2. CASE Folds = 3
    <3>1. 4 * C <= R
      BY <2>2, FoldsAssumption
    <3>2. folds' = Folds => v' <= R - 1 + 2 * C
      BY <1>1, <1>6, <2>2
    <3>3. QED  BY <1>2, <3>1, <3>2, Moduli
  <2>3. QED  BY <1>1, <2>1, <2>2
<1>8. folds' = 2 => v' < R + C * C
  BY <1>1, <1>2, <1>3, <1>5, Moduli
<1>9. folds' \in 1..Folds
  BY <1>1
<1>10. TypeOK'
  BY <1>1, <1>2, <1>9 DEF TypeOK
<1>11. Congruent'
  <2>1. (v % M)' = v' % M /\ (input % M)' = input % M
    BY <1>1 DEF M
  <2>2. QED  BY <1>1, <1>2, <2>1 DEF Congruent
<1>12. (folds = 0 => v < R * R)' /\ Reduced'
  BY <1>1, <1>9 DEF Reduced
<1>13. Narrows'
  BY <1>1, <1>4, <1>7, <1>8 DEF Narrows, M
<1>14. QED  BY <1>10, <1>11, <1>12, <1>13 DEF IInv

LEMMA SubtractHolds == ASSUME IInv, Subtract PROVE IInv'
<1>1. /\ input \in Nat /\ v \in Nat /\ folds = Folds
      /\ input' = input /\ folds' = Folds + 1
      /\ v' = (IF v >= M THEN v - M ELSE v)
      /\ Folds \in {2, 3}
      /\ v % M = input % M
      /\ v < 2 * M
  BY FoldsAssumption DEF IInv, TypeOK, Congruent, Narrows, Subtract
<1>2. v' \in 0..M - 1 /\ v % M = v'
  <2>1. CASE v >= M
    <3>1. v' = v - M /\ v' \in 0..M - 1 /\ v = M * 1 + v'
      BY <1>1, <2>1, Moduli
    <3>2. QED  BY <1>1, <3>1, Moduli, DivModUnique
  <2>2. CASE ~(v >= M)
    <3>1. v' = v /\ v' \in 0..M - 1 /\ v = M * 0 + v'
      BY <1>1, <2>2, Moduli
    <3>2. QED  BY <1>1, <3>1, Moduli, DivModUnique
  <2>3. QED  BY <2>1, <2>2
<1>3. v' % M = v'
  <2>1. \A w \in 0..M - 1 : w % M = w
    BY Moduli
  <2>2. QED  BY <1>2, <2>1
<1>4. M' = M
  BY DEF M
<1>5. TypeOK'
  BY <1>1, <1>2, Moduli DEF TypeOK
<1>6. Congruent' /\ Reduced'
  BY <1>1, <1>2, <1>3, <1>4 DEF Congruent, Reduced
<1>7. (folds = 0 => v < R * R)'
  BY <1>1
<1>8. Narrows'
  <2>1. folds' # 1 /\ folds' # Folds
    BY <1>1
  <2>2. folds' # 2
    BY <1>1
  <2>3. QED  BY <1>1, <2>1, <2>2 DEF Narrows
<1>9. QED  BY <1>5, <1>6, <1>7, <1>8 DEF IInv

\* The invariant holds throughout, for inputs of two words.
THEOREM FoldInvariant == ASSUME TwoWordInputs PROVE Spec => []IInv
<1>1. Init => IInv
  BY InitHolds
<1>2. IInv /\ [Next]_vars => IInv'
  <2>1. SUFFICES ASSUME IInv, [Next]_vars PROVE IInv'
    OBVIOUS
  <2>2. CASE Fold
    BY <2>1, <2>2, FoldHolds
  <2>3. CASE Subtract
    BY <2>1, <2>3, SubtractHolds
  <2>4. CASE UNCHANGED vars
    BY <2>1, <2>4
       DEF IInv, TypeOK, Congruent, Narrows, Reduced, M, vars
  <2>5. QED  BY <2>1, <2>2, <2>3, <2>4 DEF Next
<1>3. QED  BY <1>1, <1>2, PTL DEF Spec

\* Secp256k1.fred, fred_internal and scalar_reduce_limbs as folds of numbers:
\* two folds suffice for a constant of the size of the field's, three for one
\* of the size of the scalars', and one subtraction yields the canonical
\* residue of every number of 512 bits.
THEOREM FoldReduces == ASSUME TwoWordInputs PROVE Spec => []Reduced
<1>1. IInv => Reduced
  BY DEF IInv
<1>2. QED  BY <1>1, FoldInvariant, PTL

\* How far each fold narrows the number; below 2M when M is subtracted.
THEOREM FoldNarrows == ASSUME TwoWordInputs PROVE Spec => []Narrows
<1>1. IInv => Narrows
  BY DEF IInv
<1>2. QED  BY <1>1, FoldInvariant, PTL

\* No fold changes the residue.
THEOREM FoldKeepsResidue == ASSUME TwoWordInputs PROVE Spec => []Congruent
<1>1. IInv => Congruent
  BY DEF IInv
<1>2. QED  BY <1>1, FoldInvariant, PTL

=============================================================================
