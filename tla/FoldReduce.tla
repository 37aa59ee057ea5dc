----------------------------- MODULE FoldReduce -----------------------------
(***************************************************************************)
(* Reduction modulo M = R - C by folding, on the numbers themselves: the   *)
(* part above R is multiplied by C and added to the part below, Folds      *)
(* times, and at the end M is subtracted at most once.                     *)
(*                                                                         *)
(* With Folds = 2 this is Secp256k1.fred of lib/secp256k1.rb.  With        *)
(* Folds = 3 it is what fred_internal and scalar_reduce_limbs of the C     *)
(* extension implement on limbs: LimbReduce refines it.                    *)
(***************************************************************************)
EXTENDS Integers

CONSTANTS
  R,      \* 2^256
  C,      \* 2^256 - P or 2^256 - N
  Folds,  \* how many times the function folds
  Inputs  \* what it is called with

ASSUME RAssumption == R \in Nat /\ C \in Nat \ {0} /\ C < R
ASSUME InputsAssumption == Inputs \subseteq Nat

\* What the constants of the curve satisfy, C being of 33 bits for the field
\* and of 129 bits for the scalars.
ASSUME FoldsAssumption ==
  \/ Folds = 2 /\ C * C + 2 * C <= R
  \/ Folds = 3 /\ C * C <= 2 * R /\ 4 * C <= R

M == R - C

VARIABLES
  input,  \* the number to reduce
  v,      \* what it has been folded to
  folds   \* how often; Folds + 1 after the subtraction

vars == <<input, v, folds>>

Init ==
  /\ input \in Inputs
  /\ v = input
  /\ folds = 0

\* Mutant: the bits above R are folded in without their weight.
FoldUnweighted ==
  /\ folds < Folds
  /\ v' = (v % R) + (v \div R)
  /\ folds' = folds + 1
  /\ UNCHANGED input

\* Mutant: the bits above R are added to the number and not taken off it.
FoldKeepsTop ==
  /\ folds < Folds
  /\ v' = v + (v \div R) * C
  /\ folds' = folds + 1
  /\ UNCHANGED input

Fold ==
  /\ folds < Folds
  /\ v' = (v % R) + (v \div R) * C
  /\ folds' = folds + 1
  /\ UNCHANGED input

\* Mutant: M itself is left as it is.
SubtractAbove ==
  /\ folds = Folds
  /\ v' = IF v > M THEN v - M ELSE v
  /\ folds' = folds + 1
  /\ UNCHANGED input

Subtract ==
  /\ folds = Folds
  /\ v' = IF v >= M THEN v - M ELSE v
  /\ folds' = folds + 1
  /\ UNCHANGED input

Next == Fold \/ Subtract

Spec == Init /\ [][Next]_vars

-----------------------------------------------------------------------------
TypeOK == input \in Nat /\ v \in Nat /\ folds \in 0..Folds + 1

\* No fold changes the residue.
Congruent == v % M = input % M

\* How far each fold gets, for an input of two words: after the first at most
\* C above R, after the second at most C^2, and never 2M when the single
\* subtraction comes.
Narrows ==
  /\ folds = 1 => v < (C + 1) * R
  /\ folds = 2 => v < R + C * C
  /\ folds = Folds => v < 2 * M

\* What the function returns is the canonical residue, @return [0, P).
Reduced == folds = Folds + 1 => v = input % M

=============================================================================
