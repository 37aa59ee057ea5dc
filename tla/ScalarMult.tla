----------------------------- MODULE ScalarMult -----------------------------
(***************************************************************************)
(* What a scalar multiplication promises, whatever the algorithm: called   *)
(* with a scalar it comes back once, with the multiple of the base point   *)
(* the scalar asks for.  A multiple is named by its discrete logarithm to  *)
(* the base, which is a number below the order N of the curve.             *)
(***************************************************************************)
EXTENDS Integers

CONSTANTS
  N,        \* the order of the curve
  Scalars,  \* what callers pass
  Strict,   \* are scalars outside [0, N) refused?
  Pending, Rejected

VARIABLES k, out

Init == k \in Scalars /\ out = Pending

\* The point at infinity is the multiple 0.
Answer ==
  /\ out = Pending
  /\ out' = IF Strict /\ k >= N THEN Rejected ELSE k % N
  /\ UNCHANGED k

Spec == Init /\ [][Answer]_<<k, out>> /\ WF_<<k, out>>(Answer)

\* The part of Spec that a step-by-step proof can reach.
SafeSpec == Init /\ [][Answer]_<<k, out>>
=============================================================================
